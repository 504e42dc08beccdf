------------------------------ MODULE ManagedCA ------------------------------
(***************************************************************************)
(* A CA the servers operate themselves (tls-certificates/local-ca.ts): the *)
(* intermediate, needed to boot, or the client-auth CA, loaded when the    *)
(* first client certificate is asked for.  Each server loads it once, from *)
(* the shared store or by generating and storing it, and keeps the promise *)
(* of that load for as long as it runs.                                    *)
(***************************************************************************)
EXTENDS Naturals

CONSTANTS
    Server,
    NoCa, NoCert,
    Kinds,        \* which CAs to look at, of "intermediate" and "clientAuth"
    Stored,       \* the records the store may hold at the start, or NoCa
    Life,         \* lifetime of a generated CA
    ClientLife,   \* lifetime of a client certificate
    Margin,       \* RENEWAL_MARGIN_MS
    MaxTime,      \* bound: last value of the clock
    MaxMade,      \* bound: CAs generated in a behaviour
    MaxOutages,   \* bound: outages of the store in a behaviour
    MaxCrashes    \* bound: crashes in a behaviour

\* A CA: which one it is and when it expires.  A record with id 0 stands for one whose
\* PEM cannot be parsed.
Ca == [id: Nat, exp: Nat]
ClientCert == [issuer: Nat, exp: Nat]

ASSUME StoredIsCa == /\ Stored \subseteq Ca \cup {NoCa}
                     /\ MaxMade \in Nat
                     /\ \A r \in Stored \ {NoCa} : r.id = 0 \/ r.id > MaxMade
ASSUME NoRecords == NoCa \notin Ca /\ NoCert \notin ClientCert
ASSUME KnownKinds == Kinds \subseteq {"intermediate", "clientAuth"}
ASSUME Times == /\ Life \in Nat /\ ClientLife \in Nat /\ MaxTime \in Nat
                /\ Margin \in Nat /\ Margin < Life

VARIABLES
    kind,       \* which CA this is
    clock,
    store,      \* the shared record of this CA
    outage,     \* the store cannot be reached
    st,         \* how far each server's load has got
    answer,     \* what the store answered to the latest read of each server
    ca,         \* the CA each server generated or loaded
    asked,      \* each server's call of getClientCertificate
    client,     \* this.clientCertificate of each server
    issued,     \* ghost: every client certificate handed out
    replaced,   \* ghost: a stored record has been overwritten
    seen,       \* ghost: what the store has held since each load began
    used        \* what has been used of each bound

vars == <<kind, clock, store, outage, st, answer, ca, asked, client, issued, replaced,
          seen, used>>

AtBoot == kind = "intermediate"

Parses(r) == r.id # 0

\* A load, from request to answer to continuation: the first read, then a write or
\* writeIfAbsent of a generated CA, then perhaps a second read.
Loading == {"reading", "read", "replacing", "claiming", "stored", "checking", "checked"}
HasOwn == {"replacing", "claiming", "stored", "checking", "checked"}

\* The shape of the state: a server holds a CA, one it could parse, from the moment it
\* has generated or loaded it until it stops.
TypeOK ==
    /\ kind \in Kinds
    /\ clock \in Nat
    /\ store \in Ca \cup {NoCa}
    /\ outage \in BOOLEAN
    /\ st \in [Server -> Loading \cup {"down", "idle", "ready", "failed"}]
    /\ ca \in [Server -> {c \in Ca : Parses(c)} \cup {NoCa}]
    /\ \A s \in Server : st[s] \in HasOwn \cup {"ready"} <=> ca[s] # NoCa
    /\ answer \in [Server -> Ca \cup {NoCa}]
    /\ asked \in [Server -> {"no", "waiting", "served", "refused"}]
    /\ client \in [Server -> ClientCert \cup {NoCert}]
    /\ issued \subseteq ClientCert
    /\ replaced \in BOOLEAN
    /\ seen \in [Server -> SUBSET (Ca \cup {NoCa})]
    /\ \A s \in Server : st[s] \in Loading <=> seen[s] # {}
    /\ used \in [made: Nat, outages: Nat, crashes: Nat]

Init ==
    /\ kind \in Kinds
    /\ clock = 0
    /\ store \in Stored
    /\ outage = FALSE
    /\ st = [s \in Server |-> "down"]
    /\ answer = [s \in Server |-> NoCa]
    /\ ca = [s \in Server |-> NoCa]
    /\ asked = [s \in Server |-> "no"]
    /\ client = [s \in Server |-> NoCert]
    /\ issued = {}
    /\ replaced = FALSE
    /\ seen = [s \in Server |-> {}]
    /\ used = [made |-> 0, outages |-> 0, crashes |-> 0]

-----------------------------------------------------------------------------
\* Mutant: the margin is not kept.
MutantIsCaUsable(r) == r.exp > clock

IsCaUsable(r) == r.exp > clock + Margin

Adoptable(r) == r # NoCa /\ IsCaUsable(r) /\ Parses(r)

Move(s, to) == st' = [st EXCEPT ![s] = to]
Hold(s, c) == ca' = [ca EXCEPT ![s] = c]
Answer(s, r) == answer' = [answer EXCEPT ![s] = r]

Begin(s) == seen' = [seen EXCEPT ![s] = {store}]
End(s) == seen' = [seen EXCEPT ![s] = {}]

\* A CA is written to the shared record, before the eyes of every load under way.
Write(c) ==
    /\ store' = c
    /\ seen' = [s \in Server |-> IF seen[s] = {} THEN {} ELSE seen[s] \cup {c}]

\* A process starts.  The certificate cache is loaded or, in an outage, left empty;
\* the intermediate is needed for the first certificate (server.ts:113-116).
Boot(s) ==
    /\ st[s] = "down"
    /\ \/ AtBoot /\ Move(s, "reading") /\ Begin(s)
       \/ ~AtBoot /\ Move(s, "idle") /\ UNCHANGED seen
    /\ UNCHANGED <<clock, store, outage, answer, ca, asked, client, issued, replaced, used>>

\* The store answers the read; the load goes on when the answer has arrived.
Read(s) ==
    /\ st[s] = "reading" /\ ~outage
    /\ Answer(s, store)
    /\ Move(s, "read")
    /\ UNCHANGED <<clock, store, outage, ca, asked, client, issued, replaced, seen, used>>

\* The CA that was read is adopted, or one is generated: to replace what was stored, or to
\* claim the empty place.
Decide(s) ==
    /\ st[s] = "read"
    /\ Answer(s, NoCa)
    /\ \/ /\ Adoptable(answer[s])
          /\ Move(s, "ready") /\ Hold(s, answer[s]) /\ End(s)
          /\ UNCHANGED used
       \/ /\ ~Adoptable(answer[s])
          /\ used.made < MaxMade
          /\ used' = [used EXCEPT !.made = @ + 1]
          /\ Move(s, IF answer[s] = NoCa THEN "claiming" ELSE "replacing")
          /\ Hold(s, [id |-> used.made + 1, exp |-> clock + Life])
          /\ UNCHANGED seen
    /\ UNCHANGED <<clock, store, outage, asked, client, issued, replaced>>

\* write: whatever the record is by now.
Replace(s) ==
    /\ st[s] = "replacing" /\ ~outage
    /\ Write(ca[s])
    /\ replaced' = TRUE
    /\ Move(s, "stored")
    /\ UNCHANGED <<clock, outage, answer, ca, asked, client, issued, used>>

\* Mutant: the record is written without the condition that none exists.
MutantClaim(s) ==
    /\ st[s] = "claiming" /\ ~outage
    /\ Write(ca[s]) /\ Move(s, "stored")
    /\ UNCHANGED <<clock, outage, answer, ca, asked, client, issued, replaced, used>>

\* writeIfAbsent: first come, first served; the loser reads again.
Claim(s) ==
    /\ st[s] = "claiming" /\ ~outage
    /\ \/ store = NoCa /\ Write(ca[s]) /\ Move(s, "stored")
       \/ store # NoCa /\ Move(s, "checking") /\ UNCHANGED <<store, seen>>
    /\ UNCHANGED <<clock, outage, answer, ca, asked, client, issued, replaced, used>>

\* The server goes into service with what it has stored, and another may have replaced.
Return(s) ==
    /\ st[s] = "stored"
    /\ Move(s, "ready") /\ End(s)
    /\ UNCHANGED <<clock, store, outage, answer, ca, asked, client, issued, replaced, used>>

\* The store answers the second read.
Check(s) ==
    /\ st[s] = "checking" /\ ~outage
    /\ Answer(s, store)
    /\ Move(s, "checked")
    /\ UNCHANGED <<clock, store, outage, ca, asked, client, issued, replaced, seen, used>>

\* Mutant: the loser keeps the CA it generated.
MutantConclude(s) ==
    /\ st[s] = "checked"
    /\ Move(s, "ready") /\ Answer(s, NoCa) /\ End(s)
    /\ UNCHANGED <<clock, store, outage, ca, asked, client, issued, replaced, used>>

\* The loser adopts the winner's CA, if it can.
Conclude(s) ==
    /\ st[s] = "checked"
    /\ Move(s, "ready") /\ Answer(s, NoCa) /\ End(s)
    /\ \/ Adoptable(answer[s]) /\ Hold(s, answer[s])
       \/ ~Adoptable(answer[s]) /\ UNCHANGED ca
    /\ UNCHANGED <<clock, store, outage, asked, client, issued, replaced, used>>

\* A file that another server is writing is read before it is complete.
Torn(s) ==
    /\ st[s] \in {"reading", "checking"}
    /\ \E t \in Server \ {s} : st[t] \in {"replacing", "claiming", "stored"}

\* A request or its answer is lost in an outage, and what was asked may have been done; or
\* a file is half-written.  The load is rejected: at boot that ends the process, later the
\* rejection is what is kept.
LoadFails(s) ==
    /\ st[s] \in Loading /\ (outage \/ Torn(s))
    /\ Move(s, IF AtBoot THEN "down" ELSE "failed")
    /\ Hold(s, NoCa) /\ Answer(s, NoCa) /\ End(s)
    /\ UNCHANGED <<clock, store, outage, asked, client, issued, replaced, used>>

-----------------------------------------------------------------------------
\* A handshake of the client-cert endpoint needs the client-auth CA (tls-handler.ts:140).
LoadForHandshake(s) ==
    /\ ~AtBoot /\ st[s] = "idle"
    /\ Move(s, "reading") /\ Begin(s)
    /\ UNCHANGED <<clock, store, outage, answer, ca, asked, client, issued, replaced, used>>

FarFromExpiry(cert) == cert # NoCert /\ cert.exp >= clock + Margin

\* getClientCertificate: the current one while it is far from expiry, otherwise a new
\* one, for which the CA is loaded if that was not done yet.
AskClientCert(s) ==
    /\ ~AtBoot /\ st[s] # "down" /\ asked[s] # "waiting"
    /\ \/ /\ FarFromExpiry(client[s])
          /\ asked' = [asked EXCEPT ![s] = "served"]
          /\ UNCHANGED <<st, seen>>
       \/ /\ ~FarFromExpiry(client[s])
          /\ asked' = [asked EXCEPT ![s] = "waiting"]
          /\ \/ st[s] = "idle" /\ Move(s, "reading") /\ Begin(s)
             \/ st[s] # "idle" /\ UNCHANGED <<st, seen>>
    /\ UNCHANGED <<clock, store, outage, answer, ca, client, issued, replaced, used>>

\* clampNotAfter: a certificate does not outlive its issuer.
Clamp(exp, limit) == IF exp > limit THEN limit ELSE exp

CreateClientCert(s) ==
    LET cert == [issuer |-> ca[s].id, exp |-> Clamp(clock + ClientLife, ca[s].exp)] IN
    /\ asked[s] = "waiting" /\ st[s] = "ready"
    /\ client' = [client EXCEPT ![s] = cert]
    /\ issued' = issued \cup {cert}
    /\ asked' = [asked EXCEPT ![s] = "served"]
    /\ UNCHANGED <<clock, store, outage, st, answer, ca, replaced, seen, used>>

\* Mutant: a call whose load was rejected goes on awaiting that load.
MutantRefuseClientCert(s) ==
    /\ asked[s] = "waiting" /\ st[s] = "failed"
    /\ client' = [client EXCEPT ![s] = NoCert]
    /\ UNCHANGED <<clock, store, outage, st, answer, ca, asked, issued, replaced, seen, used>>

\* The rejected load rejects every call that awaits it; the next call tries again.
RefuseClientCert(s) ==
    /\ asked[s] = "waiting" /\ st[s] = "failed"
    /\ asked' = [asked EXCEPT ![s] = "refused"]
    /\ client' = [client EXCEPT ![s] = NoCert]
    /\ UNCHANGED <<clock, store, outage, st, answer, ca, issued, replaced, seen, used>>

-----------------------------------------------------------------------------
StoreGoesDown ==
    /\ ~outage /\ used.outages < MaxOutages
    /\ outage' = TRUE
    /\ used' = [used EXCEPT !.outages = @ + 1]
    /\ UNCHANGED <<clock, store, st, answer, ca, asked, client, issued, replaced, seen>>

StoreComesBack ==
    /\ outage /\ outage' = FALSE
    /\ UNCHANGED <<clock, store, st, answer, ca, asked, client, issued, replaced, seen, used>>

Crash(s) ==
    /\ st[s] # "down" /\ used.crashes < MaxCrashes
    /\ used' = [used EXCEPT !.crashes = @ + 1]
    /\ Move(s, "down") /\ Hold(s, NoCa) /\ Answer(s, NoCa) /\ End(s)
    /\ asked' = [asked EXCEPT ![s] = "no"]
    /\ client' = [client EXCEPT ![s] = NoCert]
    /\ UNCHANGED <<clock, store, outage, issued, replaced>>

\* Ticks are weeks, a load takes seconds: none is under way when the clock moves.
Tick ==
    /\ clock < MaxTime /\ \A s \in Server : st[s] \notin Loading
    /\ clock' = clock + 1
    /\ UNCHANGED <<store, outage, st, answer, ca, asked, client, issued, replaced, seen, used>>

\* No request is outstanding: nothing happens until the next connection.
Rest ==
    /\ \A s \in Server : st[s] \notin Loading
    /\ UNCHANGED vars

Load(s) ==
    \/ Read(s) \/ Decide(s)
    \/ Replace(s) \/ Claim(s) \/ Return(s)
    \/ Check(s) \/ Conclude(s)
    \/ LoadFails(s)
Reply(s) == CreateClientCert(s) \/ RefuseClientCert(s)

Step ==
    \/ \E s \in Server :
          \/ Boot(s) \/ Load(s) \/ Crash(s)
          \/ LoadForHandshake(s) \/ AskClientCert(s) \/ Reply(s)
    \/ StoreGoesDown \/ StoreComesBack
    \/ Tick
    \/ Rest

Next == Step /\ UNCHANGED kind

Spec == Init /\ [][Next]_vars

\* Requests to the store end, awaited promises resume their callers, outages pass.
FairSpec ==
    /\ Spec /\ WF_vars(StoreComesBack /\ UNCHANGED kind)
    /\ \A s \in Server : /\ WF_vars(Load(s) /\ UNCHANGED kind)
                        /\ WF_vars(Reply(s) /\ UNCHANGED kind)

-----------------------------------------------------------------------------
Ready(s) == st[s] = "ready"

\* local-ca.ts:343-345, "the whole fleet converges on a single CA": while no stored CA has
\* had to be replaced, every server that has one has the stored one, through concurrent
\* creation, failed or half-done writes and restarts.
Converged == ~replaced => \A s \in Server : Ready(s) => ca[s] = store

\* local-ca.ts:441-444: as long as the client-auth CA has not been replaced, a downloaded
\* client certificate is accepted, until it expires, by every server that can check one.
ClientCertsAccepted ==
    ~replaced => \A cert \in issued, s \in Server :
                    Ready(s) /\ cert.exp > clock => cert.issuer = ca[s].id

\* A server goes into service with a CA that the store has held at some moment since the
\* load began, and that is further from expiry than the margin.  Another server's renewal
\* may have overwritten it by then (local-ca.ts:353-384).
ServesPersistedUsableCa ==
    [][\A s \in Server : ~Ready(s) /\ Ready(s)' =>
                ca'[s] \in seen[s] /\ ca'[s].exp > clock + Margin]_vars

\* Every call for a client certificate is answered, if only with an error.
ClientCertCallsEnd ==
    \A s \in Server : (asked[s] = "waiting") ~> (asked[s] # "waiting")

\* The fleet works with what FleetCA promises: one CA, the stored one, until one has to be
\* replaced, and from then on one that was stored while the server loaded it
\* (local-ca.ts:343-345).
Fleet == INSTANCE FleetCA WITH
             Candidate <- (Stored \ {NoCa}) \cup [id: 1..MaxMade, exp: Life..(Life + MaxTime)],
             None <- NoCa, settled <- store, renewed <- replaced, offered <- seen,
             held <- [s \in Server |-> IF Ready(s) THEN ca[s] ELSE NoCa]
ImplementsFleetCA == Fleet!Spec

(***************************************************************************)
(* What comments of the code say, and the code does not do.                *)
(***************************************************************************)

\* local-ca.ts:344-345: "renewing it if within its renewal margin, and adopting one created
\* concurrently by another server so the whole fleet converges on a single CA".
FleetConverges == \A s, t \in Server : Ready(s) /\ Ready(t) => ca[s] = ca[t]

\* local-ca.ts:442-444: "a previously-downloaded one keeps working across restarts/machines,
\* and renewals overlap automatically: old copies stay valid until their own expiry".
DownloadedCertsKeepWorking ==
    \A cert \in issued, s \in Server :
        Ready(s) /\ cert.exp > clock => cert.issuer = ca[s].id

\* local-ca.ts:243: "Regenerate a persisted CA or client cert once it's within this margin
\* of expiry": a server never works with a CA that has expired.
NeverServesExpiredCa == \A s \in Server : Ready(s) => ca[s].exp > clock

\* local-ca.ts:452: "A failed generation shouldn't poison the cache - fall through and
\* retry": a call made after a refused one sets out to load the CA again.
FailureIsRetried ==
    [][\A s \in Server : asked[s] = "refused" /\ asked'[s] = "waiting"
                            => st'[s] \in Loading \cup {"ready"}]_vars

\* cert-cache.ts:50: "A store outage at startup shouldn't block boot - start cold and
\* recover later": a boot is ended by a crash only.
BootSurvivesOutage ==
    [][\A s \in Server : st[s] \in Loading /\ st'[s] = "down"
                            => used'.crashes > used.crashes]_vars

=============================================================================
