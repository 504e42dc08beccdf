--------------------------- MODULE LocalLeaf_proofs ---------------------------
(***************************************************************************)
(* Proofs about LocalLeaf, for any hosts, any number of handshakes and any *)
(* bounds.                                                                 *)
(***************************************************************************)
EXTENDS LocalLeaf, TLAPS

\* A LocalCA starts with empty caches (local-ca.ts:261-265).
THEOREM InitType == Init => TypeOK
BY DEF Init, TypeOK, Made, Idle, Nobody, NoContext, Staples, Stapling, Generating

\* What is in a sequence.
LEMMA Entries == \A S : \A s \in Seq(S) : \A i \in DOMAIN s : s[i] \in S
OBVIOUS

\* The times of the clock and of the certificates.
LEMMA Times == TypeOK => clock \in Nat /\ \A c \in Made : made[c].key \in Key /\ made[c].at \in Nat
<1> SUFFICES ASSUME TypeOK, NEW c \in Made PROVE made[c] \in [key: Key, at: Nat]
  BY DEF TypeOK
<1>1. made \in Seq([key: Key, at: Nat]) /\ c \in DOMAIN made
  BY DEF TypeOK, Made
<1> QED
  BY <1>1, Entries

\* A handshake that awaits its answer has a certificate.
LEMMA Served ==
    ASSUME TypeOK, NEW n \in Conn, conn[n].st = "stapling" PROVE conn[n] \in Stapling
<1>1. conn[n] \in {Idle} \cup Generating \cup Stapling
  BY DEF TypeOK
<1> QED
  BY <1>1 DEF Idle, Generating

\* A certificate that is made leaves those made before as they are.
LEMMA Appended ==
    ASSUME TypeOK, NEW e, made' = Append(made, e)
    PROVE  /\ Made' = Made \cup {Len(made) + 1}
           /\ Len(made) + 1 \in Nat \ Made
           /\ made'[Len(made) + 1] = e
           /\ \A c \in Made : made'[c] = made[c]
BY DEF TypeOK, Made

\* The key of a host's leaf (local-ca.ts:190-200).
LEMMA KeyOfHost == \A h \in Host : LeafKey(h) \in Key /\ LeafKey(h).selfSigned = h.selfSigned
BY DEF Key, LeafKey

\* A handshake that needs no new certificate (local-ca.ts:534-535, tls-handler.ts:133-157).
LEMMA HandleType ==
    ASSUME TypeOK, NEW n \in Conn, NEW h \in Host, HandleConnection(n, h) PROVE TypeOK'
<1> USE Bounds, NoCertIsNone, KeyOfHost
<1>1. UNCHANGED <<clock, made, certInMemoryCache, selfSignedCerts, timers>> /\ staple' = Nobody
  BY DEF HandleConnection
<1>2. ASSUME NEW cert \in Made, Proceed(n, h, cert) PROVE conn' \in [Conn -> {Idle} \cup Generating \cup Stapling]
  BY <1>2 DEF Proceed, TypeOK, Stapling
<1>3. ASSUME NEW cert \in Made, Context(h, cert, clock)
      PROVE  contexts' \in [Host -> {NoContext} \cup [cert: Made, until: Nat]]
  BY <1>3 DEF Context, TypeOK
<1>4. Made' = Made /\ Stapling' = Stapling /\ Staples' = Staples
  BY <1>1 DEF Made, Stapling, Staples
<1>5. CASE UseContext(n, h)
  <2>1. contexts[h].cert \in Made
    BY <1>5 DEF UseContext, TypeOK, NoContext
  <2> QED
    BY <1>1, <1>2, <1>5, <1>4, <2>1 DEF UseContext, TypeOK
<1>6. CASE UseLeaf(n, h)
  <2>1. certInMemoryCache[LeafKey(h)] \in Made
    BY <1>6 DEF UseLeaf, TypeOK
  <2> QED
    BY <1>1, <1>2, <1>3, <1>6, <1>4, <2>1 DEF UseLeaf, TypeOK
<1>7. CASE StartGenerating(n, h)
  BY <1>1, <1>7 DEF StartGenerating, TypeOK, Made, Generating, Stapling, Staples
<1> QED
  BY <1>5, <1>6, <1>7 DEF HandleConnection

\* A certificate is made; its key is kept if it is its own issuer (local-ca.ts:645-657).
LEMMA GenerateType ==
    ASSUME TypeOK, NEW n \in Conn, GenerateCertificate(n) PROVE TypeOK'
<1> USE Bounds, NoCertIsNone, KeyOfHost
<1> DEFINE h == conn[n].host
           cert == Len(made) + 1
           e == [key |-> LeafKey(h), at |-> clock]
<1>1. h \in Host /\ conn[n].now \in Nat
  BY DEF GenerateCertificate, TypeOK, Idle, Generating, Stapling
<1>2. made' = Append(made, e) /\ made' \in Seq([key: Key, at: Nat])
  BY <1>1 DEF GenerateCertificate, TypeOK
<1>3. /\ Made' = Made \cup {cert} /\ cert \in Nat \ Made
      /\ made'[cert] = e /\ \A c \in Made : made'[c] = made[c]
  BY <1>2, Appended
<1>4. timers' = timers \cup {[cert |-> cert, due |-> clock + OneDay]}
  BY DEF GenerateCertificate
<1>5. selfSignedCerts' = {c \in Made' : made'[c].key.selfSigned /\ \E t \in timers' : t.cert = c}
  <2>1. selfSignedCerts' = selfSignedCerts \cup (IF h.selfSigned THEN {cert} ELSE {})
    BY DEF GenerateCertificate
  <2>2. e.key.selfSigned = h.selfSigned
    BY <1>1
  <2>3. \A c \in Made : (\E t \in timers' : t.cert = c) <=> \E t \in timers : t.cert = c
    BY <1>3, <1>4
  <2>4. \E t \in timers' : t.cert = cert
    <3>1. [cert |-> cert, due |-> clock + OneDay] \in timers'
      BY <1>4
    <3> QED
      BY <3>1
  <2>5. selfSignedCerts = {c \in Made : made[c].key.selfSigned /\ \E t \in timers : t.cert = c}
    BY DEF TypeOK
  <2> QED
    BY <1>3, <2>1, <2>2, <2>3, <2>4, <2>5
<1>6. timers' \subseteq [cert: Made', due: Nat]
  BY <1>3, <1>4 DEF TypeOK
<1>7. \A t \in timers' : t.due = made'[t.cert].at + OneDay /\ clock <= t.due
  BY <1>3, <1>4 DEF TypeOK
<1>8. certInMemoryCache' \in [Key -> Made' \cup {NoCert}]
  BY <1>1, <1>3 DEF GenerateCertificate, TypeOK
<1>9. contexts' \in [Host -> {NoContext} \cup [cert: Made', until: Nat]]
  BY <1>1, <1>3 DEF GenerateCertificate, Context, TypeOK
<1>10. conn' \in [Conn -> {Idle} \cup Generating \cup Stapling']
  <2>1. Stapling \subseteq Stapling'
    BY <1>3 DEF Stapling
  <2>2. [st |-> "stapling", host |-> h, now |-> clock, cert |-> cert] \in Stapling'
    BY <1>1, <1>3 DEF Stapling, TypeOK
  <2> QED
    BY <2>1, <2>2 DEF GenerateCertificate, Proceed, TypeOK
<1> QED
  BY <1>2, <1>5, <1>6, <1>7, <1>8, <1>9, <1>10 DEF GenerateCertificate, TypeOK, Generating

\* A timer takes with it the key of its certificate, and no other (local-ca.ts:654-657).
LEMMA TimerType ==
    ASSUME TypeOK, NEW t \in timers, TimerFires(t) PROVE TypeOK'
<1> USE NoCertIsNone
<1>1. ASSUME NEW u \in timers, u.cert = t.cert PROVE u = t
  <2>1. u.due = t.due /\ u \in [cert: Made, due: Nat] /\ t \in [cert: Made, due: Nat]
    BY <1>1 DEF TypeOK
  <2> QED
    BY <1>1, <2>1
<1>2. made[t.cert].key \in Key /\ t.cert \in Made
  <2>1. t.cert \in Made
    BY DEF TypeOK
  <2> QED
    BY <2>1, Times
<1>3. selfSignedCerts' = {c \in Made : made[c].key.selfSigned /\ \E u \in timers' : u.cert = c}
  BY <1>1 DEF TimerFires, Forget, TypeOK
<1>4. certInMemoryCache' \in [Key -> Made \cup {NoCert}]
  BY <1>2 DEF TimerFires, Forget, TypeOK
<1>5. Made' = Made /\ Stapling' = Stapling
  BY DEF TimerFires, Made, Stapling
<1>6. timers' \subseteq [cert: Made, due: Nat]
  BY DEF TimerFires, TypeOK
<1>7. \A u \in timers' : u.due = made[u.cert].at + OneDay /\ clock <= u.due
  BY DEF TimerFires, TypeOK
<1>8. UNCHANGED <<clock, made, contexts, conn>> /\ staple' = Nobody
  BY DEF TimerFires
<1>9. selfSignedCerts' = {c \in Made' : made'[c].key.selfSigned /\ \E u \in timers' : u.cert = c}
  BY <1>3, <1>5, <1>8
<1>10. certInMemoryCache' \in [Key -> Made' \cup {NoCert}] /\ timers' \subseteq [cert: Made', due: Nat]
  BY <1>4, <1>5, <1>6
<1>11. \A u \in timers' : u.due = made'[u.cert].at + OneDay /\ clock' <= u.due
  BY <1>7, <1>8
<1>12. /\ contexts' \in [Host -> {NoContext} \cup [cert: Made', until: Nat]]
       /\ conn' \in [Conn -> {Idle} \cup Generating \cup Stapling']
       /\ clock' \in Nat /\ made' \in Seq([key: Key, at: Nat])
  BY <1>5, <1>8 DEF TypeOK
<1>13. Generating' = Generating
  BY DEF Generating
<1> QED
  BY <1>8, <1>9, <1>10, <1>11, <1>12, <1>13 DEF TypeOK

\* Every step keeps the shape of the state.
THEOREM NextType == TypeOK /\ [Next]_vars => TypeOK'
<1> SUFFICES ASSUME TypeOK, [Next]_vars PROVE TypeOK'
  OBVIOUS
<1> USE NoCertIsNone, Bounds
<1>1. ASSUME NEW n \in Conn, Staple(n) PROVE TypeOK'
  BY <1>1 DEF Staple, GetOcspResponse, TypeOK, Made, Staples, Stapling, Generating, Idle
<1>2. ASSUME NEW n \in Conn, Disconnect(n) PROVE TypeOK'
  BY <1>2 DEF Disconnect, TypeOK, Made, Staples, Stapling, Generating
<1>3. ASSUME NEW h \in Host, Evict(h) PROVE TypeOK'
  BY <1>3 DEF Evict, TypeOK, Made, Staples, Stapling, Generating
<1>4. CASE Tick
  BY <1>4 DEF Tick, TypeOK, Made, Staples, Stapling, Generating
<1>5. CASE UNCHANGED vars
  BY <1>5 DEF vars, TypeOK, Made, Staples, Stapling, Generating
<1> QED
  BY <1>1, <1>2, <1>3, <1>4, <1>5, HandleType, GenerateType, TimerType DEF Next

\* The maps and timers of LocalCA keep their shape (local-ca.ts:261-265, 645-657).
THEOREM TypeCorrect == Spec => []TypeOK
BY InitType, NextType, PTL DEF Spec

-----------------------------------------------------------------------------
(***************************************************************************)
(* The answers of a cached leaf.  What keeps them possible is that a leaf  *)
(* is cached under its own key, and no longer than its timer runs: the     *)
(* timer of an older certificate may drop a younger one from the cache,    *)
(* never the other way round.                                              *)
(***************************************************************************)
Timed(c) == \E t \in timers : t.cert = c

CachedOK == \A k \in Key : certInMemoryCache[k] # NoCert =>
    made[certInMemoryCache[k]].key = k /\ Timed(certInMemoryCache[k])

\* The steps that leave the leaf cache and the timers alone.
LEMMA Elsewhere ==
    ASSUME [Next]_vars,
           \A n \in Conn : ~GenerateCertificate(n), \A t \in timers : ~TimerFires(t)
    PROVE  UNCHANGED <<made, certInMemoryCache, timers>>
BY DEF Next, vars, HandleConnection, Staple, Disconnect, Evict, Tick

\* A leaf is cached under its own key (local-ca.ts:645), until a timer of that key (654-657).
LEMMA CachedNext ==
    ASSUME TypeOK, CachedOK, [Next]_vars PROVE CachedOK'
<1> USE NoCertIsNone
<1> DEFINE cached(k) == certInMemoryCache[k]
<1>1. ASSUME NEW n \in Conn, GenerateCertificate(n) PROVE CachedOK'
  <2> DEFINE h == conn[n].host
             cert == Len(made) + 1
             e == [key |-> LeafKey(h), at |-> clock]
  <2>1. h \in Host /\ LeafKey(h) \in Key
    BY <1>1, KeyOfHost DEF GenerateCertificate, TypeOK, Idle, Generating, Stapling
  <2>2. /\ made' = Append(made, e)
        /\ certInMemoryCache' = [certInMemoryCache EXCEPT ![LeafKey(h)] = cert]
        /\ timers' = timers \cup {[cert |-> cert, due |-> clock + OneDay]}
    BY <1>1 DEF GenerateCertificate
  <2>3. made'[cert] = e /\ \A c \in Made : made'[c] = made[c]
    BY <2>2, Appended
  <2> SUFFICES ASSUME NEW k \in Key, cached(k)' # NoCert
               PROVE  made'[cached(k)'].key = k /\ Timed(cached(k))'
    BY DEF CachedOK
  <2>4. CASE k = LeafKey(h)
    <3>1. cached(k)' = cert
      BY <2>1, <2>2, <2>4 DEF TypeOK
    <3>2. [cert |-> cert, due |-> clock + OneDay] \in timers'
      BY <2>2
    <3>3. \E t \in timers' : t.cert = cert
      BY <3>2
    <3> QED
      BY <2>3, <2>4, <3>1, <3>3 DEF Timed
  <2>5. CASE k # LeafKey(h)
    <3>1. cached(k)' = cached(k) /\ cached(k) \in Made
      BY <2>1, <2>2, <2>5 DEF TypeOK
    <3>2. made[cached(k)].key = k /\ Timed(cached(k))
      BY <3>1 DEF CachedOK
    <3> QED
      BY <2>2, <2>3, <3>1, <3>2 DEF Timed
  <2> QED
    BY <2>4, <2>5
<1>2. ASSUME NEW t \in timers, TimerFires(t) PROVE CachedOK'
  <2>1. /\ certInMemoryCache' = [certInMemoryCache EXCEPT ![made[t.cert].key] = NoCert]
        /\ timers' = timers \ {t} /\ made' = made
    BY <1>2 DEF TimerFires, Forget
  <2> SUFFICES ASSUME NEW k \in Key, cached(k)' # NoCert
               PROVE  made'[cached(k)'].key = k /\ Timed(cached(k))'
    BY DEF CachedOK
  <2>2. k # made[t.cert].key /\ cached(k)' = cached(k)
    BY <2>1 DEF TypeOK
  <2>3. made[cached(k)].key = k /\ Timed(cached(k))
    BY <2>2 DEF CachedOK
  <2> QED
    BY <2>1, <2>2, <2>3 DEF Timed
<1>3. CASE (\A n \in Conn : ~GenerateCertificate(n)) /\ (\A t \in timers : ~TimerFires(t))
  BY <1>3, Elsewhere DEF CachedOK, Timed
<1> QED
  BY <1>1, <1>2, <1>3

\* A cached leaf has an answer, whatever handshakes and timers did before
\* (local-ca.ts:263-265, 645-657).
THEOREM CachedAnswers == Spec => []CachedCanAnswer
<1>1. Init => CachedOK
  BY DEF Init, CachedOK
<1>2. TypeOK /\ CachedOK => CachedCanAnswer
  BY DEF TypeOK, CachedOK, CachedCanAnswer, HasIssuer, Timed
<1> QED
  BY <1>1, <1>2, CachedNext, TypeCorrect, PTL DEF Spec

-----------------------------------------------------------------------------
(* The first day: every younger certificate still has its timer. *)
Aged == \A c \in Made :
    made[c].at <= clock /\ (clock < made[c].at + OneDay => Timed(c))

\* A timer fires no earlier than a day after its certificate was made (local-ca.ts:654-657).
LEMMA AgedNext ==
    ASSUME TypeOK, Aged, [Next]_vars PROVE Aged'
<1> USE Bounds
<1>1. ASSUME NEW n \in Conn, GenerateCertificate(n) PROVE Aged'
  <2> DEFINE cert == Len(made) + 1
             e == [key |-> LeafKey(conn[n].host), at |-> clock]
  <2>1. /\ made' = Append(made, e) /\ clock' = clock
        /\ timers' = timers \cup {[cert |-> cert, due |-> clock + OneDay]}
    BY <1>1 DEF GenerateCertificate
  <2>2. Made' = Made \cup {cert} /\ made'[cert] = e /\ \A c \in Made : made'[c] = made[c]
    BY <2>1, Appended
  <2> SUFFICES ASSUME NEW c \in Made'
               PROVE  made'[c].at <= clock /\ (clock < made'[c].at + OneDay => \E t \in timers' : t.cert = c)
    BY <2>1 DEF Aged, Timed
  <2>3. CASE c = cert
    <3>1. [cert |-> cert, due |-> clock + OneDay] \in timers'
      BY <2>1
    <3> QED
      BY <2>2, <2>3, <3>1 DEF TypeOK
  <2>4. CASE c \in Made
    BY <2>1, <2>2, <2>4 DEF Aged, Timed
  <2> QED
    BY <2>2, <2>3, <2>4
<1>2. ASSUME NEW t \in timers, TimerFires(t) PROVE Aged'
  <2>1. timers' = timers \ {t} /\ made' = made /\ clock' = clock /\ t.due <= clock
    BY <1>2 DEF TimerFires
  <2>2. t.due = made[t.cert].at + OneDay /\ clock \in Nat /\ \A c \in Made : made[c].at \in Nat
    BY Times DEF TypeOK
  <2>3. t.cert \in Made
    BY DEF TypeOK
  <2> SUFFICES ASSUME NEW c \in Made, clock < made[c].at + OneDay
               PROVE  \E u \in timers' : u.cert = c
    BY <2>1 DEF Aged, Timed, Made
  <2>4. PICK u \in timers : u.cert = c
    BY DEF Aged, Timed
  <2>5. c # t.cert
    BY <2>1, <2>2, <2>3
  <2> QED
    BY <2>1, <2>4, <2>5
<1>3. CASE Tick
  <2>1. clock' = clock + 1 /\ made' = made /\ timers' = timers
    BY <1>3 DEF Tick
  <2>2. clock \in Nat /\ \A c \in Made : made[c].at \in Nat
    BY Times
  <2>3. Made' = Made
    BY <2>1 DEF Made
  <2> QED
    BY <2>1, <2>2, <2>3 DEF Aged, Timed
<1>4. CASE UNCHANGED <<clock, made, timers>>
  BY <1>4 DEF Aged, Timed, Made
<1> QED
  BY <1>1, <1>2, <1>3, <1>4
     DEF Next, vars, HandleConnection, Staple, Disconnect, Evict

\* An answer that fails is for a certificate without a timer.
LEMMA StapledNext ==
    ASSUME TypeOK, Aged, StapledFirstDay, [Next]_vars PROVE StapledFirstDay'
<1>1. ASSUME NEW n \in Conn, Staple(n) PROVE StapledFirstDay'
  <2> DEFINE c == conn[n].cert
  <2>1. /\ staple' = [host |-> conn[n].host, cert |-> c, status |-> GetOcspResponse(c)]
        /\ made' = made /\ clock' = clock
    BY <1>1 DEF Staple
  <2>2. c \in Made
    BY <1>1, Served DEF Staple, Stapling
  <2>3. GetOcspResponse(c) = "none" => ~Timed(c)
    BY <2>2 DEF GetOcspResponse, HasIssuer, TypeOK, Timed
  <2>4. clock \in Nat /\ made[c].at \in Nat /\ OneDay \in Nat
    BY <2>2, Times, Bounds
  <2>5. GetOcspResponse(c) = "none" => clock >= made[c].at + OneDay
    BY <2>2, <2>3, <2>4 DEF Aged
  <2> QED
    BY <2>1, <2>5 DEF StapledFirstDay
<1>2. CASE staple' = Nobody
  BY <1>2 DEF StapledFirstDay
<1>3. CASE UNCHANGED vars
  BY <1>3 DEF StapledFirstDay, vars
<1> QED
  BY <1>1, <1>2, <1>3
     DEF Next, HandleConnection, GenerateCertificate, TimerFires, Disconnect, Evict, Tick

\* On the day it was made, every certificate has its answer (local-ca.ts:666-689).
THEOREM AnswersFirstDay == Spec => []StapledFirstDay
<1>1. Init => Aged /\ StapledFirstDay
  BY DEF Init, Aged, StapledFirstDay, Made
<1> QED
  BY <1>1, AgedNext, StapledNext, TypeCorrect, PTL DEF Spec

-----------------------------------------------------------------------------
(***************************************************************************)
(* Two days: a context is made of a leaf whose timer has not fired, and    *)
(* lives a day more.                                                       *)
(***************************************************************************)
Late(c) == made[c].at + 2 * OneDay

ContextsOK == \A h \in Host :
    contexts[h] # NoContext => contexts[h].cert \in Made /\ contexts[h].until <= Late(contexts[h].cert)

ConnOK == \A n \in Conn : conn[n] # Idle =>
    /\ conn[n].now <= clock
    /\ conn[n].st = "stapling" => conn[n].now < Late(conn[n].cert)

\* A handshake goes on with a context of the cache, or makes one of a leaf with a timer
\* (secure-context-cache.ts:20-51, local-ca.ts:534-535).
LEMMA HandleLate ==
    ASSUME TypeOK, CachedOK, ContextsOK, ConnOK, NEW n \in Conn, NEW h \in Host, HandleConnection(n, h)
    PROVE  ContextsOK' /\ ConnOK'
<1> USE NoCertIsNone, Bounds, Times, KeyOfHost
<1>1. made' = made /\ clock' = clock /\ Made' = Made
  BY DEF HandleConnection, Made
<1>2. \A c \in Made : Late(c)' = Late(c) /\ Late(c) \in Nat
  BY <1>1 DEF Late
<1>3. \A m \in Conn : conn[m] # Idle /\ conn[m].st = "stapling" => conn[m].cert \in Made
  BY Served DEF Stapling
<1>4. ASSUME NEW cert \in Made, Proceed(n, h, cert), clock < Late(cert) PROVE ConnOK'
  <2>1. conn' = [conn EXCEPT ![n] = [st |-> "stapling", host |-> h, now |-> clock, cert |-> cert]]
    BY <1>4 DEF Proceed
  <2> SUFFICES ASSUME NEW m \in Conn, conn'[m] # Idle
               PROVE  /\ conn'[m].now <= clock
                      /\ conn'[m].st = "stapling" => conn'[m].now < made[conn'[m].cert].at + 2 * OneDay
    BY <1>1 DEF ConnOK, Late
  <2>2. CASE m = n
    <3>1. conn'[m] = [st |-> "stapling", host |-> h, now |-> clock, cert |-> cert]
      BY <2>1, <2>2 DEF TypeOK
    <3> QED
      BY <1>4, <3>1 DEF Late
  <2>3. CASE m # n
    <3>1. conn'[m] = conn[m]
      BY <2>1, <2>3 DEF TypeOK
    <3> QED
      BY <3>1 DEF ConnOK, Late
  <2> QED
    BY <2>2, <2>3
<1>5. CASE UseContext(n, h)
  <2>1. contexts' = contexts /\ Proceed(n, h, contexts[h].cert) /\ contexts[h].until > clock
    BY <1>5 DEF UseContext
  <2>2. contexts[h] # NoContext
    BY <2>1 DEF NoContext
  <2>3. contexts[h].cert \in Made /\ contexts[h].until <= Late(contexts[h].cert) /\ contexts[h].until \in Nat
    BY <2>2 DEF ContextsOK, TypeOK
  <2>4. ContextsOK'
    BY <1>1, <1>2, <2>1 DEF ContextsOK, Late
  <2> QED
    BY <1>2, <1>4, <2>1, <2>3, <2>4
<1>6. CASE UseLeaf(n, h)
  <2> DEFINE cert == certInMemoryCache[LeafKey(h)]
  <2>1. /\ cert # NoCert /\ Proceed(n, h, cert)
        /\ contexts' = [contexts EXCEPT ![h] = [cert |-> cert, until |-> clock + OneDay]]
    BY <1>6 DEF UseLeaf, Context
  <2>2. cert \in Made /\ Timed(cert)
    BY <2>1 DEF TypeOK, CachedOK
  <2>3. clock <= made[cert].at + OneDay
    BY <2>2 DEF Timed, TypeOK
  <2>4. clock < Late(cert) /\ clock + OneDay <= Late(cert)
    BY <2>2, <2>3 DEF Late
  <2>5. ContextsOK'
    BY <1>1, <1>2, <2>1, <2>2, <2>4 DEF ContextsOK, TypeOK, Late
  <2> QED
    BY <1>4, <2>1, <2>2, <2>4, <2>5
<1>7. CASE StartGenerating(n, h)
  <2>1. /\ conn' = [conn EXCEPT ![n] = [st |-> "generating", host |-> h, now |-> clock]]
        /\ contexts' = [contexts EXCEPT ![h] = NoContext]
    BY <1>7 DEF StartGenerating
  <2>2. ContextsOK'
    BY <1>1, <1>2, <2>1 DEF ContextsOK, TypeOK, Late
  <2>3. ConnOK'
    BY <1>1, <1>2, <1>3, <2>1 DEF ConnOK, TypeOK, Late
  <2> QED
    BY <2>2, <2>3
<1> QED
  BY <1>5, <1>6, <1>7 DEF HandleConnection

\* A certificate made now: its context is cached from the moment the handshake began
\* (secure-context-cache.ts:21, 38-49).
LEMMA GenerateLate ==
    ASSUME TypeOK, ContextsOK, ConnOK, NEW n \in Conn, GenerateCertificate(n)
    PROVE  ContextsOK' /\ ConnOK'
<1> USE NoCertIsNone, Bounds, Times
<1> DEFINE h == conn[n].host
           cert == Len(made) + 1
           e == [key |-> LeafKey(h), at |-> clock]
           late == clock + 2 * OneDay
<1>1. /\ made' = Append(made, e) /\ clock' = clock
      /\ contexts' = [contexts EXCEPT ![h] = [cert |-> cert, until |-> conn[n].now + OneDay]]
      /\ conn' = [conn EXCEPT ![n] = [st |-> "stapling", host |-> h, now |-> clock, cert |-> cert]]
      /\ conn[n] # Idle
  BY DEF GenerateCertificate, Context, Proceed, Idle
<1>2. Made' = Made \cup {cert} /\ made'[cert] = e /\ \A c \in Made : made'[c] = made[c]
  BY <1>1, Appended
<1>3. conn[n].now \in Nat /\ conn[n].now <= clock
  BY <1>1 DEF TypeOK, ConnOK, Generating, Stapling
<1>4. ContextsOK'
  <2> SUFFICES ASSUME NEW g \in Host, contexts'[g] # NoContext
               PROVE  contexts'[g].cert \in Made' /\
                      contexts'[g].until <= made'[contexts'[g].cert].at + 2 * OneDay
    BY DEF ContextsOK, Late
  <2>1. CASE g = h
    <3>1. contexts'[g] = [cert |-> cert, until |-> conn[n].now + OneDay]
      BY <1>1, <2>1 DEF TypeOK
    <3> QED
      BY <1>2, <1>3, <3>1
  <2>2. CASE g # h
    <3>1. contexts'[g] = contexts[g]
      BY <1>1, <2>2 DEF TypeOK
    <3> QED
      BY <1>2, <3>1 DEF ContextsOK, Late
  <2> QED
    BY <2>1, <2>2
<1>5. ConnOK'
  <2> SUFFICES ASSUME NEW m \in Conn, conn'[m] # Idle
               PROVE  /\ conn'[m].now <= clock
                      /\ conn'[m].st = "stapling" => conn'[m].now < made'[conn'[m].cert].at + 2 * OneDay
    BY <1>1 DEF ConnOK, Late
  <2>1. CASE m = n
    <3>1. conn'[m] = [st |-> "stapling", host |-> h, now |-> clock, cert |-> cert]
      BY <1>1, <2>1 DEF TypeOK
    <3> QED
      BY <1>2, <3>1
  <2>2. CASE m # n
    <3>1. conn'[m] = conn[m]
      BY <1>1, <2>2 DEF TypeOK
    <3>2. conn[m].st = "stapling" => conn[m].cert \in Made
      BY Served DEF Stapling
    <3> QED
      BY <1>2, <3>1, <3>2 DEF ConnOK, Late
  <2> QED
    BY <2>1, <2>2
<1> QED
  BY <1>4, <1>5

LEMMA LateNext ==
    ASSUME TypeOK, CachedOK, ContextsOK, ConnOK, [Next]_vars PROVE ContextsOK' /\ ConnOK'
<1> USE Times
<1>1. ASSUME NEW n \in Conn, conn' = [conn EXCEPT ![n] = Idle],
             UNCHANGED <<clock, made, contexts>>
      PROVE  ContextsOK' /\ ConnOK'
  BY <1>1 DEF ContextsOK, ConnOK, Late, Made, TypeOK
<1>2. ASSUME NEW h \in Host, Evict(h) PROVE ContextsOK' /\ ConnOK'
  BY <1>2 DEF Evict, ContextsOK, ConnOK, Late, Made, TypeOK
<1>3. CASE Tick
  <2>1. clock' = clock + 1 /\ UNCHANGED <<made, contexts, conn>>
    BY <1>3 DEF Tick
  <2>2. \A n \in Conn : conn[n] # Idle => conn[n].now \in Nat
    BY DEF TypeOK, Generating, Stapling
  <2> QED
    BY <2>1, <2>2 DEF ContextsOK, ConnOK, Late, Made
<1>4. CASE UNCHANGED <<clock, made, contexts, conn>>
  BY <1>4 DEF ContextsOK, ConnOK, Late, Made
<1> QED
  BY <1>1, <1>2, <1>3, <1>4, HandleLate, GenerateLate DEF Next, vars, Staple, Disconnect, TimerFires

\* Two days after it was made a certificate is used no more, however the two caches meet
\* (local-ca.ts:654-657, secure-context-cache.ts:38-41).
THEOREM NoOlder == Spec => []TwoDaysOld
<1>1. Init => CachedOK /\ ContextsOK /\ ConnOK
  BY DEF Init, CachedOK, ContextsOK, ConnOK
<1>2. ConnOK => TwoDaysOld
  BY DEF ConnOK, TwoDaysOld, Late
<1> QED
  BY <1>1, <1>2, CachedNext, LateNext, TypeCorrect, PTL DEF Spec
=============================================================================
