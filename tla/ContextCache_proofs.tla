-------------------------- MODULE ContextCache_proofs --------------------------
(***************************************************************************)
(* Proofs about ContextCache, for any hosts, any number of handshakes, a   *)
(* cache of any size and any times.                                        *)
(***************************************************************************)
EXTENDS ContextCache, TLAPS

\* The key under which AcmeCA looks, of the key of a context.
AcmeKeyOf(k) == [k EXCEPT !.domain = IF Dns /\ ~k.override THEN Wildcard ELSE @]

\* What holds of a certificate that was asked for at some time under some key: its name, and that
\* AcmeCA had no certificate then if it is a stand-in.
CertOK(k, cert, from) ==
    /\ cert.name = k.domain \/ (~k.override /\ cert.name = Wildcard)
    /\ cert.temp /\ ~k.expired =>
          (acme[AcmeKeyOf(k)] # NoCert => from <= since[AcmeKeyOf(k)])

\* What holds of a context in the cache.
EntryOK(e) ==
    /\ e.from <= clock
    /\ CertOK(e.key, e.cert, e.from)
    /\ e.exp <= e.from + OneDay
    /\ e.cert.exp <= e.from \/ e.exp <= e.cert.exp
    /\ e.cert.temp => e.exp <= e.from + MaxDelay + TempTtl

\* What holds of a handshake that awaits its certificate.
ConnOK(c) ==
    c.st = "creating" =>
        /\ c.now <= clock /\ clock <= c.now + MaxDelay
        /\ CertOK(CacheKey(c.host), c.cert, c.now)
        /\ c.cert.temp => c.cert.exp <= c.now \/ c.now + OneDay <= c.cert.exp

EntriesOK == \A i \in 1..Len(cache) : EntryOK(cache[i])
ConnsOK == \A n \in Conn : ConnOK(conn[n])
Distinct(seq) == \A i, j \in 1..Len(seq) : seq[i].key = seq[j].key => i = j

\* What holds of what was served.
ServedOK == HitsInDate /\ OneDayOld /\ RealCertPickedUp /\ WrongHostOnly

\* The inductive invariant.
Inv == TypeOK /\ Bounded /\ EntriesOK /\ ConnsOK /\ ServedOK

-----------------------------------------------------------------------------
\* The key of a host has the parts of the host, and says where AcmeCA looks
\* (cert-definitions.ts, server.ts).
LEMMA KeyOfHost ==
    ASSUME NEW h \in Host
    PROVE  /\ CacheKey(h) \in Key /\ AcmeKey(h) \in AcmeKeys
           /\ CacheKey(h).domain = CertDomain(h)
           /\ CacheKey(h).override = h.override
           /\ CacheKey(h).expired = h.expired
           /\ AcmeKeyOf(CacheKey(h)) = AcmeKey(h)
           /\ AcmeKey(h).expired = h.expired
BY DEF CacheKey, Key, AcmeKey, AcmeKeys, AcmeKeyOf, EffectiveDomain

\* Map.delete keeps the other entries, each once (secure-context-cache.ts:25, 32).
LEMMA WithoutKey ==
    ASSUME NEW S, cache \in Seq(S), Distinct(cache), NEW k
    PROVE  /\ Without(k) \in Seq(S) /\ Distinct(Without(k))
           /\ Len(Without(k)) <= Len(cache)
           /\ Places(k) # {} => Len(Without(k)) = Len(cache) - 1
           /\ \A i \in 1..Len(Without(k)) :
                 /\ Without(k)[i].key # k
                 /\ \E j \in 1..Len(cache) : Without(k)[i] = cache[j]
<1>1. CASE Places(k) = {}
  BY <1>1 DEF Without, Places
<1>2. CASE Places(k) # {}
  <2> DEFINE place == CHOOSE i \in Places(k) : TRUE
             at(i) == IF i < place THEN i ELSE i + 1
             n == Len(cache) - 1
             w == [i \in 1..n |-> cache[at(i)]]
  <2>1. place \in 1..Len(cache) /\ cache[place].key = k
    BY <1>2 DEF Places
  <2>2. Without(k) = w
    BY <1>2 DEF Without
  <2> HIDE DEF place
  <2>3. n \in Nat /\ \A i \in 1..n : at(i) \in 1..Len(cache) /\ at(i) # place
    BY <2>1
  <2>4. \A i, j \in 1..n : at(i) = at(j) => i = j
    BY <2>1
  <2> HIDE DEF at
  <2>5. w \in Seq(S) /\ Len(w) = n
    BY <2>3
  <2>6. \A i \in 1..n : w[i] = cache[at(i)] /\ w[i].key # k
    BY <2>1, <2>3 DEF Distinct
  <2>7. Distinct(w)
    BY <2>3, <2>4, <2>5, <2>6 DEF Distinct
  <2> HIDE DEF w
  <2> QED
    BY <1>2, <2>2, <2>3, <2>5, <2>6, <2>7
<1> QED
  BY <1>1, <1>2

\* What is set is there, and nothing else is new (Map.set).
LEMMA SetOne ==
    ASSUME NEW seq \in Seq(Entry), Distinct(seq), NEW e \in Entry
    PROVE  /\ SetEntry(seq, e) \in Seq(Entry) /\ Distinct(SetEntry(seq, e))
           /\ Len(SetEntry(seq, e)) <= Len(seq) + 1
           /\ \A i \in 1..Len(SetEntry(seq, e)) :
                 SetEntry(seq, e)[i] = e \/ \E j \in 1..Len(seq) : SetEntry(seq, e)[i] = seq[j]
<1>1. CASE \E i \in 1..Len(seq) : seq[i].key = e.key
  <2> DEFINE w == [i \in 1..Len(seq) |-> IF seq[i].key = e.key THEN e ELSE seq[i]]
  <2>1. SetEntry(seq, e) = w
    BY <1>1 DEF SetEntry
  <2>2. w \in Seq(Entry) /\ Len(w) = Len(seq)
    OBVIOUS
  <2>3. \A i \in 1..Len(seq) : w[i].key = seq[i].key
    OBVIOUS
  <2>4. Distinct(w)
    BY <2>2, <2>3 DEF Distinct
  <2> QED
    BY <2>1, <2>2, <2>4
<1>2. CASE ~ \E i \in 1..Len(seq) : seq[i].key = e.key
  <2> DEFINE w == Append(seq, e)
  <2>1. SetEntry(seq, e) = w
    BY <1>2 DEF SetEntry
  <2>2. w \in Seq(Entry) /\ Len(w) = Len(seq) + 1 /\ w[Len(seq) + 1] = e
    OBVIOUS
  <2>3. \A i \in 1..Len(seq) : w[i] = seq[i]
    OBVIOUS
  <2>4. Distinct(w)
    BY <1>2, <2>2, <2>3 DEF Distinct
  <2> QED
    BY <2>1, <2>2, <2>3, <2>4
<1> QED
  BY <1>1, <1>2

\* Eviction leaves room for one entry (secure-context-cache.ts:44-47).
LEMMA RoomForOne ==
    ASSUME NEW S, cache \in Seq(S), Distinct(cache), Bounded
    PROVE  /\ Evicted \in Seq(S) /\ Distinct(Evicted)
           /\ Len(Evicted) < MaxSize
           /\ \A i \in 1..Len(Evicted) : \E j \in 1..Len(cache) : Evicted[i] = cache[j]
<1>0. MaxSize \in Nat \ {0}
  BY SizeAndTimes
<1>1. CASE Len(cache) < MaxSize
  BY <1>0, <1>1 DEF Evicted
<1>2. CASE Len(cache) >= MaxSize
  <2>1. Len(cache) = MaxSize
    BY <1>0, <1>2 DEF Bounded
  <2> DEFINE w == SubSeq(cache, 2, MaxSize)
  <2>2. Evicted = w
    BY <1>0, <2>1 DEF Evicted
  <2>3. w \in Seq(S) /\ Len(w) = MaxSize - 1
    BY <1>0, <2>1
  <2>4. \A i \in 1..(MaxSize - 1) : w[i] = cache[i + 1]
    BY <1>0, <2>1
  <2>5. Distinct(w)
    BY <1>0, <2>1, <2>3, <2>4 DEF Distinct
  <2> HIDE DEF w
  <2> QED
    BY <1>0, <2>1, <2>2, <2>3, <2>4, <2>5
<1> QED
  BY <1>0, <1>1, <1>2

-----------------------------------------------------------------------------
\* The times are numbers.
LEMMA Times ==
    /\ MaxDelay \in Nat /\ MaxSize \in Nat \ {0}
    /\ OneDay \in Nat \ {0} /\ TempTtl \in Nat \ {0}
    /\ Life \in Nat \ {0} /\ LocalLife \in Nat \ {0}
BY SizeAndTimes

\* A certificate asked for under the key of a host covers the host, unless that overrides its name
\* (cert-definitions.ts:23-40).
LEMMA NameCovers ==
    ASSUME NEW h \in Host, NEW cert, NEW from, CertOK(CacheKey(h), cert, from)
    PROVE  Covers(cert, h) <=> ~h.override
BY KeyOfHost, Borrowed, HostsHaveOptions DEF CertOK, Covers, CertDomain

\* A stand-in asked for under the key of a host is no younger than what AcmeCA holds for it
\* (server.ts:187-201).
LEMMA StandInFirst ==
    ASSUME TypeOK, NEW h \in Host, NEW cert, NEW from, CertOK(CacheKey(h), cert, from),
           cert.temp, AcmeHas(h), ~h.expired
    PROVE  from <= since[AcmeKey(h)] /\ since[AcmeKey(h)] \in Nat
<1>1. acme[AcmeKey(h)] # NoCert
  BY DEF AcmeHas
<1>2. AcmeKeyOf(CacheKey(h)) = AcmeKey(h) /\ ~CacheKey(h).expired /\ AcmeKey(h) \in AcmeKeys
  BY KeyOfHost
<1> QED
  BY <1>1, <1>2 DEF CertOK, TypeOK

\* A context made or found for a host may be presented to it (tls-handler.ts:133-172).
LEMMA Presented ==
    ASSUME TypeOK, NEW h \in Host, NEW cert \in Cert, NEW from \in Nat, NEW hit \in BOOLEAN,
           CertOK(CacheKey(h), cert, from), from <= clock,
           cert.temp => clock < from + MaxDelay + TempTtl,
           hit => /\ clock < from + OneDay
                  /\ cert.exp > clock \/ cert.exp <= from,
           served' = [host |-> h, cert |-> cert, from |-> from, hit |-> hit],
           UNCHANGED <<clock, acme, since>>
    PROVE  ServedOK' /\ served' \in Served
<1>1. served' \in Served /\ served'.host = h /\ served'.cert = cert /\ served'.from = from
      /\ served'.hit = hit
  BY DEF Served
<1>2. HitsInDate' /\ OneDayOld'
  BY <1>1 DEF HitsInDate, OneDayOld
<1>3. RealCertPickedUp'
  <2>1. AcmeHas(h)' = AcmeHas(h)
    BY DEF AcmeHas
  <2>2. cert.temp /\ AcmeHas(h) /\ ~h.expired =>
           clock < since[AcmeKey(h)] + MaxDelay + TempTtl
    <3> SUFFICES ASSUME cert.temp, AcmeHas(h), ~h.expired
                 PROVE  clock < since[AcmeKey(h)] + MaxDelay + TempTtl
      OBVIOUS
    <3>1. from <= since[AcmeKey(h)] /\ since[AcmeKey(h)] \in Nat
      BY StandInFirst
    <3> QED
      BY <3>1, Times DEF TypeOK
  <2> QED
    BY <1>1, <2>1, <2>2 DEF RealCertPickedUp
<1>4. WrongHostOnly'
  BY <1>1, NameCovers DEF WrongHostOnly, Covers
<1> QED
  BY <1>1, <1>2, <1>3, <1>4 DEF ServedOK

\* What is served to nobody is in order.
LEMMA NobodyServed ==
    ASSUME served' = Nobody
    PROVE  ServedOK' /\ served' \in {Nobody} \cup Served
BY DEF ServedOK, HitsInDate, OneDayOld, RealCertPickedUp, WrongHostOnly

\* The cache is a map: no key is there twice.
LEMMA Shape ==
    ASSUME TypeOK
    PROVE  cache \in Seq(Entry) /\ Distinct(cache)
BY DEF TypeOK, Distinct

\* While AcmeCA and the clock stand still, a context stays in order.
LEMMA OrderKept ==
    ASSUME UNCHANGED <<clock, acme, since>>
    PROVE  /\ \A e : EntryOK(e)' <=> EntryOK(e)
           /\ \A c : ConnOK(c)' <=> ConnOK(c)
BY DEF EntryOK, ConnOK, CertOK

\* The certificate that is made or found for a host is in order from that moment
\* (server.ts:177-202).
LEMMA Generated ==
    ASSUME TypeOK, NEW h \in Host
    PROVE  LET cert == GenerateCertificate(h) IN
           /\ cert \in Cert
           /\ CertOK(CacheKey(h), cert, clock)
           /\ cert.temp => cert.exp <= clock \/ clock + OneDay <= cert.exp
<1>0. /\ h.override \in BOOLEAN /\ h.expired \in BOOLEAN /\ clock \in Nat
      /\ acme[AcmeKey(h)] \in Nat \cup {NoCert} /\ OneDay <= LocalLife
  BY HostsHaveOptions, LocalCertsLast, KeyOfHost DEF TypeOK
<1> DEFINE k == CacheKey(h)
<1>1. /\ k.domain = CertDomain(h) /\ k.override = h.override /\ k.expired = h.expired
      /\ AcmeKeyOf(k) = AcmeKey(h)
  BY KeyOfHost
<1>2. EffectiveDomain(h) = CertDomain(h) \/ (EffectiveDomain(h) = Wildcard /\ ~h.override)
  BY DEF EffectiveDomain
<1>3. ASSUME NEW temp \in BOOLEAN, temp => ~AcmeHas(h)
      PROVE  /\ LocalCert(h, temp) \in Cert
             /\ CertOK(k, LocalCert(h, temp), clock)
             /\ LET cert == LocalCert(h, temp) IN
                cert.temp => cert.exp <= clock \/ clock + OneDay <= cert.exp
  <2> DEFINE cert == LocalCert(h, temp)
  <2>1. /\ cert.name = CertDomain(h) /\ cert.temp = temp /\ cert.by = "local"
        /\ cert.exp = IF h.expired THEN 0 ELSE clock + LocalLife
    BY DEF LocalCert
  <2>2. cert \in Cert
    BY <1>0, Times DEF LocalCert, Cert
  <2>3. CertOK(k, cert, clock)
    <3>1. temp /\ ~h.expired => acme[AcmeKey(h)] = NoCert
      BY <1>0, <1>3 DEF AcmeHas
    <3> QED
      BY <1>1, <2>1, <3>1 DEF CertOK
  <2>4. cert.exp <= clock \/ clock + OneDay <= cert.exp
    BY <1>0, <2>1, Times
  <2> QED
    BY <2>2, <2>3, <2>4
<1>4. CASE ~h.local /\ AcmeHas(h)
  <2> DEFINE cert == [by |-> "acme", name |-> EffectiveDomain(h), exp |-> acme[AcmeKey(h)],
                      temp |-> FALSE]
  <2>1. GenerateCertificate(h) = cert
    BY <1>4 DEF GenerateCertificate
  <2>2. cert \in Cert
    BY <1>0, <1>2, <1>4 DEF Cert, AcmeHas
  <2>3. CertOK(k, cert, clock)
    BY <1>1, <1>2 DEF CertOK
  <2> QED
    BY <2>1, <2>2, <2>3
<1>5. CASE h.local
  BY <1>3, <1>5 DEF GenerateCertificate
<1>6. CASE ~h.local /\ ~AcmeHas(h)
  BY <1>3, <1>6 DEF GenerateCertificate
<1> QED
  BY <1>4, <1>5, <1>6

-----------------------------------------------------------------------------
\* A hit keeps the invariant (secure-context-cache.ts:21-26).
LEMMA ServeCachedStep ==
    ASSUME Inv, NEW h \in Host, NEW i \in 1..Len(cache), ServeCached(h, cache[i]),
           UNCHANGED <<clock, acme, since>>
    PROVE  Inv'
<1> DEFINE k == CacheKey(h)
           e == cache[i]
           w == Without(k)
<1>0. TypeOK /\ Bounded /\ EntriesOK /\ ConnsOK /\ cache \in Seq(Entry) /\ Distinct(cache)
  BY Shape DEF Inv
<1>1. e \in Entry /\ e.key = k /\ e.exp > clock /\ EntryOK(e) /\ e.cert \in Cert /\ e.from \in Nat
      /\ e.exp \in Nat
  <2>1. e \in Entry
    BY <1>0
  <2>2. EntryOK(e)
    BY <1>0 DEF EntriesOK
  <2>3. e.key = k /\ e.exp > clock
    BY DEF ServeCached
  <2> HIDE DEF e
  <2> QED
    BY <2>1, <2>2, <2>3 DEF Entry
<1>2. /\ w \in Seq(Entry) /\ Distinct(w) /\ Len(w) = Len(cache) - 1
      /\ \A j \in 1..Len(w) : w[j].key # k /\ \E l \in 1..Len(cache) : w[j] = cache[l]
  <2>1. Places(k) # {}
    BY <1>1 DEF Places
  <2> QED
    BY <1>0, <2>1, WithoutKey
<1> HIDE DEF e, w, k
<1>3. cache' = Append(w, e)
  BY DEF ServeCached, e, w, k
<1>4. cache' \in Seq(Entry) /\ Distinct(cache')
      /\ \A j \in 1..Len(cache') : EntryOK(cache'[j])
  <2>1. /\ Append(w, e) \in Seq(Entry) /\ Len(Append(w, e)) = Len(w) + 1
        /\ Append(w, e)[Len(w) + 1] = e /\ \A j \in 1..Len(w) : Append(w, e)[j] = w[j]
    BY <1>1, <1>2
  <2>2. Distinct(Append(w, e))
    BY <1>1, <1>2, <2>1 DEF Distinct
  <2>3. \A j \in 1..Len(Append(w, e)) : EntryOK(Append(w, e)[j])
    <3>1. \A j \in 1..Len(w) : EntryOK(w[j])
      BY <1>0, <1>2, Zenon DEF EntriesOK
    <3>2. \A j \in 1..Len(Append(w, e)) : j \in 1..Len(w) \/ j = Len(w) + 1
      BY <1>2, <2>1
    <3>3. EntryOK(e)
      BY <1>1
    <3> QED
      BY <2>1, <3>1, <3>2, <3>3, Zenon
  <2> QED
    BY <1>3, <2>1, <2>2, <2>3
<1>5. Len(cache') <= MaxSize
  BY <1>0, <1>1, <1>2, <1>3, Times DEF Bounded
<1>6. ServedOK' /\ served' \in Served
  <2>1. served' = [host |-> h, cert |-> e.cert, from |-> e.from, hit |-> TRUE]
    BY DEF ServeCached, e
  <2>2. CertOK(CacheKey(h), e.cert, e.from) /\ e.from <= clock
    BY <1>1 DEF EntryOK, k
  <2>3. /\ e.cert.temp => clock < e.from + MaxDelay + TempTtl
        /\ clock < e.from + OneDay
        /\ e.cert.exp > clock \/ e.cert.exp <= e.from
    <3>1. clock \in Nat /\ e.cert.exp \in Nat
      BY <1>0, <1>1 DEF TypeOK, Cert
    <3>2. /\ e.exp <= e.from + OneDay
          /\ e.cert.exp <= e.from \/ e.exp <= e.cert.exp
          /\ e.cert.temp => e.exp <= e.from + MaxDelay + TempTtl
      BY <1>1 DEF EntryOK
    <3>3. clock < e.from + OneDay
      BY <1>1, <3>1, <3>2, Times
    <3>4. e.cert.exp > clock \/ e.cert.exp <= e.from
      BY <1>1, <3>1, <3>2
    <3>5. ASSUME e.cert.temp PROVE clock < e.from + MaxDelay + TempTtl
      BY <1>1, <3>1, <3>2, <3>5, Times
    <3> QED
      BY <3>3, <3>4, <3>5
  <2> QED
    BY <1>0, <1>1, <2>1, <2>2, <2>3, Presented
<1>7. conn' = conn
  BY DEF ServeCached
<1>8. TypeOK'
  BY <1>0, <1>4, <1>6, <1>7 DEF TypeOK, Distinct
<1> QED
  BY <1>0, <1>4, <1>5, <1>6, <1>7, <1>8, OrderKept DEF Inv, EntriesOK, ConnsOK, Bounded

\* A miss keeps the invariant: the stale entry goes, and the certificate is chosen before the
\* handshake awaits anything (secure-context-cache.ts:29-36, tls-handler.ts:133-134).
LEMMA CallFactoryStep ==
    ASSUME Inv, NEW n \in Conn, NEW h \in Host, CallFactory(n, h),
           UNCHANGED <<clock, acme, since>>
    PROVE  Inv'
<1> DEFINE k == CacheKey(h)
           cert == GenerateCertificate(h)
           c == [st |-> "creating", host |-> h, now |-> clock, cert |-> cert]
<1>0. TypeOK /\ Bounded /\ EntriesOK /\ ConnsOK /\ cache \in Seq(Entry) /\ Distinct(cache)
  BY Shape DEF Inv
<1>1. /\ cache' \in Seq(Entry) /\ Distinct(cache') /\ Len(cache') <= Len(cache)
      /\ \A j \in 1..Len(cache') : \E l \in 1..Len(cache) : cache'[j] = cache[l]
  <2>1. cache' = Without(k)
    BY DEF CallFactory
  <2> QED
    BY <1>0, <2>1, WithoutKey
<1>2. Len(cache') <= MaxSize
  BY <1>0, <1>1, Times DEF Bounded
<1>3. \A j \in 1..Len(cache') : EntryOK(cache'[j])
  BY <1>0, <1>1 DEF EntriesOK
<1>4. cert \in Cert /\ CertOK(k, cert, clock) /\ clock \in Nat
      /\ (cert.temp => cert.exp <= clock \/ clock + OneDay <= cert.exp)
  BY <1>0, Generated DEF TypeOK
<1> HIDE DEF cert, k
<1>5. c \in Creating /\ ConnOK(c)
  <2>1. c \in Creating
    BY <1>4 DEF Creating
  <2>2. clock <= clock + MaxDelay
    BY <1>4, Times
  <2> QED
    BY <1>4, <2>1, <2>2 DEF ConnOK, k
<1>6. conn' = [conn EXCEPT ![n] = c] /\ served' = Nobody
  BY DEF CallFactory, cert
<1>7. ServedOK' /\ served' \in {Nobody} \cup Served
  BY <1>6, NobodyServed
<1> HIDE DEF c
<1>8. conn' \in [Conn -> {Idle} \cup Creating] /\ \A m \in Conn : ConnOK(conn'[m])
  BY <1>0, <1>5, <1>6 DEF TypeOK, ConnsOK
<1>9. TypeOK'
  BY <1>0, <1>1, <1>7, <1>8 DEF TypeOK, Distinct
<1> QED
  BY <1>0, <1>2, <1>3, <1>7, <1>8, <1>9, OrderKept DEF Inv, EntriesOK, ConnsOK, Bounded

\* The expiry of a context that has been awaited: neither past its day nor past its certificate,
\* and soon if it is a stand-in (secure-context-cache.ts:38-41, tls-handler.ts:151-155).
LEMMA ExpiryCapped ==
    ASSUME NEW cert \in Cert, NEW now \in Nat, clock \in Nat,
           now <= clock, clock <= now + MaxDelay,
           cert.temp => cert.exp <= now \/ now + OneDay <= cert.exp
    PROVE  LET exp == MaxExpiry(ContextExpiry(cert), now) IN
           /\ exp \in Nat
           /\ exp <= now + OneDay
           /\ cert.exp <= now \/ exp <= cert.exp
           /\ cert.temp => exp <= now + MaxDelay + TempTtl
<1>1. cert.exp \in Nat /\ cert.temp \in BOOLEAN
  BY DEF Cert
<1>2. CASE cert.temp
  <2>1. ContextExpiry(cert) = clock + TempTtl
    BY <1>2 DEF ContextExpiry
  <2> DEFINE exp == IF clock + TempTtl > now + OneDay THEN now + OneDay ELSE clock + TempTtl
  <2>2. MaxExpiry(ContextExpiry(cert), now) = exp
    BY <2>1, Times DEF MaxExpiry
  <2>3. exp \in Nat /\ exp <= now + OneDay /\ exp <= now + MaxDelay + TempTtl
    BY Times
  <2>4. cert.exp <= now \/ exp <= cert.exp
    <3>1. cert.exp <= now \/ now + OneDay <= cert.exp
      BY <1>2
    <3> QED
      BY <1>1, <2>3, <3>1, Times
  <2> QED
    BY <2>2, <2>3, <2>4
<1>3. CASE ~cert.temp
  <2>1. ContextExpiry(cert) = cert.exp
    BY <1>3 DEF ContextExpiry
  <2> DEFINE exp == IF cert.exp <= now \/ cert.exp > now + OneDay THEN now + OneDay ELSE cert.exp
  <2>2. MaxExpiry(ContextExpiry(cert), now) = exp
    BY <2>1 DEF MaxExpiry
  <2>3. exp \in Nat /\ exp <= now + OneDay /\ (cert.exp <= now \/ exp <= cert.exp)
    BY <1>1, Times
  <2> QED
    BY <1>3, <2>2, <2>3
<1> QED
  BY <1>1, <1>2, <1>3

\* Caching a context keeps the invariant, whatever other handshakes cached while its certificate
\* was awaited (secure-context-cache.ts:36-51).
LEMMA SetContextStep ==
    ASSUME Inv, NEW n \in Conn, SetContext(n)
    PROVE  Inv'
<1> DEFINE c == conn[n]
           e == [key |-> CacheKey(c.host), cert |-> c.cert, from |-> c.now,
                 exp |-> MaxExpiry(ContextExpiry(c.cert), c.now)]
<1>0. TypeOK /\ Bounded /\ EntriesOK /\ ConnsOK /\ cache \in Seq(Entry) /\ Distinct(cache)
      /\ clock \in Nat
  BY Shape DEF Inv, TypeOK
<1>1. c.st = "creating" /\ UNCHANGED <<clock, acme, since>>
  BY DEF SetContext
<1>2. c.host \in Host /\ c.now \in Nat /\ c.cert \in Cert
  <2>1. c \in {Idle} \cup Creating
    BY <1>0 DEF TypeOK
  <2> HIDE DEF c
  <2> QED
    BY <1>1, <2>1 DEF Idle, Creating
<1>3. /\ c.now <= clock /\ clock <= c.now + MaxDelay
      /\ CertOK(CacheKey(c.host), c.cert, c.now)
      /\ c.cert.temp => c.cert.exp <= c.now \/ c.now + OneDay <= c.cert.exp
  BY <1>0, <1>1 DEF ConnsOK, ConnOK
<1> HIDE DEF c
<1>4. e \in Entry /\ EntryOK(e)
  <2>1. /\ e.exp \in Nat
        /\ e.exp <= c.now + OneDay
        /\ c.cert.exp <= c.now \/ e.exp <= c.cert.exp
        /\ c.cert.temp => e.exp <= c.now + MaxDelay + TempTtl
    BY <1>0, <1>2, <1>3, ExpiryCapped
  <2>2. CacheKey(c.host) \in Key
    BY <1>2, KeyOfHost
  <2> QED
    BY <1>2, <1>3, <2>1, <2>2 DEF Entry, EntryOK
<1>5. cache' = SetEntry(Evicted, e) /\ conn' = [conn EXCEPT ![n] = Idle]
      /\ served' = [host |-> c.host, cert |-> c.cert, from |-> c.now, hit |-> FALSE]
  BY DEF SetContext, c
<1> HIDE DEF e
<1>6. /\ Evicted \in Seq(Entry) /\ Distinct(Evicted) /\ Len(Evicted) < MaxSize
      /\ \A i \in 1..Len(Evicted) : \E j \in 1..Len(cache) : Evicted[i] = cache[j]
  BY <1>0, RoomForOne
<1>7. /\ cache' \in Seq(Entry) /\ Distinct(cache') /\ Len(cache') <= Len(Evicted) + 1
      /\ \A i \in 1..Len(cache') :
            cache'[i] = e \/ \E j \in 1..Len(Evicted) : cache'[i] = Evicted[j]
  <2> DEFINE w == SetEntry(Evicted, e)
  <2>1. /\ w \in Seq(Entry) /\ Distinct(w) /\ Len(w) <= Len(Evicted) + 1
        /\ \A i \in 1..Len(w) : w[i] = e \/ \E j \in 1..Len(Evicted) : w[i] = Evicted[j]
    BY <1>4, <1>6, SetOne
  <2> HIDE DEF w
  <2> QED
    BY <1>5, <2>1 DEF w
<1>8. Len(cache') <= MaxSize
  BY <1>6, <1>7, Times
<1>9. \A i \in 1..Len(cache') : EntryOK(cache'[i])
  <2>1. \A i \in 1..Len(Evicted) : EntryOK(Evicted[i])
    BY <1>0, <1>6 DEF EntriesOK
  <2> QED
    BY <1>4, <1>7, <2>1
<1>10. ServedOK' /\ served' \in Served
  <2>1. clock < c.now + MaxDelay + TempTtl
    BY <1>0, <1>2, <1>3, Times
  <2> QED
    BY <1>0, <1>1, <1>2, <1>3, <1>5, <2>1, Presented
<1>11. conn' \in [Conn -> {Idle} \cup Creating] /\ \A m \in Conn : ConnOK(conn'[m])
  BY <1>0, <1>5 DEF TypeOK, ConnsOK, ConnOK, Idle
<1>12. TypeOK'
  BY <1>0, <1>1, <1>7, <1>10, <1>11 DEF TypeOK, Distinct
<1> QED
  BY <1>0, <1>1, <1>8, <1>9, <1>10, <1>11, <1>12, OrderKept DEF Inv, EntriesOK, ConnsOK, Bounded

\* Giving a socket up keeps the invariant (tls-handler.ts:210-213).
LEMMA DestroySocketStep ==
    ASSUME Inv, NEW n \in Conn, DestroySocket(n)
    PROVE  Inv'
<1>0. TypeOK /\ Bounded /\ EntriesOK /\ ConnsOK
  BY DEF Inv
<1>1. UNCHANGED <<clock, acme, since, cache>> /\ conn' = [conn EXCEPT ![n] = Idle]
      /\ served' = Nobody
  BY DEF DestroySocket
<1>2. conn' \in [Conn -> {Idle} \cup Creating] /\ \A m \in Conn : ConnOK(conn'[m])
  BY <1>0, <1>1 DEF TypeOK, ConnsOK, ConnOK, Idle
<1>3. ServedOK' /\ served' \in {Nobody} \cup Served
  BY <1>1, NobodyServed
<1>4. TypeOK'
  BY <1>0, <1>1, <1>2, <1>3 DEF TypeOK
<1> QED
  BY <1>0, <1>1, <1>2, <1>3, <1>4, OrderKept DEF Inv, EntriesOK, ConnsOK, Bounded

\* What a certificate was asked for under is a key of AcmeCA.
LEMMA Looked ==
    ASSUME NEW k \in Key
    PROVE  AcmeKeyOf(k) \in AcmeKeys /\ AcmeKeyOf(k).expired = k.expired
BY KeyOfHost DEF Key

\* A certificate that AcmeCA gets or clears keeps the invariant: it holds one from now on, or none,
\* and every stand-in there is was asked for before (acme.ts:122-124, 188-191).
LEMMA AcmeStep ==
    ASSUME Inv, NEW k \in AcmeKeys, AcmeObtains(k) \/ AcmeClears(k)
    PROVE  Inv'
<1>0. TypeOK /\ Bounded /\ EntriesOK /\ ConnsOK /\ cache \in Seq(Entry) /\ clock \in Nat
  BY DEF Inv, TypeOK
<1>1. UNCHANGED <<clock, cache, conn>> /\ served' = Nobody
  BY DEF AcmeObtains, AcmeClears
<1>2. acme' \in [AcmeKeys -> Nat \cup {NoCert}] /\ since' \in [AcmeKeys -> Nat]
  <2>1. clock + Life \in Nat
    BY <1>0, Times
  <2> QED
    BY <1>0, <2>1 DEF TypeOK, AcmeObtains, AcmeClears
<1>3. ASSUME NEW key \in Key, NEW cert, NEW from \in Nat, from <= clock, CertOK(key, cert, from)
      PROVE  CertOK(key, cert, from)'
  <2> DEFINE a == AcmeKeyOf(key)
  <2>1. a \in AcmeKeys
    BY Looked
  <2>2. acme'[a] # NoCert => \/ acme[a] # NoCert /\ since'[a] = since[a]
                            \/ since'[a] = clock
    <3> HIDE DEF a
    <3>1. CASE AcmeObtains(k)
      BY <1>0, <2>1, <3>1 DEF AcmeObtains, TypeOK
    <3>2. CASE AcmeClears(k)
      BY <1>0, <2>1, <3>2 DEF AcmeClears, TypeOK
    <3> QED
      BY <3>1, <3>2
  <2> QED
    BY <1>3, <2>2 DEF CertOK
<1>4. EntriesOK'
  <2>1. ASSUME NEW e \in Entry, EntryOK(e) PROVE EntryOK(e)'
    BY <1>1, <1>3, <2>1 DEF EntryOK, Entry
  <2> QED
    BY <1>0, <1>1, <2>1 DEF EntriesOK
<1>5. ConnsOK'
  <2>1. ASSUME NEW c \in Creating, ConnOK(c) PROVE ConnOK(c)'
    <3>1. c.st = "creating" /\ c.host \in Host /\ c.now \in Nat /\ CacheKey(c.host) \in Key
      BY KeyOfHost DEF Creating
    <3>2. CertOK(CacheKey(c.host), c.cert, c.now) /\ c.now <= clock
      BY <2>1, <3>1 DEF ConnOK
    <3>3. CertOK(CacheKey(c.host), c.cert, c.now)'
      BY <1>3, <3>1, <3>2
    <3> QED
      BY <1>1, <2>1, <3>3 DEF ConnOK
  <2>2. ConnOK(Idle)'
    BY DEF ConnOK, Idle
  <2> QED
    BY <1>0, <1>1, <2>1, <2>2 DEF ConnsOK, TypeOK
<1>6. ServedOK' /\ served' \in {Nobody} \cup Served
  BY <1>1, NobodyServed
<1>7. TypeOK'
  BY <1>0, <1>1, <1>2, <1>6 DEF TypeOK
<1> QED
  BY <1>0, <1>1, <1>4, <1>5, <1>6, <1>7 DEF Inv, Bounded

\* Time keeps the invariant: no handshake is awaited for longer than MaxDelay.
LEMMA TickStep ==
    ASSUME Inv, Tick
    PROVE  Inv'
<1>0. TypeOK /\ Bounded /\ EntriesOK /\ ConnsOK /\ cache \in Seq(Entry) /\ clock \in Nat
  BY DEF Inv, TypeOK
<1>1. /\ UNCHANGED <<acme, since, cache, conn>> /\ served' = Nobody /\ clock' = clock + 1
      /\ \A n \in Conn : conn[n].st = "creating" => clock < conn[n].now + MaxDelay
  BY DEF Tick
<1>2. \A key, cert, from : CertOK(key, cert, from)' <=> CertOK(key, cert, from)
  BY <1>1 DEF CertOK
<1>3. EntriesOK'
  <2>1. ASSUME NEW e \in Entry, EntryOK(e) PROVE EntryOK(e)'
    <3>1. e.from <= clock'
      BY <1>0, <1>1, <2>1 DEF EntryOK, Entry
    <3> QED
      BY <1>2, <2>1, <3>1 DEF EntryOK
  <2> QED
    BY <1>0, <1>1, <2>1 DEF EntriesOK
<1>4. ConnsOK'
  <2>1. ASSUME NEW c \in Creating, ConnOK(c), clock < c.now + MaxDelay
        PROVE  ConnOK(c)'
    <3>1. c.st = "creating" /\ c.now \in Nat
      BY DEF Creating
    <3>2. c.now <= clock' /\ clock' <= c.now + MaxDelay
      BY <1>0, <1>1, <2>1, <3>1, Times DEF ConnOK
    <3> QED
      BY <1>2, <2>1, <3>1, <3>2 DEF ConnOK
  <2>2. \A n \in Conn : conn[n] = Idle \/ (conn[n] \in Creating /\ conn[n].st = "creating")
    BY <1>0 DEF TypeOK, Creating
  <2>3. ConnOK(Idle)'
    BY DEF ConnOK, Idle
  <2> QED
    BY <1>0, <1>1, <2>1, <2>2, <2>3 DEF ConnsOK
<1>5. ServedOK' /\ served' \in {Nobody} \cup Served
  BY <1>1, NobodyServed
<1>6. TypeOK'
  BY <1>0, <1>1, <1>5 DEF TypeOK
<1> QED
  BY <1>0, <1>1, <1>3, <1>4, <1>5, <1>6 DEF Inv, Bounded

-----------------------------------------------------------------------------
\* The server starts with an empty cache and no connections (secure-context-cache.ts:11-14).
LEMMA InitInv == Init => Inv
<1> SUFFICES ASSUME Init PROVE Inv
  OBVIOUS
<1>1. cache = <<>> /\ clock = 0 /\ served = Nobody /\ conn = [n \in Conn |-> Idle]
  BY DEF Init
<1>2. TypeOK
  BY <1>1, Times DEF Init, TypeOK
<1>3. Bounded /\ EntriesOK
  BY <1>1, Times DEF Bounded, EntriesOK
<1>4. ConnsOK
  BY <1>1 DEF ConnsOK, ConnOK, Idle
<1>5. ServedOK
  BY <1>1 DEF ServedOK, HitsInDate, OneDayOld, RealCertPickedUp, WrongHostOnly
<1> QED
  BY <1>2, <1>3, <1>4, <1>5 DEF Inv

\* Every step keeps the invariant.
LEMMA NextInv == Inv /\ [Next]_vars => Inv'
<1> SUFFICES ASSUME Inv, [Next]_vars PROVE Inv'
  OBVIOUS
<1>1. ASSUME NEW n \in Conn, NEW h \in Host, HandleConnection(n, h)
      PROVE  Inv'
  BY <1>1, ServeCachedStep, CallFactoryStep DEF HandleConnection
<1>2. ASSUME NEW n \in Conn, SetContext(n) \/ DestroySocket(n)
      PROVE  Inv'
  BY <1>2, SetContextStep, DestroySocketStep
<1>3. ASSUME NEW k \in AcmeKeys, AcmeObtains(k) \/ AcmeClears(k)
      PROVE  Inv'
  BY <1>3, AcmeStep
<1>4. CASE Tick
  BY <1>4, TickStep
<1>5. CASE UNCHANGED vars
  <2>1. UNCHANGED <<clock, acme, since, cache, conn, served>>
    BY <1>5 DEF vars
  <2>2. TypeOK' /\ Bounded'
    BY <2>1 DEF Inv, TypeOK, Bounded
  <2>3. EntriesOK' /\ ConnsOK'
    BY <2>1, OrderKept DEF Inv, EntriesOK, ConnsOK
  <2>4. ServedOK'
    BY <2>1 DEF Inv, ServedOK, HitsInDate, OneDayOld, RealCertPickedUp, AcmeHas, WrongHostOnly,
                Covers
  <2> QED
    BY <2>2, <2>3, <2>4 DEF Inv
<1> QED
  BY <1>1, <1>2, <1>3, <1>4, <1>5 DEF Next

\* The inductive invariant of the cache and of the handshakes that wait for a context.
THEOREM Invariant == Spec => []Inv
BY InitInv, NextInv, PTL DEF Spec

\* The state keeps its shape, and no key is in the cache twice
\* (secure-context-cache.ts:12).
THEOREM TypeCorrect == Spec => []TypeOK
<1>1. Inv => TypeOK
  BY DEF Inv
<1> QED
  BY <1>1, Invariant, PTL

\* However many handshakes create contexts at once, the cache never exceeds its size
\* (secure-context-cache.ts:44-49).
THEOREM InBounds == Spec => []Bounded
<1>1. Inv => Bounded
  BY DEF Inv
<1> QED
  BY <1>1, Invariant, PTL

\* No cached context is presented past the expiry of its certificate, unless that had passed when
\* it was made (secure-context-cache.ts:21, 36-41).
THEOREM InDate == Spec => []HitsInDate
<1>1. Inv => HitsInDate
  BY DEF Inv, ServedOK
<1> QED
  BY <1>1, Invariant, PTL

\* No context is presented for more than a day (secure-context-cache.ts:38-41).
THEOREM ADayAtMost == Spec => []OneDayOld
<1>1. Inv => OneDayOld
  BY DEF Inv, ServedOK
<1> QED
  BY <1>1, Invariant, PTL

\* Once AcmeCA has held a certificate for a host for MaxDelay + TempTtl, nobody is served the
\* stand-in for it (tls-handler.ts:151-152).
THEOREM StandInsGo == Spec => []RealCertPickedUp
<1>1. Inv => RealCertPickedUp
  BY DEF Inv, ServedOK
<1> QED
  BY <1>1, Invariant, PTL

\* Every host is served a certificate that covers it, and wrong-host one that does not
\* (cert-definitions.ts:23-40, cert-cache-key.spec.ts:16-18).
THEOREM RightName == Spec => []WrongHostOnly
<1>1. Inv => WrongHostOnly
  BY DEF Inv, ServedOK
<1> QED
  BY <1>1, Invariant, PTL
=============================================================================
