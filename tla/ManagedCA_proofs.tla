--------------------------- MODULE ManagedCA_proofs ---------------------------
(***************************************************************************)
(* Proofs about ManagedCA, for any number of servers, either kind of CA,   *)
(* any records stored at first, and any life times and bounds: the servers *)
(* agree on a CA until it is replaced, and the fleet implements FleetCA.   *)
(***************************************************************************)
EXTENDS ManagedCA, TLAPS

\* A CA that a server generates can be parsed, and is one (local-ca.ts:358).
LEMMA GeneratedIsCa ==
    ASSUME TypeOK
    PROVE  LET new == [id |-> used.made + 1, exp |-> clock + Life]
           IN  new \in Ca /\ Parses(new) /\ Adoptable(new)
BY Times, NoRecords DEF TypeOK, Ca, Parses, Adoptable, IsCaUsable

\* Whatever the store holds when the servers first boot, the state has its shape.
THEOREM InitType == Init => TypeOK
<1> SUFFICES ASSUME Init PROVE TypeOK
  OBVIOUS
<1>1. store \in Ca \cup {NoCa}
  BY StoredIsCa DEF Init
<1>2. ca \in [Server -> {c \in Ca : Parses(c)} \cup {NoCa}]
  BY DEF Init
<1>3. \A s \in Server : st[s] = "down" /\ ca[s] = NoCa
  BY DEF Init
<1>4. used \in [made: Nat, outages: Nat, crashes: Nat]
  BY DEF Init
<1>5. answer \in [Server -> Ca \cup {NoCa}] /\ seen \in [Server -> SUBSET (Ca \cup {NoCa})]
  BY DEF Init
<1>6. \A s \in Server : seen[s] = {}
  BY DEF Init
<1> QED
  BY <1>1, <1>2, <1>3, <1>4, <1>5, <1>6 DEF Init, TypeOK, Loading, HasOwn

\* A record that is written is seen by the loads under way, and by nobody else
\* (local-ca.ts:364, 371).
LEMMA WriteType ==
    ASSUME TypeOK, NEW c \in Ca, Write(c)
    PROVE  /\ store' = c
           /\ seen' \in [Server -> SUBSET (Ca \cup {NoCa})]
           /\ \A s \in Server : /\ seen'[s] # {} <=> seen[s] # {}
                                /\ seen[s] \subseteq seen'[s] /\ seen'[s] \subseteq seen[s] \cup {c}
                                /\ seen[s] # {} => c \in seen'[s]
<1>1. \A s \in Server : seen'[s] = IF seen[s] = {} THEN {} ELSE seen[s] \cup {c}
  BY DEF Write
<1>2. \A s \in Server : seen[s] \subseteq Ca \cup {NoCa}
  BY DEF TypeOK
<1>3. DOMAIN seen' = Server /\ seen' = [s \in Server |-> seen'[s]]
  BY DEF Write
<1>4. \A s \in Server : seen'[s] \in SUBSET (Ca \cup {NoCa})
  BY <1>1, <1>2
<1> QED
  BY <1>1, <1>3, <1>4 DEF Write

\* Every step of a load keeps the shape (local-ca.ts:346-385).
LEMMA LoadType ==
    ASSUME TypeOK, NEW s \in Server, Load(s), UNCHANGED kind
    PROVE  TypeOK'
<1> USE NoRecords
<1>1. CASE Read(s) \/ Check(s)
  BY <1>1 DEF Read, Check, Move, Answer, TypeOK, Loading, HasOwn
<1>2. CASE Decide(s)
  <2>1. CASE Adoptable(answer[s])
    BY <1>2, <2>1 DEF Decide, Move, Hold, Answer, End, Adoptable, TypeOK, Loading, HasOwn
  <2>2. CASE ~Adoptable(answer[s])
    BY <1>2, <2>2, GeneratedIsCa
       DEF Decide, Move, Hold, Answer, End, TypeOK, Loading, HasOwn
  <2> QED
    BY <2>1, <2>2
<1>3. CASE Replace(s)
  <2>1. ca[s] \in Ca
    BY <1>3 DEF Replace, TypeOK, HasOwn
  <2> QED
    BY <1>3, <2>1, WriteType DEF Replace, Move, TypeOK, Loading, HasOwn
<1>4. CASE Claim(s)
  <2>1. ca[s] \in Ca
    BY <1>4 DEF Claim, TypeOK, HasOwn
  <2>2. CASE store = NoCa
    BY <1>4, <2>1, <2>2, WriteType DEF Claim, Move, TypeOK, Loading, HasOwn
  <2>3. CASE store # NoCa
    BY <1>4, <2>3 DEF Claim, Move, TypeOK, Loading, HasOwn
  <2> QED
    BY <2>2, <2>3
<1>5. CASE Return(s)
  BY <1>5 DEF Return, Move, End, TypeOK, Loading, HasOwn
<1>6. CASE Conclude(s)
  BY <1>6 DEF Conclude, Move, Hold, Answer, End, Adoptable, TypeOK, Loading, HasOwn
<1>7. CASE LoadFails(s)
  BY <1>7 DEF LoadFails, Move, Hold, Answer, End, TypeOK, Loading, HasOwn
<1> QED
  BY <1>1, <1>2, <1>3, <1>4, <1>5, <1>6, <1>7 DEF Load

\* So does everything that concerns client certificates (local-ca.ts:446-470).
LEMMA ClientType ==
    ASSUME TypeOK, NEW s \in Server, UNCHANGED kind,
           LoadForHandshake(s) \/ AskClientCert(s) \/ Reply(s)
    PROVE  TypeOK'
<1> USE NoRecords
<1>1. CASE LoadForHandshake(s)
  BY <1>1 DEF LoadForHandshake, Move, Begin, TypeOK, Loading, HasOwn
<1>2. CASE AskClientCert(s)
  <2>1. CASE UNCHANGED <<st, seen>>
    BY <1>2, <2>1 DEF AskClientCert, TypeOK
  <2>2. CASE st[s] = "idle" /\ Move(s, "reading") /\ Begin(s)
    BY <1>2, <2>2 DEF AskClientCert, Move, Begin, TypeOK, Loading, HasOwn
  <2> QED
    BY <1>2, <2>1, <2>2 DEF AskClientCert
<1>3. CASE CreateClientCert(s)
  <2>1. ca[s] \in Ca
    BY <1>3 DEF CreateClientCert, TypeOK
  <2>2. [issuer |-> ca[s].id, exp |-> Clamp(clock + ClientLife, ca[s].exp)] \in ClientCert
    BY <2>1, Times DEF TypeOK, Ca, ClientCert, Clamp
  <2> QED
    BY <1>3, <2>2 DEF CreateClientCert, TypeOK
<1>4. CASE RefuseClientCert(s)
  BY <1>4 DEF RefuseClientCert, TypeOK
<1> QED
  BY <1>1, <1>2, <1>3, <1>4 DEF Reply

\* Every step keeps the shape of the state.
THEOREM NextType == TypeOK /\ [Next]_vars => TypeOK'
<1> SUFFICES ASSUME TypeOK, [Next]_vars PROVE TypeOK'
  OBVIOUS
<1>0. UNCHANGED kind
  BY DEF Next, vars
<1> USE <1>0
<1>1. ASSUME NEW s \in Server, Boot(s) PROVE TypeOK'
  BY <1>1 DEF Boot, Move, Begin, TypeOK, Loading, HasOwn
<1>2. ASSUME NEW s \in Server, Crash(s) PROVE TypeOK'
  BY <1>2 DEF Crash, Move, Hold, Answer, End, TypeOK, Loading, HasOwn
<1>3. CASE StoreGoesDown
  BY <1>3 DEF StoreGoesDown, TypeOK
<1>4. CASE StoreComesBack
  BY <1>4 DEF StoreComesBack, TypeOK
<1>5. CASE Tick
  BY <1>5 DEF Tick, TypeOK
<1>6. CASE UNCHANGED vars
  BY <1>6 DEF vars, TypeOK
<1> QED
  BY <1>1, <1>2, <1>3, <1>4, <1>5, <1>6, LoadType, ClientType DEF Next, Step, Rest

\* The state keeps its shape.
THEOREM TypeCorrect == Spec => []TypeOK
BY InitType, NextType, PTL DEF Spec

-----------------------------------------------------------------------------
(***************************************************************************)
(* What is known of the CAs about: each was stored at first or has been    *)
(* generated, and a generated one has a number of its own.                 *)
(***************************************************************************)
Known == (Stored \ {NoCa}) \cup [id: 1..used.made, exp: Life..(Life + clock)]

AllKnown ==
    /\ clock <= MaxTime /\ used.made \in 0..MaxMade
    /\ store \in Known \cup {NoCa}
    /\ \A s \in Server : ca[s] \in Known \cup {NoCa} /\ answer[s] \in Known \cup {NoCa}

\* A CA generated now is known afterwards, and was not before (local-ca.ts:358).
LEMMA GeneratedIsNew ==
    ASSUME TypeOK, AllKnown, used.made < MaxMade
    PROVE  LET new == [id |-> used.made + 1, exp |-> clock + Life]
           IN  new \in [id: 1..(used.made + 1), exp: Life..(Life + clock)]
BY StoredIsCa, Times, NoRecords DEF TypeOK, AllKnown, Known, Ca

\* What was known stays known while more is generated and time passes.
LEMMA KnownGrows ==
    ASSUME TypeOK, clock' \in Nat, clock <= clock', used'.made \in Nat, used.made <= used'.made
    PROVE  Known \subseteq Known'
BY Times DEF TypeOK, Known

\* Servers and store hold known CAs, in every reachable state.
THEOREM NextKnown == TypeOK /\ AllKnown /\ [Next]_vars => AllKnown'
<1> SUFFICES ASSUME TypeOK, AllKnown, [Next]_vars PROVE AllKnown'
  OBVIOUS
<1>0. TypeOK'
  BY NextType
<1>1. ASSUME UNCHANGED <<clock, used>>, store' \in Known \cup {NoCa},
             \A s \in Server : /\ ca'[s] \in Known \cup {NoCa}
                                /\ answer'[s] \in Known \cup {NoCa}
      PROVE  AllKnown'
  BY <1>1 DEF AllKnown, Known
<1>2. ASSUME clock' \in clock..MaxTime, used'.made = used.made, UNCHANGED <<store, answer, ca>>
      PROVE  AllKnown'
  <2>1. Known \subseteq Known'
    BY <1>0, <1>2, KnownGrows DEF TypeOK
  <2> QED
    BY <1>0, <1>2, <2>1, Times DEF AllKnown, TypeOK
<1>3. ASSUME NEW s \in Server, Decide(s) PROVE AllKnown'
  <2>0. \A t \in Server : answer'[t] \in {answer[t], NoCa}
    BY <1>3 DEF Decide, Answer, TypeOK
  <2>1. CASE Adoptable(answer[s])
    BY <1>1, <1>3, <2>0, <2>1 DEF Decide, Hold, AllKnown, TypeOK
  <2>2. CASE ~Adoptable(answer[s])
    <3>1. used'.made = used.made + 1 /\ clock' = clock /\ store' = store /\ used.made < MaxMade
      BY <1>3, <2>2 DEF Decide, TypeOK
    <3>2. Known \subseteq Known'
      BY <1>0, <3>1, KnownGrows DEF TypeOK
    <3>3. ca'[s] \in Known'
      BY <1>3, <2>2, <3>1, GeneratedIsNew DEF Decide, Hold, Known, TypeOK
    <3>4. \A t \in Server : t # s => ca'[t] = ca[t]
      BY <1>3, <2>2 DEF Decide, Hold, TypeOK
    <3> QED
      BY <1>0, <2>0, <3>1, <3>2, <3>3, <3>4, StoredIsCa DEF AllKnown, TypeOK
  <2> QED
    BY <2>1, <2>2
<1>4. ASSUME NEW s \in Server, Replace(s) \/ Claim(s) \/ Return(s) PROVE AllKnown'
  BY <1>1, <1>4 DEF Replace, Claim, Return, Write, AllKnown
<1>5. ASSUME NEW s \in Server, Read(s) \/ Check(s) \/ Conclude(s) PROVE AllKnown'
  BY <1>1, <1>5 DEF Read, Check, Conclude, Hold, Answer, AllKnown, TypeOK
<1>6. ASSUME NEW s \in Server, LoadFails(s) PROVE AllKnown'
  BY <1>1, <1>6 DEF LoadFails, Hold, Answer, AllKnown, TypeOK
<1>7. ASSUME NEW s \in Server, Boot(s) \/ LoadForHandshake(s) \/ AskClientCert(s) \/ Reply(s)
      PROVE  AllKnown'
  BY <1>1, <1>7 DEF Boot, LoadForHandshake, AskClientCert, Reply, CreateClientCert,
                    RefuseClientCert, AllKnown
<1>8. ASSUME NEW s \in Server, Crash(s) PROVE AllKnown'
  <2>1. used'.made = used.made /\ UNCHANGED <<clock, store>>
    BY <1>8 DEF Crash, TypeOK
  <2>2. \A t \in Server : ca'[t] \in {ca[t], NoCa} /\ answer'[t] \in {answer[t], NoCa}
    BY <1>8 DEF Crash, Hold, Answer, TypeOK
  <2>3. Known' = Known
    BY <2>1 DEF Known
  <2> QED
    BY <2>1, <2>2, <2>3 DEF AllKnown
<1>9. CASE StoreGoesDown \/ StoreComesBack
  BY <1>2, <1>9, Times DEF StoreGoesDown, StoreComesBack, AllKnown, TypeOK
<1>10. CASE Tick
  BY <1>2, <1>10, Times DEF Tick, TypeOK
<1>11. CASE UNCHANGED vars
  BY <1>1, <1>11 DEF vars, AllKnown
<1> QED
  BY <1>3, <1>4, <1>5, <1>6, <1>7, <1>8, <1>9, <1>10, <1>11 DEF Next, Step, Load, Rest

\* The records the store may hold at first are known.
LEMMA InitKnown == Init => AllKnown
BY StoredIsCa, Times DEF Init, AllKnown, Known

-----------------------------------------------------------------------------
(***************************************************************************)
(* What a load that is under way can rely on, as weeks do not pass during  *)
(* a load: the CA it generated is usable, a place that it found empty is   *)
(* taken by a usable CA if by any, what it was answered or has stored has  *)
(* been in the store since it began, and so has the present record.        *)
(***************************************************************************)
UsableIfAny == store = NoCa \/ Adoptable(store)

LoadOK(s) ==
    /\ st[s] \in Loading => store \in seen[s]
    /\ st[s] \in {"read", "checked"} => answer[s] \in seen[s]
    /\ st[s] = "stored" => ca[s] \in seen[s]
    /\ st[s] \in HasOwn => Adoptable(ca[s])
    /\ st[s] = "read" => IF answer[s] = NoCa THEN UsableIfAny ELSE store # NoCa
    /\ st[s] = "replacing" => store # NoCa
    /\ st[s] = "claiming" => UsableIfAny
    /\ st[s] = "checking" => Adoptable(store)
    /\ st[s] = "checked" => Adoptable(answer[s])

\* Until a record is replaced, the place has been empty or had the present one.
SeenOne == ~replaced => \A s \in Server : seen[s] \subseteq {NoCa, store}

LoadsOK == SeenOne /\ \A s \in Server : LoadOK(s)

\* A load is not disturbed by steps that leave it, the clock and the store alone.
LEMMA SameLoad ==
    ASSUME NEW s \in Server, LoadOK(s), UNCHANGED <<clock, store>>,
           st'[s] = st[s], ca'[s] = ca[s], answer'[s] = answer[s], seen'[s] = seen[s]
    PROVE  LoadOK(s)'
BY DEF LoadOK, UsableIfAny, Adoptable, IsCaUsable

\* A server that does not load relies on nothing, and one that begins only on what the
\* store holds.
LEMMA NoLoad ==
    ASSUME NEW s \in Server, \/ st'[s] \notin Loading
                             \/ st'[s] = "reading" /\ store' \in seen'[s]
    PROVE  LoadOK(s)'
BY DEF LoadOK, Loading, HasOwn

\* A usable CA that another server stores, in an empty place or as a replacement, is as
\* good for every load (local-ca.ts:364, 371).
LEMMA OtherStores ==
    ASSUME TypeOK, NEW s \in Server, NEW c \in Ca, LoadOK(s), Adoptable(c), Write(c),
           UNCHANGED clock,
           st'[s] = st[s], ca'[s] = ca[s], answer'[s] = answer[s]
    PROVE  LoadOK(s)'
<1>1. st[s] \in Loading => c \in seen'[s]
  BY WriteType DEF TypeOK
<1>2. store' = c /\ seen[s] \subseteq seen'[s]
  BY WriteType
<1>3. Adoptable(c)' /\ c # NoCa
  BY DEF Adoptable, IsCaUsable
<1> QED
  BY <1>1, <1>2, <1>3 DEF LoadOK, UsableIfAny, Adoptable, IsCaUsable

\* What a server stores is in the store, for itself too.
LEMMA SelfStores ==
    ASSUME TypeOK, NEW s \in Server, LoadOK(s), st[s] \in {"replacing", "claiming"},
           Write(ca[s]), UNCHANGED <<clock, ca>>, Move(s, "stored")
    PROVE  LoadOK(s)'
<1>1. ca[s] \in Ca
  BY DEF TypeOK, HasOwn
<1>2. ca[s] \in seen'[s] /\ store' = ca[s]
  BY <1>1, WriteType DEF TypeOK, Loading
<1>3. st'[s] = "stored" /\ ca'[s] = ca[s] /\ Adoptable(ca[s])
  BY DEF Move, TypeOK, LoadOK, HasOwn
<1> QED
  BY <1>2, <1>3 DEF LoadOK, Adoptable, IsCaUsable

\* The records that have been seen stay the present one's equals until one is replaced.
LEMMA NextSeen == TypeOK /\ LoadsOK /\ [Next]_vars => SeenOne'
<1> SUFFICES ASSUME TypeOK, LoadsOK, [Next]_vars PROVE SeenOne'
  OBVIOUS
<1>1. ASSUME UNCHANGED <<store, replaced>>,
             \A s \in Server : seen'[s] \in {seen[s], {}, {store}}
      PROVE  SeenOne'
  BY <1>1 DEF SeenOne, LoadsOK
<1>2. ASSUME NEW s \in Server, Read(s) \/ Decide(s) \/ Return(s) \/ Check(s) \/ Conclude(s)
      PROVE  SeenOne'
  BY <1>1, <1>2 DEF Read, Decide, Return, Check, Conclude, End, TypeOK
<1>3. ASSUME NEW s \in Server, Replace(s) PROVE SeenOne'
  BY <1>3 DEF Replace, SeenOne
<1>4. ASSUME NEW s \in Server, Claim(s) PROVE SeenOne'
  <2>1. CASE store # NoCa
    BY <1>1, <1>4, <2>1 DEF Claim
  <2>2. CASE store = NoCa
    <3>1. ca[s] \in Ca /\ Write(ca[s]) /\ replaced' = replaced
      BY <1>4, <2>2 DEF Claim, TypeOK, HasOwn
    <3>2. store' = ca[s] /\ \A t \in Server : seen'[t] \subseteq seen[t] \cup {ca[s]}
      BY <3>1, WriteType
    <3> QED
      BY <2>2, <3>1, <3>2 DEF SeenOne, LoadsOK
  <2> QED
    BY <2>1, <2>2
<1>5. ASSUME NEW s \in Server, LoadFails(s) \/ Crash(s) PROVE SeenOne'
  BY <1>1, <1>5 DEF LoadFails, Crash, End, TypeOK
<1>6. ASSUME NEW s \in Server, Boot(s) \/ LoadForHandshake(s) \/ AskClientCert(s)
      PROVE  SeenOne'
  BY <1>1, <1>6 DEF Boot, LoadForHandshake, AskClientCert, Begin, TypeOK
<1>7. ASSUME NEW s \in Server, Reply(s) PROVE SeenOne'
  BY <1>1, <1>7 DEF Reply, CreateClientCert, RefuseClientCert
<1>8. CASE StoreGoesDown \/ StoreComesBack \/ Tick \/ UNCHANGED vars
  BY <1>1, <1>8 DEF StoreGoesDown, StoreComesBack, Tick, vars
<1> QED
  BY <1>2, <1>3, <1>4, <1>5, <1>6, <1>7, <1>8 DEF Next, Step, Load, Rest

\* A step of a load keeps what that load relies on (local-ca.ts:353-384).
LEMMA OwnLoad ==
    ASSUME TypeOK, NEW s \in Server, LoadOK(s), Load(s)
    PROVE  LoadOK(s)'
<1>1. CASE Read(s) \/ Check(s)
  <2>1. /\ answer'[s] = store /\ ca'[s] = ca[s] /\ seen'[s] = seen[s]
        /\ UNCHANGED <<clock, store>>
    BY <1>1 DEF Read, Check, Answer, TypeOK
  <2>2. \/ st[s] = "reading" /\ st'[s] = "read"
        \/ st[s] = "checking" /\ st'[s] = "checked"
    BY <1>1 DEF Read, Check, Move, TypeOK
  <2>3. store \in seen[s]
    BY <2>2 DEF LoadOK, Loading
  <2>4. CASE st'[s] = "read"
    BY <2>1, <2>3, <2>4 DEF LoadOK, Loading, HasOwn, UsableIfAny
  <2>5. CASE st[s] = "checking" /\ st'[s] = "checked"
    BY <2>1, <2>3, <2>5 DEF LoadOK, Loading, HasOwn, Adoptable, IsCaUsable
  <2> QED
    BY <2>2, <2>4, <2>5
<1>2. CASE Decide(s)
  <2>1. CASE Adoptable(answer[s])
    BY <1>2, <2>1, NoLoad DEF Decide, Move, TypeOK, Loading
  <2>2. CASE ~Adoptable(answer[s])
    <3>1. ca'[s] = [id |-> used.made + 1, exp |-> clock + Life]
      BY <1>2, <2>2 DEF Decide, Hold, TypeOK
    <3>2. Adoptable(ca'[s])
      BY <3>1, GeneratedIsCa
    <3>3. /\ st'[s] = IF answer[s] = NoCa THEN "claiming" ELSE "replacing"
          /\ st[s] = "read" /\ UNCHANGED <<clock, store, seen>>
      BY <1>2, <2>2 DEF Decide, Move, TypeOK
    <3>4. store \in seen[s] /\ IF answer[s] = NoCa THEN UsableIfAny ELSE store # NoCa
      BY <3>3 DEF LoadOK, Loading
    <3> QED
      BY <3>2, <3>3, <3>4 DEF LoadOK, Loading, HasOwn, UsableIfAny, Adoptable, IsCaUsable
  <2> QED
    BY <2>1, <2>2
<1>3. CASE Replace(s)
  BY <1>3, SelfStores DEF Replace
<1>4. CASE Claim(s)
  <2>1. CASE store = NoCa
    BY <1>4, <2>1, SelfStores DEF Claim
  <2>2. CASE store # NoCa
    <3>1. /\ st[s] = "claiming" /\ st'[s] = "checking"
          /\ UNCHANGED <<clock, store, ca, answer, seen>>
      BY <1>4, <2>2 DEF Claim, Move, TypeOK
    <3>2. Adoptable(store) /\ store \in seen[s] /\ Adoptable(ca[s])
      BY <2>2, <3>1 DEF LoadOK, Loading, HasOwn, UsableIfAny
    <3> QED
      BY <3>1, <3>2 DEF LoadOK, Adoptable, IsCaUsable
  <2> QED
    BY <2>1, <2>2
<1>5. CASE Return(s) \/ Conclude(s) \/ LoadFails(s)
  BY <1>5, NoLoad DEF Return, Conclude, LoadFails, Move, TypeOK, Loading
<1> QED
  BY <1>1, <1>2, <1>3, <1>4, <1>5 DEF Load

\* A step of another's load does too.
LEMMA OthersLoad ==
    ASSUME TypeOK, NEW s \in Server, NEW t \in Server, s # t, LoadOK(s), LoadOK(t), Load(t)
    PROVE  LoadOK(s)'
<1>1. /\ st'[s] = st[s] /\ UNCHANGED clock
  BY DEF Load, Read, Decide, Replace, Claim, Return, Check, Conclude, LoadFails, Move, TypeOK
<1>2. ca'[s] = ca[s]
  BY DEF Load, Read, Decide, Replace, Claim, Return, Check, Conclude, LoadFails, Hold, TypeOK
<1>3. answer'[s] = answer[s]
  BY DEF Load, Read, Decide, Replace, Claim, Return, Check, Conclude, LoadFails, Answer, TypeOK
<1>4. CASE Replace(t) \/ (Claim(t) /\ store = NoCa)
  <2>1. ca[t] \in Ca /\ Adoptable(ca[t]) /\ Write(ca[t])
    BY <1>4 DEF Replace, Claim, TypeOK, LoadOK, HasOwn
  <2> QED
    BY <1>1, <1>2, <1>3, <2>1, OtherStores
<1>5. CASE Claim(t) /\ store # NoCa
  BY <1>1, <1>2, <1>3, <1>5, SameLoad DEF Claim
<1>6. CASE Read(t) \/ Decide(t) \/ Return(t) \/ Check(t) \/ Conclude(t) \/ LoadFails(t)
  <2>1. seen'[s] = seen[s]
    BY <1>6 DEF Read, Decide, Return, Check, Conclude, LoadFails, End, TypeOK
  <2>2. UNCHANGED store
    BY <1>6 DEF Read, Decide, Return, Check, Conclude, LoadFails
  <2> QED
    BY <1>1, <1>2, <1>3, <2>1, <2>2, SameLoad
<1>7. \/ Replace(t) \/ Claim(t)
      \/ Read(t) \/ Decide(t) \/ Return(t) \/ Check(t) \/ Conclude(t) \/ LoadFails(t)
  BY DEF Load
<1> QED
  BY <1>4, <1>5, <1>6, <1>7

\* Loads can rely on this in every reachable state.
THEOREM NextLoads == TypeOK /\ LoadsOK /\ [Next]_vars => LoadsOK'
<1> SUFFICES ASSUME TypeOK, LoadsOK, [Next]_vars PROVE LoadsOK'
  OBVIOUS
<1>0. \A s \in Server : LoadOK(s)
  BY DEF LoadsOK
<1>a. SeenOne'
  BY NextSeen
<1> SUFFICES ASSUME NEW s \in Server PROVE LoadOK(s)'
  BY <1>a DEF LoadsOK
<1>1. ASSUME NEW t \in Server, Load(t) PROVE LoadOK(s)'
  BY <1>0, <1>1, OwnLoad, OthersLoad
<1>2. ASSUME NEW t \in Server, Boot(t) \/ LoadForHandshake(t) \/ AskClientCert(t)
      PROVE  LoadOK(s)'
  <2>1. UNCHANGED <<clock, store, ca, answer>>
    BY <1>2 DEF Boot, LoadForHandshake, AskClientCert
  <2>2. \/ st'[s] = st[s] /\ seen'[s] = seen[s]
        \/ st'[s] = "reading" /\ seen'[s] = {store}
        \/ st'[s] = "idle"
    BY <1>2 DEF Boot, LoadForHandshake, AskClientCert, Move, Begin, TypeOK
  <2> QED
    BY <1>0, <2>1, <2>2, SameLoad, NoLoad DEF Loading
<1>3. ASSUME NEW t \in Server, Reply(t) PROVE LoadOK(s)'
  BY <1>0, <1>3, SameLoad DEF Reply, CreateClientCert, RefuseClientCert
<1>4. ASSUME NEW t \in Server, Crash(t) PROVE LoadOK(s)'
  <2>1. CASE s = t
    BY <1>4, <2>1, NoLoad DEF Crash, Move, TypeOK, Loading
  <2>2. CASE s # t
    BY <1>0, <1>4, <2>2, SameLoad DEF Crash, Move, Hold, Answer, End, TypeOK
  <2> QED
    BY <2>1, <2>2
<1>5. CASE Tick
  BY <1>5, NoLoad DEF Tick, Loading
<1>6. CASE StoreGoesDown \/ StoreComesBack \/ UNCHANGED vars
  BY <1>0, <1>6, SameLoad DEF StoreGoesDown, StoreComesBack, vars
<1> QED
  BY <1>1, <1>2, <1>3, <1>4, <1>5, <1>6 DEF Next, Step, Rest

\* No server loads before it has booted.
LEMMA InitLoads == Init => LoadsOK
BY DEF Init, LoadsOK, LoadOK, SeenOne, Loading, HasOwn

Inv == TypeOK /\ AllKnown /\ LoadsOK

\* What every proof below starts from holds in every reachable state.
THEOREM Invariant == Spec => []Inv
<1>1. Init => Inv
  BY InitType, InitKnown, InitLoads DEF Inv
<1>2. Inv /\ [Next]_vars => Inv'
  BY NextType, NextKnown, NextLoads DEF Inv
<1> QED
  BY <1>1, <1>2, PTL DEF Spec

-----------------------------------------------------------------------------
(***************************************************************************)
(* Going into service, and the refinement of FleetCA.                      *)
(***************************************************************************)
\* The ways into service: with a CA that the store answered, or by storing one's own
\* (local-ca.ts:355-356, 362-366, 371-374, 376-382).
LEMMA GoesIntoService ==
    ASSUME Inv, [Next]_vars, NEW s \in Server, ~Ready(s), Ready(s)'
    PROVE  /\ Adoptable(ca'[s]) /\ ca'[s] \in seen[s]
           /\ \A t \in Server : t # s => ca'[t] = ca[t] /\ st'[t] = st[t]
           /\ seen' = [seen EXCEPT ![s] = {}]
           /\ UNCHANGED <<store, replaced>>
<1> USE DEF Inv
<1>0. LoadOK(s)
  BY DEF LoadsOK
<1>1. CASE Decide(s)
  BY <1>0, <1>1 DEF Decide, Move, Hold, End, Ready, TypeOK, LoadOK
<1>2. CASE Return(s)
  BY <1>0, <1>2 DEF Return, Move, End, LoadOK, TypeOK, HasOwn
<1>3. CASE Conclude(s)
  BY <1>0, <1>3 DEF Conclude, Move, Hold, End, LoadOK, TypeOK
<1>4. ASSUME NEW t \in Server, Load(t) \/ Boot(t) \/ Crash(t) \/ LoadForHandshake(t)
      PROVE  Load(s)
  <2>1. CASE s = t
    BY <1>4, <2>1 DEF Boot, Crash, LoadForHandshake, Move, Ready, TypeOK
  <2>2. CASE s # t
    BY <1>4, <2>2 DEF Load, Read, Decide, Replace, Claim, Return, Check, Conclude, LoadFails,
                      Boot, Crash, LoadForHandshake, Move, Ready, TypeOK
  <2> QED
    BY <2>1, <2>2
<1>5. CASE Read(s) \/ Replace(s) \/ Claim(s) \/ Check(s) \/ LoadFails(s)
  BY <1>5 DEF Read, Replace, Claim, Check, LoadFails, Move, Ready, TypeOK
<1>6. ASSUME NEW t \in Server, AskClientCert(t) \/ Reply(t) PROVE FALSE
  BY <1>6 DEF AskClientCert, Move, Reply, CreateClientCert, RefuseClientCert, Ready, TypeOK
<1>7. CASE StoreGoesDown \/ StoreComesBack \/ Tick \/ UNCHANGED vars
  BY <1>7 DEF StoreGoesDown, StoreComesBack, Tick, vars, Ready
<1>8. CASE Load(s)
  BY <1>1, <1>2, <1>3, <1>5, <1>8 DEF Load
<1> QED
  BY <1>4, <1>6, <1>7, <1>8 DEF Next, Step, Rest

\* A server goes into service with a CA the store has held since its load began, further
\* from expiry than the margin (local-ca.ts:353-384).
THEOREM ServesStored == Spec => ServesPersistedUsableCa
<1>1. Inv /\ [Next]_vars
        => [\A s \in Server : ~Ready(s) /\ Ready(s)' =>
                ca'[s] \in seen[s] /\ ca'[s].exp > clock + Margin]_vars
  BY GoesIntoService DEF Adoptable, IsCaUsable
<1> QED
  BY <1>1, Invariant, PTL DEF Spec, ServesPersistedUsableCa

\* A server in service keeps its CA until it stops (local-ca.ts:326).
LEMMA StaysInService ==
    ASSUME Inv, [Next]_vars, NEW s \in Server, Ready(s)
    PROVE  \/ Ready(s)' /\ ca'[s] = ca[s]
           \/ /\ ~Ready(s)' /\ UNCHANGED <<store, replaced>>
              /\ \A t \in Server : t # s => ca'[t] = ca[t] /\ st'[t] = st[t]
              /\ seen' = [seen EXCEPT ![s] = {}]
<1> USE DEF Inv
<1>1. ASSUME NEW t \in Server, Load(t)
      PROVE  Ready(s)' /\ ca'[s] = ca[s]
  <2>1. s # t
    BY <1>1 DEF Load, Read, Decide, Replace, Claim, Return, Check, Conclude, LoadFails,
                Loading, Ready
  <2>2. st'[s] = st[s]
    BY <1>1, <2>1 DEF Load, Read, Decide, Replace, Claim, Return, Check, Conclude, LoadFails,
                      Move, TypeOK
  <2>3. ca'[s] = ca[s]
    BY <1>1, <2>1 DEF Load, Read, Decide, Replace, Claim, Return, Check, Conclude, LoadFails,
                      Hold, TypeOK
  <2> QED
    BY <2>2, <2>3 DEF Ready
<1>2. ASSUME NEW t \in Server,
             Boot(t) \/ LoadForHandshake(t) \/ AskClientCert(t) \/ Reply(t)
      PROVE  Ready(s)' /\ ca'[s] = ca[s]
  BY <1>2 DEF Boot, LoadForHandshake, AskClientCert, Move, Reply, CreateClientCert,
              RefuseClientCert, Ready, TypeOK
<1>3. ASSUME NEW t \in Server, Crash(t)
      PROVE  \/ Ready(s)' /\ ca'[s] = ca[s]
             \/ /\ ~Ready(s)' /\ UNCHANGED <<store, replaced>>
                /\ \A u \in Server : u # s => ca'[u] = ca[u] /\ st'[u] = st[u]
                /\ seen' = [seen EXCEPT ![s] = {}]
  <2>1. CASE s = t
    BY <1>3, <2>1 DEF Crash, Move, Hold, End, Ready, TypeOK
  <2>2. CASE s # t
    BY <1>3, <2>2 DEF Crash, Move, Hold, Ready, TypeOK
  <2> QED
    BY <2>1, <2>2
<1>4. CASE StoreGoesDown \/ StoreComesBack \/ Tick \/ UNCHANGED vars
  BY <1>4 DEF StoreGoesDown, StoreComesBack, Tick, vars, Ready
<1> QED
  BY <1>1, <1>2, <1>3, <1>4 DEF Next, Step, Rest

\* The stored record changes only by a CA that is stored in an empty place or as a
\* replacement (local-ca.ts:364, 371); the store never loses it.
LEMMA StoreChanges ==
    ASSUME Inv, [Next]_vars, store' # store \/ replaced' # replaced
    PROVE  /\ store' # NoCa /\ Write(store')
           /\ \/ store = NoCa /\ replaced' = replaced
              \/ store # NoCa /\ replaced'
<1> USE DEF Inv
<1>1. ASSUME NEW s \in Server, Load(s)
      PROVE  /\ store' # NoCa /\ Write(store')
             /\ \/ store = NoCa /\ replaced' = replaced
                \/ store # NoCa /\ replaced'
  <2>1. LoadOK(s)
    BY DEF LoadsOK
  <2>2. CASE Replace(s) \/ Claim(s)
    BY <2>1, <2>2, <1>1 DEF Replace, Claim, Write, LoadOK, TypeOK, HasOwn
  <2>3. CASE ~(Replace(s) \/ Claim(s))
    BY <1>1, <2>3 DEF Load, Read, Decide, Return, Check, Conclude, LoadFails
  <2> QED
    BY <2>2, <2>3
<1>2. ASSUME NEW s \in Server,
             \/ Boot(s) \/ Crash(s) \/ LoadForHandshake(s) \/ AskClientCert(s) \/ Reply(s)
      PROVE  FALSE
  BY <1>2 DEF Boot, Crash, LoadForHandshake, AskClientCert, Reply, CreateClientCert,
              RefuseClientCert
<1>3. CASE StoreGoesDown \/ StoreComesBack \/ Tick \/ UNCHANGED vars
  BY <1>3 DEF StoreGoesDown, StoreComesBack, Tick, vars
<1> QED
  BY <1>1, <1>2, <1>3 DEF Next, Step, Rest

\* What loads have seen changes when one begins or is given up, and when the store is
\* written to.
LEMMA SeenChanges ==
    ASSUME Inv, [Next]_vars, UNCHANGED <<store, replaced>>
    PROVE  \/ UNCHANGED seen
           \/ \E s \in Server : seen[s] = {} /\ ~Ready(s) /\ Begin(s)
           \/ \E s \in Server : seen[s] # {} /\ End(s)
           \/ \E s \in Server : Ready(s) # Ready(s)'
<1> USE DEF Inv
<1>0. \A s \in Server : Ready(s) => seen[s] = {}
  BY DEF Ready, TypeOK, Loading
<1>1. ASSUME NEW s \in Server, Load(s)
      PROVE  \/ UNCHANGED seen
             \/ seen[s] # {} /\ End(s)
             \/ Ready(s) # Ready(s)'
  <2>1. CASE Replace(s) \/ Claim(s)
    <3>1. Replace(s) \/ store # NoCa
      BY <1>1, <2>1 DEF Claim, Write, TypeOK, HasOwn
    <3>2. CASE Replace(s)
      <4>1. ca[s] = store /\ ca[s] \in Ca /\ Write(store)
        BY <3>2 DEF Replace, Write, TypeOK, HasOwn
      <4>2. \A t \in Server : seen'[t] = seen[t]
        <5> SUFFICES ASSUME NEW t \in Server PROVE seen'[t] = seen[t]
          OBVIOUS
        <5>1. seen[t] # {} => store \in seen[t]
          BY DEF LoadsOK, LoadOK, TypeOK
        <5> QED
          BY <4>1, <5>1 DEF Write
      <4> QED
        BY <4>1, <4>2 DEF Write, TypeOK
    <3>3. CASE Claim(s) /\ store # NoCa
      BY <3>3 DEF Claim
    <3> QED
      BY <2>1, <3>1, <3>2, <3>3
  <2>2. CASE ~(Replace(s) \/ Claim(s))
    BY <1>1, <2>2 DEF Load, Read, Decide, Return, Check, Conclude, LoadFails, End, TypeOK,
                      Loading
  <2> QED
    BY <2>1, <2>2
<1>2. ASSUME NEW s \in Server, Boot(s) \/ LoadForHandshake(s) \/ AskClientCert(s)
      PROVE  UNCHANGED seen \/ (seen[s] = {} /\ ~Ready(s) /\ Begin(s))
  <2>1. UNCHANGED seen \/ (st[s] \in {"down", "idle"} /\ Begin(s))
    BY <1>2 DEF Boot, LoadForHandshake, AskClientCert
  <2>2. st[s] \in {"down", "idle"} => seen[s] = {} /\ ~Ready(s)
    BY DEF Ready, TypeOK, Loading
  <2> QED
    BY <2>1, <2>2
<1>3. ASSUME NEW s \in Server, Crash(s)
      PROVE  UNCHANGED seen \/ (seen[s] # {} /\ End(s))
  <2>1. CASE seen[s] = {}
    BY <1>3, <2>1 DEF Crash, End, TypeOK
  <2> QED
    BY <1>3, <2>1 DEF Crash
<1>4. ASSUME NEW s \in Server, Reply(s) PROVE UNCHANGED seen
  BY <1>4 DEF Reply, CreateClientCert, RefuseClientCert
<1>5. CASE StoreGoesDown \/ StoreComesBack \/ Tick \/ UNCHANGED vars
  BY <1>5 DEF StoreGoesDown, StoreComesBack, Tick, vars
<1> QED
  BY <1>1, <1>2, <1>3, <1>4, <1>5 DEF Next, Step, Rest

Candidates == (Stored \ {NoCa}) \cup [id: 1..MaxMade, exp: Life..(Life + MaxTime)]
Held == [s \in Server |-> IF Ready(s) THEN ca[s] ELSE NoCa]

\* A step of the servers is a step of the abstract fleet, or changes nothing it shows.
LEMMA StepRefines ==
    ASSUME Inv, Inv', [Next]_vars
    PROVE  [Fleet!Next]_<<store, replaced, Held, seen>>
<1>1. Known' \subseteq Candidates
  BY Times, StoredIsCa DEF Inv, TypeOK, AllKnown, Known, Candidates
<1>2. ASSUME NEW s \in Server, ~Ready(s), Ready(s)' PROVE Fleet!Next
  <2>1. /\ Adoptable(ca'[s]) /\ ca'[s] \in seen[s]
        /\ \A t \in Server : t # s => ca'[t] = ca[t] /\ st'[t] = st[t]
        /\ seen' = [seen EXCEPT ![s] = {}]
        /\ UNCHANGED <<store, replaced>>
    BY <1>2, GoesIntoService
  <2> PICK c : c = ca'[s]
    OBVIOUS
  <2>2. c \in Candidates
    BY <1>1, <2>1 DEF Inv, AllKnown, Adoptable
  <2>3. Held[s] = NoCa /\ Held' = [Held EXCEPT ![s] = c]
    BY <1>2, <2>1 DEF Held, Ready
  <2>4. Fleet!Adopt(s, c)
    BY <2>1, <2>3 DEF Fleet!Adopt, Held
  <2> QED
    BY <2>2, <2>4 DEF Fleet!Next, Candidates
<1>3. ASSUME NEW s \in Server, Ready(s), ~Ready(s)' PROVE Fleet!Next
  <2>1. /\ UNCHANGED <<store, replaced>>
        /\ \A t \in Server : t # s => ca'[t] = ca[t] /\ st'[t] = st[t]
        /\ seen' = [seen EXCEPT ![s] = {}]
    BY <1>3, StaysInService
  <2>2. Held[s] # NoCa
    BY <1>3 DEF Held, Ready, Inv, TypeOK
  <2>3. Held' = [Held EXCEPT ![s] = NoCa]
    BY <1>3, <2>1 DEF Held, Ready
  <2>4. Fleet!Stop(s)
    BY <2>1, <2>2, <2>3 DEF Fleet!Stop, Held
  <2> QED
    BY <2>4 DEF Fleet!Next
<1>4. CASE \A s \in Server : Ready(s) <=> Ready(s)'
  <2>1. Held' = Held
    <3>1. ASSUME NEW s \in Server PROVE Held'[s] = Held[s]
      BY <1>4, StaysInService DEF Held
    <3> QED
      BY <3>1 DEF Held
  <2>2. CASE store' # store \/ replaced' # replaced
    <3>1. /\ store' # NoCa /\ Write(store')
          /\ \/ store = NoCa /\ replaced' = replaced
             \/ store # NoCa /\ replaced'
      BY <2>2, StoreChanges
    <3>2. store' \in Candidates
      BY <1>1, <3>1 DEF Inv, AllKnown
    <3>3. Fleet!Offer(store')
      BY <3>1 DEF Fleet!Offer, Fleet!Looks, Write
    <3>4. Fleet!Settle(store') \/ Fleet!Renew(store')
      BY <2>1, <3>1, <2>2, <3>3 DEF Fleet!Settle, Fleet!Renew, Held, Inv, TypeOK
    <3> QED
      BY <3>2, <3>4 DEF Fleet!Next, Candidates
  <2>3. CASE UNCHANGED <<store, replaced>> /\ ~UNCHANGED seen
    <3>1. \/ \E s \in Server : seen[s] = {} /\ ~Ready(s) /\ Begin(s)
          \/ \E s \in Server : seen[s] # {} /\ End(s)
      BY <1>4, <2>3, SeenChanges DEF Ready
    <3>2. ASSUME NEW s \in Server, seen[s] = {}, ~Ready(s), Begin(s) PROVE Fleet!Look(s)
      BY <2>1, <2>3, <3>2 DEF Fleet!Look, Fleet!Looks, Begin, Held
    <3>3. ASSUME NEW s \in Server, seen[s] # {}, End(s) PROVE Fleet!Stop(s)
      <4>1. ~Ready(s)
        BY <3>3 DEF Inv, TypeOK, Ready, Loading
      <4>2. Held[s] = NoCa /\ Held' = [Held EXCEPT ![s] = NoCa]
        BY <2>1, <4>1 DEF Held
      <4> QED
        BY <2>3, <3>3, <4>2 DEF Fleet!Stop, Fleet!Looks, End, Held
    <3> QED
      BY <3>1, <3>2, <3>3 DEF Fleet!Next
  <2> QED
    BY <2>1, <2>2, <2>3
<1> QED
  BY <1>2, <1>3, <1>4

\* The fleet implements FleetCA: it settles one CA, and until that has to be replaced no
\* server works with another (local-ca.ts:343-345).
THEOREM Refinement == Spec => ImplementsFleetCA
<1>1. Init => Fleet!Init
  BY StoredIsCa DEF Init, Fleet!Init, Ready
<1>2. Inv /\ Inv' /\ [Next]_vars => [Fleet!Next]_<<store, replaced, Held, seen>>
  BY StepRefines
<1> QED
  BY <1>1, <1>2, Invariant, PTL DEF Spec, ImplementsFleetCA, Fleet!Spec, Held

-----------------------------------------------------------------------------
(***************************************************************************)
(* Agreement, as long as no stored CA has been replaced.  Every client     *)
(* certificate is of the stored CA, even if no server works with it any    *)
(* more.                                                                   *)
(***************************************************************************)
IssuedByStored ==
    ~replaced => \A cert \in issued : store # NoCa /\ cert.issuer = store.id

\* Servers in service work with the stored CA: it cannot change under them without being
\* replaced, since writeIfAbsent leaves it alone (local-ca.ts:371).
THEOREM NextConverged == Inv /\ Converged /\ [Next]_vars => Converged'
<1> SUFFICES ASSUME Inv, Converged, [Next]_vars, ~replaced', NEW s \in Server, Ready(s)'
             PROVE  ca'[s] = store'
  BY DEF Converged
<1>1. CASE ~Ready(s)
  <2>1. ca'[s] \in seen[s] /\ ca'[s] # NoCa /\ UNCHANGED <<store, replaced>>
    BY <1>1, GoesIntoService DEF Adoptable
  <2> QED
    BY <2>1 DEF Inv, LoadsOK, SeenOne
<1>2. CASE Ready(s)
  <2>1. ~replaced
    BY StoreChanges DEF Inv, TypeOK
  <2>2. ca'[s] = ca[s] /\ ca[s] = store /\ store # NoCa
    BY <1>2, <2>1, StaysInService DEF Converged, Ready, Inv, TypeOK
  <2> QED
    BY <2>1, <2>2, StoreChanges
<1> QED
  BY <1>1, <1>2

\* Client certificates are issued by the CA the server works with (local-ca.ts:459).
LEMMA IssuedGrows ==
    ASSUME Inv, [Next]_vars, NEW cert \in issued', cert \notin issued
    PROVE  \E s \in Server : /\ Ready(s) /\ cert.issuer = ca[s].id
                             /\ UNCHANGED <<store, replaced>>
<1>1. ASSUME NEW s \in Server, CreateClientCert(s)
      PROVE  Ready(s) /\ cert.issuer = ca[s].id /\ UNCHANGED <<store, replaced>>
  BY <1>1 DEF CreateClientCert, Ready
<1>2. ASSUME NEW s \in Server,
             Boot(s) \/ Crash(s) \/ LoadForHandshake(s) \/ AskClientCert(s) \/ RefuseClientCert(s)
      PROVE  FALSE
  BY <1>2 DEF Boot, Crash, LoadForHandshake, AskClientCert, RefuseClientCert
<1>3. ASSUME NEW s \in Server, Load(s) PROVE FALSE
  BY <1>3 DEF Load, Read, Decide, Replace, Claim, Return, Check, Conclude, LoadFails
<1>4. CASE StoreGoesDown \/ StoreComesBack \/ Tick \/ UNCHANGED vars
  BY <1>4 DEF StoreGoesDown, StoreComesBack, Tick, vars
<1> QED
  BY <1>1, <1>2, <1>3, <1>4 DEF Next, Step, Rest, Reply

\* So certificates of a CA that was never replaced are of the stored CA.
THEOREM NextIssued ==
    Inv /\ Converged /\ IssuedByStored /\ [Next]_vars => IssuedByStored'
<1> SUFFICES ASSUME Inv, Converged, IssuedByStored, [Next]_vars, ~replaced',
                    NEW cert \in issued'
             PROVE  store' # NoCa /\ cert.issuer = store'.id
  BY DEF IssuedByStored
<1>1. ~replaced
  BY StoreChanges DEF Inv, TypeOK
<1>2. CASE cert \in issued
  BY <1>1, <1>2, StoreChanges DEF IssuedByStored
<1>3. CASE cert \notin issued
  <2>1. PICK s \in Server : Ready(s) /\ cert.issuer = ca[s].id /\ UNCHANGED <<store, replaced>>
    BY <1>3, IssuedGrows
  <2> QED
    BY <1>1, <2>1 DEF Converged, Ready, Inv, TypeOK
<1> QED
  BY <1>2, <1>3

\* The fleet converges on a single CA, and accepts each other's client certificates, as
\* long as the stored CA has not been replaced.
THEOREM Agreement == Spec => [](Converged /\ ClientCertsAccepted)
<1>1. Init => Converged /\ IssuedByStored
  BY DEF Init, Converged, IssuedByStored, Ready
<1>2. Inv /\ Converged /\ IssuedByStored /\ [Next]_vars => Converged' /\ IssuedByStored'
  BY NextConverged, NextIssued
<1>3. Converged /\ IssuedByStored => ClientCertsAccepted
  BY DEF Converged, IssuedByStored, ClientCertsAccepted
<1> QED
  BY <1>1, <1>2, <1>3, Invariant, PTL DEF Spec

\* As long as the CA has not been replaced, whoever can check a client certificate accepts every one
\* that has been downloaded (local-ca.ts:441-444).
THEOREM ClientCertsAgree == Spec => []ClientCertsAccepted
<1>1. Converged /\ ClientCertsAccepted => ClientCertsAccepted
  OBVIOUS
<1> QED
  BY <1>1, Agreement, PTL

=============================================================================
