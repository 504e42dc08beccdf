------------------------- MODULE DnsChallenge_proofs -------------------------
(***************************************************************************)
(* Proofs about DnsChallenge, for any number of machines and challenges,   *)
(* any time to live and any bounds.                                        *)
(***************************************************************************)
EXTENDS DnsChallenge, TLAPS

\* A DnsServer starts with no record (dns-server.ts:22).
THEOREM InitType == Init => TypeOK
BY DEF Init, TypeOK, NoQuery

\* The steps of an issuance keep the shape of the state (acme.ts:261-265,
\* dns-server.ts:36-54).
LEMMA IssuanceType ==
    ASSUME TypeOK, NEW c \in Challenge,
           \/ Published(c) \/ SetFails(c) \/ RemoveTxtRecord(c) \/ Removed(c) \/ RemoveFails(c)
           \/ \E m \in Machine : SetTxtRecord(c, m)
    PROVE  TypeOK'
<1> USE NoSuchMachine, KindsAndTimes
<1>1. CASE Published(c)
  BY <1>1 DEF Published, StoreSet, Move, TypeOK
<1>2. CASE SetFails(c)
  BY <1>2 DEF SetFails, StoreSet, AfterFailure, Failure, Move, TypeOK
<1>3. CASE RemoveTxtRecord(c)
  BY <1>3 DEF RemoveTxtRecord, Forget, Move, TypeOK
<1>4. CASE Removed(c)
  BY <1>4 DEF Removed, StoreRemove, Move, TypeOK
<1>5. CASE RemoveFails(c)
  BY <1>5 DEF RemoveFails, Failure, Move, TypeOK
<1>6. ASSUME NEW m \in Machine, SetTxtRecord(c, m) PROVE TypeOK'
  BY <1>6 DEF SetTxtRecord, Move, TypeOK, NoQuery
<1> QED
  BY <1>1, <1>2, <1>3, <1>4, <1>5, <1>6

\* So do the steps of a query (dns-server.ts:56-105).
LEMMA QueryType ==
    ASSUME TypeOK, NEW c \in Challenge,
           \/ AnswerFromStore(c) \/ StoreUnreadable(c)
           \/ \E m \in Machine : AnswerFromMemory(c, m) \/ AskStore(c, m)
    PROVE  TypeOK'
<1> USE NoSuchMachine
<1>1. ASSUME NEW to \in {"valid", "invalid", "abandoned"}, st' = [st EXCEPT ![c] = to],
             query' = [query EXCEPT ![c] = NoQuery], st[c] = "published",
             used' \in [failures: Nat, crashes: Nat],
             UNCHANGED <<clock, local, shared, on, until, reaping>>
      PROVE  TypeOK'
  BY <1>1 DEF TypeOK
<1>2. CASE AnswerFromStore(c)
  BY <1>1, <1>2 DEF AnswerFromStore, Verdict, AfterFailure, Move, TypeOK
<1>3. CASE StoreUnreadable(c)
  BY <1>1, <1>3 DEF StoreUnreadable, Failure, Verdict, AfterFailure, Move, TypeOK
<1>4. ASSUME NEW m \in Machine, AnswerFromMemory(c, m) PROVE TypeOK'
  BY <1>1, <1>4 DEF AnswerFromMemory, Verdict, AfterFailure, Move, TypeOK
<1>5. ASSUME NEW m \in Machine, AskStore(c, m) PROVE TypeOK'
  BY <1>5 DEF AskStore, NoQuery, TypeOK
<1> QED
  BY <1>2, <1>3, <1>4, <1>5

\* Every step keeps the shape of the state, a crash and reapExpired's deletes included.
THEOREM NextType == TypeOK /\ [Next]_vars => TypeOK'
<1> SUFFICES ASSUME TypeOK, [Next]_vars PROVE TypeOK'
  OBVIOUS
<1>1. ASSUME NEW m \in Machine, Crash(m) PROVE TypeOK'
  <2>1. shared' \in [Challenge -> Nat]
    BY <1>1, KindsAndTimes DEF Crash, TypeOK
  <2> QED
    BY <1>1, <2>1, NoSuchMachine DEF Crash, TypeOK, NoQuery
<1>2. ASSUME NEW m \in Machine, NEW c \in Challenge, Reap(m, c) PROVE TypeOK'
  BY <1>2 DEF Reap, TypeOK
<1>3. CASE Tick \/ UNCHANGED vars
  BY <1>3 DEF Tick, vars, TypeOK
<1> QED
  BY <1>1, <1>2, <1>3, IssuanceType, QueryType DEF Next

\* The maps of the DnsServers and of the store keep their shape; only a published challenge is
\* asked for (dns-server.ts:56-105).
THEOREM TypeCorrect == Spec => []TypeOK
BY InitType, NextType, PTL DEF Spec

-----------------------------------------------------------------------------
(***************************************************************************)
(* A challenge keeps its own records.  What a starting machine reaps may   *)
(* be out of date as a list, but a challenge is stored only once: what was *)
(* out of date when the list was made is so for good.  The value is in the *)
(* memory of its machine from before it is stored.                         *)
(***************************************************************************)
StoredOnce(c) == shared[c] # 0 => st[c] \notin {"new", "setting"}

ReapsOld(c) ==
    \A m \in Machine : c \in reaping[m] =>
        /\ st[c] \notin {"new", "setting"}
        /\ st[c] = "published" => until[c] <= clock

Kept(c) ==
    /\ st[c] \in {"setting", "published"} => c \in local[on[c]]
    /\ st[c] = "published" /\ clock < until[c] => shared[c] = until[c]

RecordOK(c) == StoredOnce(c) /\ ReapsOld(c) /\ Kept(c)

\* A step of another challenge does not touch the records of this one: the store has one
\* object per value (s3-challenge-store.ts:50).
LEMMA OthersLeaveIt ==
    ASSUME NEW c \in Challenge, RecordOK(c), UNCHANGED <<clock, reaping>>,
           st'[c] = st[c], on'[c] = on[c], until'[c] = until[c], shared'[c] = shared[c],
           st[c] \in {"setting", "published"} => (c \in local[on[c]] => c \in local'[on[c]])
    PROVE  RecordOK(c)'
BY DEF RecordOK, StoredOnce, ReapsOld, Kept

\* A challenge whose validation is over has nothing to lose (acme.ts:248-310).
LEMMA NothingToLose ==
    ASSUME NEW c \in Challenge, RecordOK(c), UNCHANGED reaping,
           st'[c] \notin {"new", "setting", "published"}
    PROVE  RecordOK(c)'
BY DEF RecordOK, StoredOnce, ReapsOld, Kept

\* setTxtRecord and removeTxtRecord keep the records of every challenge (dns-server.ts:36-54).
LEMMA IssuanceKeeps ==
    ASSUME TypeOK, \A c \in Challenge : RecordOK(c), NEW c \in Challenge, NEW d \in Challenge,
           \/ Published(d) \/ SetFails(d) \/ RemoveTxtRecord(d) \/ Removed(d) \/ RemoveFails(d)
           \/ \E m \in Machine : SetTxtRecord(d, m)
    PROVE  RecordOK(c)'
<1> USE NoSuchMachine, KindsAndTimes
<1>1. CASE Published(d)
  <2>1. CASE c = d
    BY <1>1, <2>1 DEF Published, StoreSet, Move, TypeOK, RecordOK, StoredOnce, ReapsOld, Kept
  <2>2. CASE c # d
    BY <1>1, <2>2, OthersLeaveIt DEF Published, StoreSet, Move, TypeOK
  <2> QED
    BY <2>1, <2>2
<1>2. CASE SetFails(d)
  <2>1. CASE c = d
    BY <1>2, <2>1, NothingToLose DEF SetFails, AfterFailure, Move, TypeOK
  <2>2. CASE c # d
    BY <1>2, <2>2, OthersLeaveIt DEF SetFails, StoreSet, Move, TypeOK
  <2> QED
    BY <2>1, <2>2
<1>3. CASE RemoveTxtRecord(d)
  <2>1. CASE c = d
    BY <1>3, <2>1, NothingToLose DEF RemoveTxtRecord, Move, TypeOK
  <2>2. CASE c # d
    BY <1>3, <2>2, OthersLeaveIt DEF RemoveTxtRecord, Forget, Move, TypeOK
  <2> QED
    BY <2>1, <2>2
<1>4. CASE Removed(d) \/ RemoveFails(d)
  <2>1. CASE c = d
    BY <1>4, <2>1, NothingToLose DEF Removed, RemoveFails, Move, TypeOK
  <2>2. CASE c # d
    BY <1>4, <2>2, OthersLeaveIt DEF Removed, RemoveFails, StoreRemove, Move, TypeOK
  <2> QED
    BY <2>1, <2>2
<1>5. ASSUME NEW m \in Machine, SetTxtRecord(d, m) PROVE RecordOK(c)'
  <2>1. CASE c = d
    BY <1>5, <2>1 DEF SetTxtRecord, Move, TypeOK, RecordOK, StoredOnce, ReapsOld, Kept
  <2>2. CASE c # d
    BY <1>5, <2>2, OthersLeaveIt DEF SetTxtRecord, Move, TypeOK
  <2> QED
    BY <2>1, <2>2
<1> QED
  BY <1>1, <1>2, <1>3, <1>4, <1>5

\* So do the steps of a query: handleQuery writes nothing (dns-server.ts:56-105).
LEMMA QueryKeeps ==
    ASSUME TypeOK, \A c \in Challenge : RecordOK(c), NEW c \in Challenge, NEW d \in Challenge,
           \/ AnswerFromStore(d) \/ StoreUnreadable(d)
           \/ \E m \in Machine : AnswerFromMemory(d, m) \/ AskStore(d, m)
    PROVE  RecordOK(c)'
<1>1. UNCHANGED <<clock, local, shared, on, until, reaping>>
  BY DEF AnswerFromStore, StoreUnreadable, AnswerFromMemory, AskStore
<1>2. st'[c] = st[c] \/ st'[c] \in {"valid", "invalid", "abandoned"}
  BY DEF AnswerFromStore, StoreUnreadable, AnswerFromMemory, AskStore, Verdict,
         AfterFailure, Move, TypeOK
<1> QED
  BY <1>1, <1>2, OthersLeaveIt, NothingToLose

\* A crash, with whatever requests landed, and the start that follows keep the records of
\* the challenges of other machines (server.ts:155-165, s3-challenge-store.ts:81-91).
LEMMA CrashKeeps ==
    ASSUME TypeOK, NEW c \in Challenge, RecordOK(c), NEW m \in Machine, Crash(m)
    PROVE  RecordOK(c)'
<1> USE NoSuchMachine, KindsAndTimes
<1>1. reaping' = [reaping EXCEPT ![m] = {d \in Challenge : OutOfDate(d)}] /\ clock' = clock
        /\ until' = until /\ on' = on /\ local' = [local EXCEPT ![m] = {}]
  BY DEF Crash
<1>2. CASE on[c] = m /\ st[c] \notin {"abandoned", "removed"}
  <2>1. st'[c] = "crashed"
    BY <1>2 DEF Crash, TypeOK
  <2> QED
    BY <2>1 DEF RecordOK, StoredOnce, ReapsOld, Kept
<1>3. CASE on[c] = m /\ st[c] \in {"abandoned", "removed"}
  <2>1. st'[c] = st[c]
    BY <1>3 DEF Crash, TypeOK
  <2> QED
    BY <1>3, <2>1 DEF RecordOK, StoredOnce, ReapsOld, Kept
<1>4. CASE on[c] # m
  <2>1. st'[c] = st[c] /\ shared'[c] = shared[c]
    BY <1>4 DEF Crash, TypeOK
  <2>2. OutOfDate(c) => st[c] \notin {"new", "setting"}
    BY DEF OutOfDate, RecordOK, StoredOnce
  <2>3. OutOfDate(c) /\ st[c] = "published" => until[c] <= clock
    BY DEF OutOfDate, RecordOK, Kept, TypeOK
  <2>4. StoredOnce(c)'
    BY <2>1 DEF RecordOK, StoredOnce
  <2>5. ReapsOld(c)'
    BY <1>1, <2>1, <2>2, <2>3 DEF RecordOK, ReapsOld, TypeOK
  <2>6. Kept(c)'
    BY <1>1, <1>4, <2>1 DEF RecordOK, Kept, TypeOK
  <2> QED
    BY <2>4, <2>5, <2>6 DEF RecordOK
<1> QED
  BY <1>2, <1>3, <1>4

\* Reaping deletes what is out of date by now, if not more (s3-challenge-store.ts:81-91).
LEMMA ReapKeeps ==
    ASSUME TypeOK, NEW c \in Challenge, RecordOK(c), NEW m \in Machine, NEW d \in Challenge,
           Reap(m, d)
    PROVE  RecordOK(c)'
<1>1. UNCHANGED <<clock, local, st, on, until>> /\ d \in reaping[m]
  BY DEF Reap
<1>2. \A n \in Machine : reaping'[n] \subseteq reaping[n]
  BY DEF Reap, TypeOK
<1>3. shared'[c] = IF c = d THEN 0 ELSE shared[c]
  BY DEF Reap, TypeOK
<1>4. StoredOnce(c)' /\ ReapsOld(c)'
  BY <1>1, <1>2, <1>3 DEF RecordOK, StoredOnce, ReapsOld
<1>5. Kept(c)'
  BY <1>1, <1>3 DEF RecordOK, ReapsOld, Kept, TypeOK
<1> QED
  BY <1>4, <1>5 DEF RecordOK

RecordsOK == \A c \in Challenge : RecordOK(c)

\* Every step, of setTxtRecord, removeTxtRecord, handleQuery, reapExpired or a crash, keeps the
\* records of every challenge.
THEOREM NextRecords == TypeOK /\ RecordsOK /\ [Next]_vars => RecordsOK'
<1> SUFFICES ASSUME TypeOK, RecordsOK, [Next]_vars, NEW c \in Challenge PROVE RecordOK(c)'
  BY DEF RecordsOK
<1> USE DEF RecordsOK
<1>1. CASE Tick
  BY <1>1 DEF Tick, RecordOK, StoredOnce, ReapsOld, Kept, TypeOK
<1>2. CASE UNCHANGED vars
  BY <1>2, OthersLeaveIt DEF vars
<1> QED
  BY <1>1, <1>2, IssuanceKeeps, QueryKeeps, CrashKeeps, ReapKeeps DEF Next

\* Concurrent issuances of the same name keep their own records (s3-challenge-store.ts:31-32),
\* whatever setTxtRecord, removeTxtRecord and reapExpired do for others.
THEOREM RecordsKept == Spec => []OwnRecordsKept
<1>1. Init => RecordsOK
  BY DEF Init, RecordsOK, RecordOK, StoredOnce, ReapsOld, Kept
<1>2. RecordsOK => OwnRecordsKept
  BY DEF RecordsOK, RecordOK, Kept, OwnRecordsKept
<1> QED
  BY <1>1, <1>2, InitType, NextType, NextRecords, PTL DEF Spec

-----------------------------------------------------------------------------
(***************************************************************************)
(* What an answer is based on: a query has come in before it is answered.  *)
(***************************************************************************)
QueriesOK == \A c \in Challenge : query[c] # NoQuery => query[c].now <= clock

\* No query comes from the future: get() takes Date.now() before it reads
\* (s3-challenge-store.ts:73).
THEOREM NextQueries == TypeOK /\ QueriesOK /\ [Next]_vars => QueriesOK'
<1> SUFFICES ASSUME TypeOK, QueriesOK, [Next]_vars, NEW c \in Challenge, query'[c] # NoQuery
             PROVE  query'[c].now <= clock'
  BY DEF QueriesOK
<1>1. clock \in Nat /\ (clock' = clock \/ clock' = clock + 1)
  <2>1. CASE Tick
    BY <2>1 DEF Tick, TypeOK
  <2>2. CASE UNCHANGED vars
    BY <2>2 DEF vars, TypeOK
  <2>3. ASSUME NEW m \in Machine, Crash(m) \/ \E d \in Challenge : Reap(m, d) PROVE clock' = clock
    BY <2>3 DEF Crash, Reap
  <2>4. ASSUME NEW d \in Challenge,
               \/ Published(d) \/ SetFails(d) \/ RemoveTxtRecord(d) \/ Removed(d) \/ RemoveFails(d)
               \/ AnswerFromStore(d) \/ StoreUnreadable(d)
               \/ \E m \in Machine : SetTxtRecord(d, m) \/ AnswerFromMemory(d, m) \/ AskStore(d, m)
        PROVE  clock' = clock
    BY <2>4 DEF Published, SetFails, RemoveTxtRecord, Removed, RemoveFails, AnswerFromStore,
                StoreUnreadable, SetTxtRecord, AnswerFromMemory, AskStore
  <2> QED
    BY <2>1, <2>2, <2>3, <2>4 DEF Next, TypeOK
<1>2. CASE query'[c] = query[c]
  BY <1>1, <1>2, NoSuchMachine DEF QueriesOK, TypeOK, NoQuery
<1>3. CASE query'[c] # query[c]
  <2>1. PICK m \in Machine : AskStore(c, m)
    BY <1>3 DEF Next, vars, Tick, Crash, Reap, Published, SetFails, RemoveTxtRecord, Removed,
                RemoveFails, AnswerFromStore, StoreUnreadable, SetTxtRecord, AnswerFromMemory,
                AskStore, Verdict, TypeOK
  <2> QED
    BY <2>1 DEF AskStore, TypeOK
<1> QED
  BY <1>2, <1>3

\* handleQuery lets a validation fail only for one of the reasons AnsweredUnlessShadowed lists.
LEMMA FailsForAReason ==
    ASSUME TypeOK, RecordsOK, QueriesOK, [Next]_vars, NEW c \in Challenge,
           st[c] = "published", st'[c] \in {"invalid", "abandoned"}
    PROVE  \/ used'.failures > used.failures
           \/ clock >= until[c]
           \/ query[c] = NoQuery /\ \E m \in Machine : m # on[c] /\ local[m] # {}
<1>0. Kept(c)
  BY DEF RecordsOK, RecordOK
<1>1. ASSUME NEW m \in Machine, AnswerFromMemory(c, m) PROVE m # on[c] /\ local[m] # {} /\ query[c] = NoQuery
  BY <1>0, <1>1 DEF AnswerFromMemory, Verdict, Move, Kept, TypeOK
<1>2. CASE AnswerFromStore(c)
  <2>1. ~InStore(c, query[c].now)
    BY <1>2 DEF AnswerFromStore, Verdict, Move, TypeOK
  <2> QED
    BY <1>0, <1>2, <2>1 DEF AnswerFromStore, InStore, Kept, QueriesOK, TypeOK
<1>3. CASE StoreUnreadable(c)
  BY <1>3 DEF StoreUnreadable, Failure, TypeOK
<1>4. AnswerFromStore(c) \/ StoreUnreadable(c) \/ \E m \in Machine : AnswerFromMemory(c, m)
  BY DEF Next, vars, Tick, Crash, Reap, Published, SetFails, RemoveTxtRecord, Removed,
         RemoveFails, AnswerFromStore, StoreUnreadable, SetTxtRecord, AnswerFromMemory,
         AskStore, Verdict, Move, TypeOK
<1> QED
  BY <1>1, <1>2, <1>3, <1>4

\* A published challenge is validated unless the store fails, the record goes out of date,
\* or another machine answers with records of its own (handleQuery, dns-server.ts:62-80).
THEOREM Answered == Spec => AnsweredUnlessShadowed
<1>1. Init => RecordsOK /\ QueriesOK
  BY DEF Init, RecordsOK, RecordOK, StoredOnce, ReapsOld, Kept, QueriesOK
<1>2. TypeOK /\ RecordsOK /\ QueriesOK /\ [Next]_vars
        => [\A c \in Challenge :
              st[c] = "published" /\ st'[c] \in {"invalid", "abandoned"} =>
                 \/ used'.failures > used.failures
                 \/ clock >= until[c]
                 \/ query[c] = NoQuery /\ \E m \in Machine : m # on[c] /\ local[m] # {}]_vars
  BY FailsForAReason
<1> QED
  BY <1>1, <1>2, InitType, NextType, NextRecords, NextQueries, PTL
     DEF Spec, AnsweredUnlessShadowed

=============================================================================
