----------------------------- MODULE DnsChallenge -----------------------------
(***************************************************************************)
(* DNS-01 challenges of one name: the DnsServer of every machine           *)
(* (dns-server.ts), the challenge records they share (S3ChallengeStore,    *)
(* s3-challenge-store.ts), and the issuances that publish and remove them  *)
(* (acme.ts).  The proxy sends the CA's validation queries to any machine. *)
(*                                                                         *)
(* A challenge stands for its key authorization, which no two challenges   *)
(* share.  Nothing relates two names, so one name stands for all.          *)
(***************************************************************************)
EXTENDS Naturals

CONSTANTS
    Machine,
    Challenge,
    NoMachine,
    ShortLived,    \* the challenges of short-lived issuances; the others are auto()'s
    Ttl,           \* CHALLENGE_TTL_MS
    MaxTime,       \* bound: last value of the clock
    MaxFailures,   \* bound: failed requests to the store
    MaxCrashes     \* bound: crashes in a behaviour

ASSUME NoSuchMachine == NoMachine \notin Machine
ASSUME KindsAndTimes == ShortLived \subseteq Challenge /\ Ttl \in Nat \ {0}

VARIABLES
    clock,
    local,     \* txtRecords of each machine: the values set for the name
    shared,    \* objects of the store: value -> expiry, or 0 if there is none
    st,        \* how far each challenge has got
    on,        \* the machine whose issuance it belongs to
    until,     \* the expiry of its record, which set() computes before the put
    query,     \* the CA's query for it: the machine asked, and Date.now() there
    reaping,   \* for each machine, the objects its reapExpired is about to delete
    used       \* what has been used of each bound

vars == <<clock, local, shared, st, on, until, query, reaping, used>>

NoQuery == [at |-> NoMachine, now |-> 0]

\* The shape of the state; only published challenges are asked for.
TypeOK ==
    /\ clock \in Nat
    /\ local \in [Machine -> SUBSET Challenge]
    /\ shared \in [Challenge -> Nat]
    /\ st \in [Challenge -> {"new", "setting", "published", "valid", "invalid", "removing",
                             "removed", "abandoned", "crashed"}]
    /\ on \in [Challenge -> Machine \cup {NoMachine}]
    /\ \A c \in Challenge : on[c] = NoMachine <=> st[c] = "new"
    /\ until \in [Challenge -> Nat]
    /\ query \in [Challenge -> {NoQuery} \cup [at: Machine, now: Nat]]
    /\ \A c \in Challenge : query[c] # NoQuery => st[c] = "published"
    /\ reaping \in [Machine -> SUBSET Challenge]
    /\ used \in [failures: Nat, crashes: Nat]

Init ==
    /\ clock = 1
    /\ local = [m \in Machine |-> {}]
    /\ shared = [c \in Challenge |-> 0]
    /\ st = [c \in Challenge |-> "new"]
    /\ on = [c \in Challenge |-> NoMachine]
    /\ until = [c \in Challenge |-> 0]
    /\ query = [c \in Challenge |-> NoQuery]
    /\ reaping = [m \in Machine |-> {}]
    /\ used = [failures |-> 0, crashes |-> 0]

Move(c, to) == st' = [st EXCEPT ![c] = to]

Failure ==
    /\ used.failures < MaxFailures
    /\ used' = [used EXCEPT !.failures = @ + 1]

-----------------------------------------------------------------------------
(***************************************************************************)
(* The issuance: setTxtRecord, validation, removeTxtRecord.                *)
(***************************************************************************)

\* setTxtRecord up to its await: the value is in memory, a put of its record on its way.
SetTxtRecord(c, m) ==
    /\ st[c] = "new"
    /\ Move(c, "setting")
    /\ on' = [on EXCEPT ![c] = m]
    /\ local' = [local EXCEPT ![m] = @ \cup {c}]
    /\ until' = [until EXCEPT ![c] = clock + Ttl]
    /\ UNCHANGED <<clock, shared, query, reaping, used>>

\* One object per (fqdn, value).
StoreSet(c) == shared' = [shared EXCEPT ![c] = until[c]]

\* The put is done: the CA is told to validate.
Published(c) ==
    /\ st[c] = "setting"
    /\ StoreSet(c)
    /\ Move(c, "published")
    /\ UNCHANGED <<clock, local, on, until, query, reaping, used>>

\* auto() removes the records of a challenge that failed; the loop of a short-lived
\* issuance throws past the removal (acme.ts:261-265).
AfterFailure(c) == IF c \in ShortLived THEN "abandoned" ELSE "invalid"

\* The put fails, and may have reached the store all the same.
SetFails(c) ==
    /\ st[c] = "setting" /\ Failure
    /\ StoreSet(c) \/ UNCHANGED shared
    /\ Move(c, AfterFailure(c))
    /\ UNCHANGED <<clock, local, on, until, query, reaping>>

\* Mutant: the whole entry of the name goes with one of its values.
MutantForget(c) == local' = [local EXCEPT ![on[c]] = {}]

Forget(c) == local' = [local EXCEPT ![on[c]] = @ \ {c}]

\* removeTxtRecord up to its await: the value is out of memory, a delete on its way.
RemoveTxtRecord(c) ==
    /\ st[c] \in {"valid", "invalid"}
    /\ Move(c, "removing")
    /\ Forget(c)
    /\ UNCHANGED <<clock, shared, on, until, query, reaping, used>>

StoreRemove(c) == shared' = [shared EXCEPT ![c] = 0]

Removed(c) ==
    /\ st[c] = "removing"
    /\ StoreRemove(c)
    /\ Move(c, "removed")
    /\ UNCHANGED <<clock, local, on, until, query, reaping, used>>

\* The delete fails: the object stays until it is reaped.
RemoveFails(c) ==
    /\ st[c] = "removing" /\ Failure
    /\ Move(c, "removed")
    /\ UNCHANGED <<clock, local, shared, on, until, query, reaping>>

-----------------------------------------------------------------------------
(***************************************************************************)
(* handleQuery, for a query of the CA about challenge c at machine m.      *)
(***************************************************************************)
\* Mutant: the comparison is the wrong way round.
MutantInStore(c, now) == shared[c] # 0 /\ shared[c] <= now

\* get: the records that are not out of date.
InStore(c, now) == shared[c] > now

\* The CA compares the answer with the value it expects.
Verdict(c, found) ==
    /\ Move(c, IF found THEN "valid" ELSE AfterFailure(c))
    /\ query' = [query EXCEPT ![c] = NoQuery]

\* Records of its own: the machine answers with them, and them alone.
AnswerFromMemory(c, m) ==
    /\ st[c] = "published" /\ query[c] = NoQuery /\ local[m] # {}
    /\ Verdict(c, c \in local[m])
    /\ UNCHANGED <<clock, local, shared, on, until, reaping, used>>

\* None: it asks the store.
AskStore(c, m) ==
    /\ st[c] = "published" /\ query[c] = NoQuery /\ local[m] = {}
    /\ query' = [query EXCEPT ![c] = [at |-> m, now |-> clock]]
    /\ UNCHANGED <<clock, local, shared, st, on, until, reaping, used>>

AnswerFromStore(c) ==
    /\ query[c] # NoQuery
    /\ Verdict(c, InStore(c, query[c].now))
    /\ UNCHANGED <<clock, local, shared, on, until, reaping, used>>

\* The store cannot be read: logged, and the answer is empty.
StoreUnreadable(c) ==
    /\ query[c] # NoQuery /\ Failure
    /\ Verdict(c, FALSE)
    /\ UNCHANGED <<clock, local, shared, on, until, reaping>>

-----------------------------------------------------------------------------
\* Mutant: whatever is in the store is left behind by a failed issuance.
MutantOutOfDate(c) == shared[c] # 0

OutOfDate(c) == shared[c] # 0 /\ shared[c] <= clock

\* The process ends, with its puts and deletes done or not, and starts again: reapExpired
\* reads the records ...
Crash(m) ==
    /\ used.crashes < MaxCrashes
    /\ \E landed \in SUBSET {c \in Challenge : on[c] = m} :
          shared' = [c \in Challenge |->
                        IF c \in landed /\ st[c] = "setting" THEN until[c]
                        ELSE IF c \in landed /\ st[c] = "removing" THEN 0
                        ELSE shared[c]]
    /\ used' = [used EXCEPT !.crashes = @ + 1]
    /\ local' = [local EXCEPT ![m] = {}]
    /\ st' = [c \in Challenge |-> IF on[c] = m /\ st[c] \notin {"abandoned", "removed"}
                                  THEN "crashed" ELSE st[c]]
    /\ query' = [c \in Challenge |-> IF query[c].at = m \/ on[c] = m THEN NoQuery ELSE query[c]]
    /\ reaping' = [reaping EXCEPT ![m] = {c \in Challenge : OutOfDate(c)}]
    /\ UNCHANGED <<clock, on, until>>

\* ... and deletes those that are out of date, one by one.
Reap(m, c) ==
    /\ c \in reaping[m]
    /\ shared' = [shared EXCEPT ![c] = 0]
    /\ reaping' = [reaping EXCEPT ![m] = @ \ {c}]
    /\ UNCHANGED <<clock, local, st, on, until, query, used>>

Tick ==
    /\ clock < MaxTime /\ clock' = clock + 1
    /\ UNCHANGED <<local, shared, st, on, until, query, reaping, used>>

Next ==
    \/ \E c \in Challenge :
          \/ Published(c) \/ SetFails(c) \/ RemoveTxtRecord(c) \/ Removed(c) \/ RemoveFails(c)
          \/ AnswerFromStore(c) \/ StoreUnreadable(c)
          \/ \E m \in Machine : SetTxtRecord(c, m) \/ AnswerFromMemory(c, m) \/ AskStore(c, m)
    \/ \E m \in Machine : Crash(m) \/ \E c \in Challenge : Reap(m, c)
    \/ Tick

Spec == Init /\ [][Next]_vars

-----------------------------------------------------------------------------
\* s3-challenge-store.ts:31-32: "concurrent issuances of the same name keep their own records
\* instead of clobbering each other": until it is validated, a challenge stays in the memory
\* of its machine and, until it is out of date, in the store, whatever other issuances
\* set and remove, and whoever starts up and reaps.
OwnRecordsKept ==
    \A c \in Challenge : st[c] = "published" =>
        c \in local[on[c]] /\ (clock < until[c] => shared[c] = until[c])

\* A validation fails only if the store did, or the record has gone out of date by now, or
\* the query was answered at once by another machine than the one that issues,
\* which had records of its own for the name (dns-server.ts:62-80).
AnsweredUnlessShadowed ==
    [][\A c \in Challenge :
          st[c] = "published" /\ st'[c] \in {"invalid", "abandoned"} =>
             \/ used'.failures > used.failures
             \/ clock >= until[c]
             \/ query[c] = NoQuery /\ \E m \in Machine : m # on[c] /\ local[m] # {}]_vars

(***************************************************************************)
(* What comments of the code say, and the code does not do.                *)
(***************************************************************************)

\* s3-challenge-store.ts:29-31: "a validation query that the proxy load-balances to any
\* machine can be answered regardless of which machine is performing the issuance".
AnyMachineAnswers ==
    [][\A c \in Challenge :
          st[c] = "published" /\ st'[c] \in {"invalid", "abandoned"} =>
             used'.failures > used.failures \/ clock >= until[c]]_vars

=============================================================================
