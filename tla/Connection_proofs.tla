-------------------------- MODULE Connection_proofs --------------------------
(***************************************************************************)
(* Proofs about Connection, for any headers, protocols, requests, frames   *)
(* and sizes, cut into segments in any way.                                *)
(***************************************************************************)
EXTENDS Connection, FiniteSetTheorems, Sequences_proofs

-----------------------------------------------------------------------------
(***************************************************************************)
(* RawCapture                                                              *)
(***************************************************************************)
\* Where the requests on the wire end.
LEMMA RawEnds ==
    ASSUME rawWire \in Seq(Raw!Request)
    PROVE  /\ Raw!EndOf \in [0..Len(rawWire) -> Nat]
           /\ Raw!EndOf[0] = 0
           /\ \A q, r \in 0..Len(rawWire) : q <= r => Raw!EndOf[q] <= Raw!EndOf[r]
           /\ \A r \in 1..Len(rawWire) :
                 /\ rawWire[r].head \in Nat \ {0} /\ rawWire[r].body \in Nat
                 /\ Raw!EndOf[r] = Raw!EndOf[r - 1] + rawWire[r].head + rawWire[r].body
<1> DEFINE N == Len(rawWire)
           size == [r \in 1..N |-> Raw!Size(r)]
<1>1. \A r \in 1..N : rawWire[r] \in Raw!Request
  OBVIOUS
<1>2. \A r \in 1..N : rawWire[r].head \in Nat \ {0} /\ rawWire[r].body \in Nat
  BY <1>1 DEF Raw!Request
<1>3. size \in [1..N -> Nat] /\ N \in Nat /\ 0 \in Nat
  BY <1>2 DEF Raw!Size
<1>4. \A r \in 1..N : size[r] = Raw!Size(r)
  OBVIOUS
<1> HIDE DEF size
<1>5. PICK f \in [0..N -> Nat] : AreSums(f, N, 0, size)
  BY <1>3, SumsExist
<1>6. f = [r \in 0..N |-> IF r = 0 THEN 0 ELSE f[r - 1] + Raw!Size(r)]
  BY <1>3, <1>4, <1>5 DEF AreSums
<1>7. Raw!EndOf = [r \in 0..N |-> IF r = 0 THEN 0 ELSE Raw!EndOf[r - 1] + Raw!Size(r)]
  BY <1>6 DEF Raw!EndOf
<1> DEFINE E == Raw!EndOf
<1> HIDE DEF E
<1>8. AreSums(E, N, 0, size)
  BY <1>3, <1>4, <1>7 DEF E, AreSums
<1>9. E \in [0..N -> Nat]
  BY <1>3, <1>8, SumsGrow
<1>10. \A m, n \in 0..N : m <= n => E[m] <= E[n]
  BY <1>3, <1>8, SumsGrow
<1>11. E[0] = 0 /\ \A n \in 1..N : E[n] = E[n - 1] + size[n]
  BY <1>3, <1>8 DEF AreSums
<1>12. ASSUME NEW r \in 1..N PROVE E[r] = E[r - 1] + rawWire[r].head + rawWire[r].body
  <2>1. r - 1 \in 0..N
    BY <1>3
  <2>2. E[r - 1] \in Nat
    BY <1>9, <2>1
  <2> QED
    BY <1>2, <1>4, <1>11, <2>2 DEF Raw!Size
<1> QED
  BY <1>2, <1>9, <1>10, <1>11, <1>12 DEF E

\* The same, around one request.
LEMMA RawEndsAt ==
    ASSUME rawWire \in Seq(Raw!Request), NEW r \in Raw!Requests
    PROVE  /\ Raw!EndOf[r - 1] \in Nat /\ Raw!HeadEnd(r) \in Nat /\ Raw!EndOf[r] \in Nat
           /\ Raw!EndOf[r - 1] < Raw!HeadEnd(r) /\ Raw!HeadEnd(r) <= Raw!EndOf[r]
           /\ Raw!EndOf[Len(rawWire)] \in Nat /\ Raw!EndOf[r] <= Raw!EndOf[Len(rawWire)]
<1>1. r \in 1..Len(rawWire) /\ r - 1 \in 0..Len(rawWire) /\ Len(rawWire) \in 0..Len(rawWire)
  BY DEF Raw!Requests
<1>2. Raw!EndOf[r - 1] \in Nat /\ Raw!EndOf[r] \in Nat /\ Raw!EndOf[Len(rawWire)] \in Nat
  <2>1. Raw!EndOf \in [0..Len(rawWire) -> Nat]
    BY RawEnds
  <2> QED
    BY <1>1, <2>1 DEF Raw!Requests
<1>3. Raw!EndOf[r] <= Raw!EndOf[Len(rawWire)]
  BY <1>1, RawEnds
<1>4. /\ rawWire[r].head \in Nat \ {0} /\ rawWire[r].body \in Nat
      /\ Raw!EndOf[r] = Raw!EndOf[r - 1] + rawWire[r].head + rawWire[r].body
  BY <1>1, RawEnds
<1> QED
  BY <1>2, <1>3, <1>4 DEF Raw!HeadEnd

\* The first request begins at 0, and any other where the one before it ends.
LEMMA RawBegins ==
    ASSUME rawWire \in Seq(Raw!Request), NEW r \in Raw!Requests
    PROVE  IF r = 1 THEN Raw!EndOf[r - 1] = 0
           ELSE r - 1 \in Raw!Requests /\ r - 1 < r
<1>1. r \in 1..Len(rawWire)
  BY DEF Raw!Requests
<1>2. CASE r = 1
  BY <1>2, RawEnds
<1>3. CASE r # 1
  BY <1>1, <1>3 DEF Raw!Requests
<1> QED
  BY <1>2, <1>3

(***************************************************************************)
(* The invariant.                                                          *)
(***************************************************************************)
\* A request is reported with the last byte of its head.
HeadsReported ==
    \A r \in Raw!Requests : rawHandler[r] = "none" <=> rawReceived < Raw!HeadEnd(r)

\* Only what is on the wire comes in.
WireOnly == rawReceived <= Raw!EndOf[Len(rawWire)]

\* Only the echo waits for the other requests of a segment, and for a body.
EchoesWait ==
    \A r \in Raw!Requests :
        rawHandler[r] \in {"deferring", "buffering"} => rawWire[r].kind = "echo"

\* An answer is given as the echo returns.
AnswersLast ==
    \A r \in Raw!Requests :
        rawHandler[r] \in {"none", "running", "deferring", "buffering"} => echoed[r] = Undefined

\* Until an overlapped echo is decided, the connection counts as pipelining.
RefusedInTime ==
    \A r \in overlapped :
        /\ rawHandler[r] \in {"running", "deferring", "returning", "done"}
        /\ echoed[r] = Undefined
        /\ rawHandler[r] \in {"running", "deferring"} => pipelining

\* What is collected are the last bytes that have come in.
LastBytes ==
    receivedData # Undefined =>
        /\ Len(receivedData) <= rawReceived
        /\ \A p \in 1..Len(receivedData) : receivedData[p] = rawReceived - Len(receivedData) + p

\* A patient client begins a request when the earlier ones have been answered.
OneAtATime ==
    patient => \A q, r \in Raw!Requests :
        q < r /\ Raw!EndOf[r - 1] < rawReceived => rawHandler[q] = "done"

\* Its capture is stopped only while another endpoint is at work.
StoppedByOther ==
    patient /\ receivedData = Undefined =>
        \E q \in Raw!Requests : rawWire[q].kind = "other" /\ rawHandler[q] = "running"

\* All of an echo's request that has come in is collected.
OwnCollected ==
    \A r \in Raw!Requests :
        patient /\ rawWire[r].kind = "echo" /\ rawHandler[r] # "done"
            /\ Raw!EndOf[r - 1] < rawReceived
        => /\ receivedData # Undefined
           /\ rawReceived - Raw!EndOf[r - 1] <= Len(receivedData)

RawInv ==
    /\ Raw!TypeOK
    /\ HeadsReported /\ WireOnly /\ EchoesWait /\ AnswersLast /\ RefusedInTime
    /\ LastBytes /\ OneAtATime /\ StoppedByOther /\ OwnCollected /\ Raw!OwnBytesEchoed

(***************************************************************************)
(* Collecting.                                                             *)
(***************************************************************************)
\* A step that starts no other layer leaves the wire, and so where requests end.
LEMMA RawSameWire ==
    ASSUME rawWire' = rawWire
    PROVE  /\ Raw!EndOf' = Raw!EndOf
           /\ Raw!Requests' = Raw!Requests
           /\ \A r : Raw!HeadEnd(r)' = Raw!HeadEnd(r)
<1>1. Raw!EndOf' = Raw!EndOf
  BY DEF Raw!EndOf, Raw!Size
<1> QED
  BY <1>1 DEF Raw!Requests, Raw!HeadEnd

\* RawCapture's Cardinality is the Cardinality of FiniteSets.
LEMMA RawCardinality == \A S : Raw!Cardinality(S) = Cardinality(S)
BY DEF Raw!Cardinality, Cardinality

\* At boot nothing has come in (process-connection.ts:348-353).
LEMMA RawInitInv == Raw!Init => RawInv
<1> SUFFICES ASSUME Raw!Init PROVE RawInv
  OBVIOUS
<1>1. rawWire \in Seq(Raw!Request)
  BY RawData DEF Raw!Init, Raw!RequestsOnWire
<1>2. Raw!TypeOK
  <2>1. Raw!InHand = {}
    BY DEF Raw!Init, Raw!InHand
  <2>2. Cardinality({}) = 0
    BY FS_EmptySet
  <2>3. requestsInBatch = Cardinality(Raw!InHand)
    BY <2>1, <2>2 DEF Raw!Init
  <2>4. <<>> \in Seq(Nat)
    OBVIOUS
  <2> QED
    BY <2>3, <2>4, RawCardinality DEF Raw!Init, Raw!TypeOK
<1>3. HeadsReported
  <2> SUFFICES ASSUME NEW r \in Raw!Requests PROVE rawReceived < Raw!HeadEnd(r)
    BY DEF HeadsReported, Raw!Init
  <2> QED
    BY <1>1, RawEndsAt DEF Raw!Init
<1>4. WireOnly
  <2>1. Raw!EndOf \in [0..Len(rawWire) -> Nat] /\ Len(rawWire) \in 0..Len(rawWire)
    BY <1>1, RawEnds
  <2> QED
    BY <2>1 DEF WireOnly, Raw!Init
<1>5. OneAtATime /\ OwnCollected
  <2>1. \A r \in Raw!Requests : ~(Raw!EndOf[r - 1] < rawReceived)
    BY <1>1, RawEndsAt DEF Raw!Init
  <2> QED
    BY <2>1 DEF OneAtATime, OwnCollected
<1>6. LastBytes /\ StoppedByOther
  <2>1. <<>> \in Seq(Nat)
    OBVIOUS
  <2>2. receivedData = <<>> /\ receivedData # Undefined
    BY <2>1, RawData DEF Raw!Init, Raw!UndefinedIsNoData
  <2> QED
    BY <2>2 DEF LastBytes, StoppedByOther, Raw!Init
<1> QED
  BY <1>2, <1>3, <1>4, <1>5, <1>6
     DEF RawInv, Raw!Init, EchoesWait, AnswersLast, RefusedInTime, Raw!OwnBytesEchoed

\* The set of requests on the wire is finite, and so is that of the requests in hand.
LEMMA RawInHandFinite ==
    ASSUME rawWire \in Seq(Raw!Request)
    PROVE  IsFiniteSet(Raw!Requests) /\ IsFiniteSet(Raw!InHand) /\ Raw!Requests \subseteq Nat
<1>1. Len(rawWire) \in Nat /\ Raw!Requests = 1..Len(rawWire)
  BY DEF Raw!Requests
<1>2. IsFiniteSet(1..Len(rawWire))
  BY <1>1, FS_Interval
<1>3. Raw!InHand \subseteq Raw!Requests
  BY DEF Raw!InHand
<1>4. IsFiniteSet(Raw!InHand)
  BY <1>1, <1>2, <1>3, FS_Subset, Zenon
<1> QED
  BY <1>1, <1>2, <1>4

\* A segment that comes in starts the handlers of the requests whose heads it completes, and
\* is collected unless one of them stops this (process-connection.ts:348-353,
\* http-handler.ts:251-277).
LEMMA RawReceive ==
    ASSUME RawInv, NEW n \in Nat \ {0}, Raw!Receive(n)
    PROVE  RawInv'
<1> DEFINE new == {r \in Raw!Requests : rawReceived < Raw!HeadEnd(r) /\ Raw!HeadEnd(r) <= rawReceived + n}
           undecided == {r \in Raw!InHand : rawHandler[r] # "buffering"}
<1>1. /\ rawWire \in Seq(Raw!Request) /\ rawWire \in RawWires /\ rawReceived \in Nat
      /\ rawWire' = rawWire /\ patient' = patient /\ echoed' = echoed
      /\ rawReceived' = rawReceived + n
  BY RawData DEF RawInv, Raw!TypeOK, Raw!RequestsOnWire, Raw!Receive
<1>2. /\ Raw!EndOf' = Raw!EndOf /\ Raw!Requests' = Raw!Requests
      /\ \A r : Raw!HeadEnd(r)' = Raw!HeadEnd(r)
  BY <1>1, RawSameWire
<1>3. PICK first \in [new -> {"deferring", "running", "returning"}] :
          /\ \A r \in new : first[r] \in Raw!FirstStep(r)
          /\ rawHandler' = [r \in Raw!Requests |-> IF r \in new THEN first[r] ELSE rawHandler[r]]
  BY DEF Raw!Receive
<1>4. \A r \in new : rawHandler[r] = "none"
  BY DEF RawInv, HeadsReported
<1>5. \A r \in Raw!Requests : r \notin new => rawHandler'[r] = rawHandler[r]
  BY <1>3
<1>6. \A r \in new : rawHandler'[r] = first[r] /\ rawHandler'[r] \in {"deferring", "running", "returning"}
  BY <1>3
<1>7. \A r \in Raw!Requests :
         rawHandler[r] \in {"none", "running", "deferring", "buffering", "returning", "done"}
  BY DEF RawInv, Raw!TypeOK
<1>8. Raw!InHand' = Raw!InHand \cup new /\ Raw!InHand \cap new = {}
  BY <1>2, <1>4, <1>5, <1>6 DEF Raw!InHand
<1>9. new \in SUBSET Raw!Requests /\ IsFiniteSet(Raw!InHand) /\ IsFiniteSet(new)
  BY <1>1, RawInHandFinite, FS_Subset
<1> HIDE DEF new
<1>10. /\ Cardinality(new) \in Nat /\ Cardinality(Raw!InHand) \in Nat
       /\ Cardinality(Raw!InHand') = Cardinality(Raw!InHand) + Cardinality(new)
       /\ new # {} => Cardinality(new) > 0
  <2>1. Cardinality(new) \in Nat /\ Cardinality(Raw!InHand) \in Nat
    BY <1>9, FS_CardinalityType
  <2>2. Cardinality(Raw!InHand \cup new)
           = Cardinality(Raw!InHand) + Cardinality(new) - Cardinality(Raw!InHand \cap new)
    BY <1>9, FS_Union
  <2>3. Cardinality(Raw!InHand \cap new) = 0
    BY <1>8, FS_EmptySet
  <2>4. Cardinality(new) = 0 <=> new = {}
    BY <1>9, FS_EmptySet
  <2> QED
    BY <1>8, <2>1, <2>2, <2>3, <2>4
<1>11. /\ requestsInBatch = Cardinality(Raw!InHand)
       /\ requestsInBatch' = requestsInBatch + Cardinality(new)
       /\ pipelining' = (pipelining \/ (new # {} /\ requestsInBatch' > 1))
       /\ overlapped' = overlapped \cup
             IF new # {} /\ requestsInBatch' > 1 THEN new \cup undecided ELSE {}
       /\ Raw!Collect(n, new)
  BY RawCardinality DEF RawInv, Raw!TypeOK, Raw!Receive, new
<1>12. Raw!Settled /\ Raw!ClientSends(n)
  BY DEF Raw!Receive
<1>13. \A r \in Raw!Requests : rawHandler[r] \in {"none", "running", "buffering", "done"}
  BY <1>7, <1>12 DEF Raw!Settled
<1>14. /\ receivedData \in Seq(Nat) \cup {Undefined} /\ Undefined \notin Seq(Nat)
       /\ receivedData' = IF receivedData = Undefined \/ \E r \in new : rawWire[r].kind = "other"
                          THEN Undefined ELSE receivedData \o [p \in 1..n |-> rawReceived + p]
  BY <1>11, RawData DEF RawInv, Raw!TypeOK, Raw!Collect, Raw!UndefinedIsNoData
<1>15. receivedData # Undefined =>
          /\ receivedData \o [p \in 1..n |-> rawReceived + p] \in Seq(Nat)
          /\ Len(receivedData) \in Nat
          /\ Len(receivedData \o [p \in 1..n |-> rawReceived + p]) = Len(receivedData) + n
          /\ \A p \in 1..(Len(receivedData) + n) :
                (receivedData \o [p_1 \in 1..n |-> rawReceived + p_1])[p]
                   = IF p <= Len(receivedData) THEN receivedData[p]
                     ELSE rawReceived + (p - Len(receivedData))
  <2> SUFFICES ASSUME receivedData # Undefined
               PROVE  /\ receivedData \o [p \in 1..n |-> rawReceived + p] \in Seq(Nat)
                      /\ Len(receivedData) \in Nat
                      /\ Len(receivedData \o [p \in 1..n |-> rawReceived + p]) = Len(receivedData) + n
                      /\ \A p \in 1..(Len(receivedData) + n) :
                            (receivedData \o [p_1 \in 1..n |-> rawReceived + p_1])[p]
                               = IF p <= Len(receivedData) THEN receivedData[p]
                                 ELSE rawReceived + (p - Len(receivedData))
    OBVIOUS
  <2>1. receivedData \in Seq(Nat) /\ [p \in 1..n |-> rawReceived + p] \in Seq(Nat)
    BY <1>1, <1>14
  <2> QED
    BY <2>1
<1>16. Raw!TypeOK'
  <2>1. receivedData' \in Seq(Nat) \cup {Undefined}
    BY <1>14, <1>15
  <2>2. requestsInBatch' = Raw!Cardinality(Raw!InHand')
    BY <1>10, <1>11, RawCardinality
  <2>3. pipelining' \in BOOLEAN
    BY <1>11, Zenon
  <2>4. pipelining' => Raw!InHand' # {}
    BY <1>8, <1>11, Zenon DEF RawInv, Raw!TypeOK
  <2>5. rawHandler' \in [Raw!Requests -> {"none", "running", "deferring", "buffering", "returning", "done"}]
    BY <1>3, <1>6, <1>5, <1>7
  <2>6. overlapped' \subseteq Raw!Requests
    BY <1>9, <1>11 DEF RawInv, Raw!TypeOK, Raw!InHand
  <2> QED
    BY <1>1, <1>2, <2>1, <2>2, <2>3, <2>4, <2>5, <2>6 DEF RawInv, Raw!TypeOK
<1>17. HeadsReported'
  <2> SUFFICES ASSUME NEW r \in Raw!Requests
               PROVE  rawHandler'[r] = "none" <=> rawReceived + n < Raw!HeadEnd(r)
    BY <1>1, <1>2 DEF HeadsReported
  <2>1. Raw!HeadEnd(r) \in Nat /\ (rawHandler[r] = "none" <=> rawReceived < Raw!HeadEnd(r))
    BY <1>1, RawEndsAt DEF RawInv, HeadsReported
  <2>2. r \in new <=> rawReceived < Raw!HeadEnd(r) /\ Raw!HeadEnd(r) <= rawReceived + n
    BY DEF new
  <2> QED
    BY <1>1, <1>5, <1>6, <2>1, <2>2
<1>18. WireOnly'
  BY <1>1, <1>2, <1>12 DEF WireOnly, Raw!ClientSends
<1>19. \A r \in new : /\ rawHandler'[r] = "deferring" => rawWire[r].kind = "echo"
                      /\ rawWire[r].kind = "other" => rawHandler'[r] = "running"
  <2> SUFFICES ASSUME NEW r \in new
               PROVE  /\ first[r] = "deferring" => rawWire[r].kind = "echo"
                      /\ rawWire[r].kind = "other" => first[r] = "running"
    BY <1>6
  <2>1. rawWire[r].kind \in Raw!Kinds
    <3>1. rawWire[r] \in Raw!Request
      BY <1>1, <1>9 DEF Raw!Requests
    <3> QED
      BY <3>1 DEF Raw!Request
  <2>2. first[r] \in Raw!FirstStep(r)
    BY <1>3 DEF new
  <2> QED
    BY <2>1, <2>2 DEF Raw!Kinds, Raw!FirstStep
<1>20. EchoesWait'
  <2> SUFFICES ASSUME NEW r \in Raw!Requests, rawHandler'[r] \in {"deferring", "buffering"}
               PROVE  rawWire[r].kind = "echo"
    BY <1>1, <1>2 DEF EchoesWait
  <2>1. CASE r \in new
    BY <1>6, <1>19, <2>1
  <2>2. CASE r \notin new
    BY <1>5, <2>2 DEF RawInv, EchoesWait
  <2> QED
    BY <2>1, <2>2
<1>21. AnswersLast'
  BY <1>1, <1>2, <1>4, <1>5, <1>9 DEF RawInv, AnswersLast
<1>22. RefusedInTime'
  <2> SUFFICES ASSUME NEW r \in overlapped'
               PROVE  /\ rawHandler'[r] \in {"running", "deferring", "returning", "done"}
                      /\ echoed[r] = Undefined
                      /\ rawHandler'[r] \in {"running", "deferring"} => pipelining'
    BY <1>1 DEF RefusedInTime
  <2>1. CASE r \in overlapped
    <3>1. /\ r \in Raw!Requests
          /\ rawHandler[r] \in {"running", "deferring", "returning", "done"}
          /\ echoed[r] = Undefined /\ (rawHandler[r] \in {"running", "deferring"} => pipelining)
      BY <2>1 DEF RawInv, RefusedInTime, Raw!TypeOK
    <3>2. rawHandler'[r] = rawHandler[r]
      BY <1>4, <1>5, <3>1
    <3>3. pipelining => pipelining'
      BY <1>11, Zenon
    <3> QED
      BY <3>1, <3>2, <3>3
  <2>2. CASE r \notin overlapped
    <3>1. new # {} /\ requestsInBatch' > 1 /\ r \in new \cup undecided
      BY <1>11, <2>2
    <3>2. pipelining'
      BY <1>11, <3>1, Zenon
    <3>3. CASE r \in new
      BY <1>4, <1>6, <1>9, <3>2, <3>3 DEF RawInv, AnswersLast
    <3>4. CASE r \in undecided /\ r \notin new
      <4>1. r \in Raw!Requests /\ rawHandler[r] = "running"
        BY <1>13, <3>4 DEF Raw!InHand
      <4> QED
        BY <1>5, <3>2, <3>4, <4>1 DEF RawInv, AnswersLast
    <3> QED
      BY <3>1, <3>3, <3>4
  <2> QED
    BY <2>1, <2>2
<1>23. LastBytes'
  <2> SUFFICES ASSUME receivedData' # Undefined
               PROVE  /\ Len(receivedData') <= rawReceived'
                      /\ \A p \in 1..Len(receivedData') :
                            receivedData'[p] = rawReceived' - Len(receivedData') + p
    BY DEF LastBytes
  <2>1. /\ receivedData # Undefined
        /\ receivedData' = receivedData \o [p \in 1..n |-> rawReceived + p]
    BY <1>14
  <2>2. /\ Len(receivedData) \in Nat /\ Len(receivedData) <= rawReceived
        /\ \A p \in 1..Len(receivedData) : receivedData[p] = rawReceived - Len(receivedData) + p
    BY <1>15, <2>1 DEF RawInv, LastBytes
  <2>3. Len(receivedData') = Len(receivedData) + n
    BY <1>15, <2>1
  <2>4. ASSUME NEW p \in 1..(Len(receivedData) + n)
        PROVE  receivedData'[p] = rawReceived' - Len(receivedData') + p
    <3>1. receivedData'[p] = IF p <= Len(receivedData) THEN receivedData[p]
                             ELSE rawReceived + (p - Len(receivedData))
      BY <1>15, <2>1
    <3> QED
      BY <1>1, <2>2, <2>3, <3>1
  <2> QED
    BY <1>1, <2>2, <2>3, <2>4
<1>24. ASSUME patient, NEW q \in Raw!Requests, NEW r \in Raw!Requests, q < r,
              Raw!EndOf[r - 1] < rawReceived + n
       PROVE  rawHandler[q] = "done" /\ q \notin new /\ Raw!EndOf[q] <= rawReceived
  <2>1. q \in 1..(r - 1)
    BY <1>1, <1>24 DEF Raw!Requests
  <2>2. rawHandler[q] = "done" /\ Raw!EndOf[q] <= rawReceived
    BY <1>12, <1>24, <2>1 DEF Raw!ClientSends
  <2> QED
    BY <1>4, <2>2
<1>25. OneAtATime'
  BY <1>1, <1>2, <1>5, <1>24 DEF OneAtATime
<1>26. StoppedByOther'
  <2> SUFFICES ASSUME patient, receivedData' = Undefined
               PROVE  \E q \in Raw!Requests : rawWire[q].kind = "other" /\ rawHandler'[q] = "running"
    BY <1>1, <1>2 DEF StoppedByOther
  <2>1. CASE receivedData = Undefined
    <3>1. PICK q \in Raw!Requests : rawWire[q].kind = "other" /\ rawHandler[q] = "running"
      BY <2>1 DEF RawInv, StoppedByOther
    <3> QED
      BY <1>4, <1>5, <3>1
  <2>2. CASE receivedData # Undefined
    <3>1. PICK q \in new : rawWire[q].kind = "other"
      BY <1>14, <1>15, <2>2
    <3> QED
      BY <1>9, <1>19, <3>1
  <2> QED
    BY <2>1, <2>2
<1>27. OwnCollected'
  <2> SUFFICES ASSUME patient, NEW r \in Raw!Requests, rawWire[r].kind = "echo",
                      rawHandler'[r] # "done", Raw!EndOf[r - 1] < rawReceived + n
               PROVE  /\ receivedData' # Undefined
                      /\ rawReceived' - Raw!EndOf[r - 1] <= Len(receivedData')
    BY <1>1, <1>2, Zenon DEF OwnCollected
  <2>1. rawHandler[r] # "done"
    BY <1>4, <1>5
  <2>2. ASSUME NEW q \in Raw!Requests, q # r, Raw!EndOf[q - 1] < rawReceived + n
        PROVE  q < r
    <3>1. q \in Nat /\ r \in Nat
      BY <1>1, RawInHandFinite
    <3> QED
      BY <1>24, <2>1, <2>2, <3>1
  <2>3. \A q \in new : q = r
    <3> SUFFICES ASSUME NEW q \in new, q # r PROVE FALSE
      OBVIOUS
    <3>1. /\ q \in Raw!Requests
          /\ Raw!EndOf[q - 1] \in Nat /\ Raw!HeadEnd(q) \in Nat
          /\ Raw!EndOf[q - 1] < Raw!HeadEnd(q) /\ Raw!HeadEnd(q) <= rawReceived + n
      BY <1>1, <1>9, RawEndsAt DEF new
    <3>2. q < r
      BY <1>1, <2>2, <3>1
    <3> QED
      BY <1>24, <3>1, <3>2
  <2>4. receivedData # Undefined /\ rawReceived - Raw!EndOf[r - 1] <= Len(receivedData)
    <3>1. CASE Raw!EndOf[r - 1] < rawReceived
      BY <2>1, <3>1 DEF RawInv, OwnCollected
    <3>2. CASE ~(Raw!EndOf[r - 1] < rawReceived)
      <4>1. Raw!EndOf[r - 1] \in Nat /\ rawReceived <= Raw!EndOf[r - 1]
        BY <1>1, <3>2, RawEndsAt
      <4>2. Raw!EndOf[r - 1] <= rawReceived
        <5>1. CASE r = 1
          BY <1>1, <5>1, RawBegins
        <5>2. CASE r # 1
          <6>1. r - 1 \in Raw!Requests /\ r - 1 < r
            BY <1>1, <5>2, RawBegins
          <6> QED
            BY <1>24, <6>1
        <5> QED
          BY <5>1, <5>2
      <4>3. ASSUME receivedData = Undefined PROVE FALSE
        <5>1. PICK q \in Raw!Requests : rawWire[q].kind = "other" /\ rawHandler[q] = "running"
          BY <4>3 DEF RawInv, StoppedByOther
        <5>2. /\ Raw!EndOf[q - 1] \in Nat /\ Raw!HeadEnd(q) \in Nat
              /\ Raw!EndOf[q - 1] < Raw!HeadEnd(q) /\ Raw!HeadEnd(q) <= rawReceived
          BY <1>1, <5>1, RawEndsAt DEF RawInv, HeadsReported
        <5>3. q < r
          BY <1>1, <2>2, <5>1, <5>2
        <5> QED
          BY <1>24, <5>1, <5>3
      <4> QED
        BY <1>1, <1>14, <4>1, <4>2, <4>3
    <3> QED
      BY <3>1, <3>2
  <2>5. receivedData' = receivedData \o [p \in 1..n |-> rawReceived + p]
    BY <1>14, <2>3, <2>4
  <2>6. receivedData' # Undefined /\ Len(receivedData') = Len(receivedData) + n
    BY <1>14, <1>15, <2>4, <2>5
  <2> QED
    BY <1>1, <1>15, <2>4, <2>6, RawEndsAt
<1>28. Raw!OwnBytesEchoed'
  <2>1. \A r : Raw!OwnBytes(r)' = Raw!OwnBytes(r)
    BY <1>2 DEF Raw!OwnBytes
  <2> QED
    BY <1>1, <1>2, <2>1 DEF RawInv, Raw!OwnBytesEchoed
<1> QED
  BY <1>16, <1>17, <1>18, <1>20, <1>21, <1>22, <1>23, <1>25, <1>26, <1>27, <1>28 DEF RawInv

(***************************************************************************)
(* Handling.                                                               *)
(***************************************************************************)
\* A handler that goes on changes nothing about what has come in (http-handler.ts:251-295).
LEMMA RawMove ==
    ASSUME RawInv, NEW r \in Raw!Requests, rawHandler[r] \notin {"none", "done"},
           NEW to \in {"deferring", "buffering", "returning", "done"}, Raw!Move(r, to),
           UNCHANGED <<rawWire, patient, rawReceived>>
    PROVE  /\ rawWire \in Seq(Raw!Request)
           /\ Raw!EndOf' = Raw!EndOf /\ Raw!Requests' = Raw!Requests
           /\ rawHandler' \in [Raw!Requests ->
                  {"none", "running", "deferring", "buffering", "returning", "done"}]
           /\ rawHandler'[r] = to
           /\ \A q \in Raw!Requests : q # r => rawHandler'[q] = rawHandler[q]
           /\ HeadsReported' /\ WireOnly' /\ OneAtATime'
<1>1. rawWire \in Seq(Raw!Request)
  BY RawData DEF RawInv, Raw!TypeOK, Raw!RequestsOnWire
<1>2. /\ Raw!EndOf' = Raw!EndOf /\ Raw!Requests' = Raw!Requests
      /\ \A q : Raw!HeadEnd(q)' = Raw!HeadEnd(q)
  BY RawSameWire
<1>3. /\ rawHandler' \in [Raw!Requests ->
             {"none", "running", "deferring", "buffering", "returning", "done"}]
      /\ rawHandler'[r] = to
      /\ \A q \in Raw!Requests : q # r => rawHandler'[q] = rawHandler[q]
  BY DEF RawInv, Raw!TypeOK, Raw!Move
<1>4. \A q \in Raw!Requests : rawHandler'[q] = "none" <=> rawHandler[q] = "none"
  BY <1>3
<1>5. HeadsReported'
  BY <1>2, <1>4 DEF RawInv, HeadsReported
<1>6. WireOnly'
  BY <1>2 DEF RawInv, WireOnly
<1>7. OneAtATime'
  BY <1>2, <1>3 DEF RawInv, OneAtATime
<1> QED
  BY <1>1, <1>2, <1>3, <1>5, <1>6, <1>7

\* An echo that goes on stays in hand, and has no answer until it returns (echo.ts:146-152).
LEMMA RawEchoMove ==
    ASSUME RawInv, NEW r \in Raw!Requests,
           \/ Raw!StartEcho(r)
           \/ Raw!CheckPipelining(r)
    PROVE  RawInv'
<1>1. PICK to \in {"deferring", "buffering", "returning"} :
          /\ Raw!Move(r, to)
          /\ rawHandler[r] = "running" => to = "deferring" /\ rawWire[r].kind = "echo"
          /\ rawHandler[r] # "running" => to # "deferring" /\ (pipelining => to = "returning")
  BY DEF Raw!StartEcho, Raw!CheckPipelining
<1>2. /\ rawHandler[r] \in {"running", "deferring"}
      /\ UNCHANGED <<rawWire, patient, rawReceived, receivedData, requestsInBatch, pipelining,
                     echoed, overlapped>>
  BY DEF Raw!StartEcho, Raw!CheckPipelining
<1>3. /\ rawWire \in Seq(Raw!Request)
      /\ Raw!EndOf' = Raw!EndOf /\ Raw!Requests' = Raw!Requests
      /\ rawHandler' \in [Raw!Requests ->
             {"none", "running", "deferring", "buffering", "returning", "done"}]
      /\ rawHandler'[r] = to
      /\ \A q \in Raw!Requests : q # r => rawHandler'[q] = rawHandler[q]
      /\ HeadsReported' /\ WireOnly' /\ OneAtATime'
  BY <1>1, <1>2, RawMove
<1>4. Raw!InHand' = Raw!InHand
  BY <1>2, <1>3 DEF Raw!InHand
<1>5. Raw!TypeOK'
  BY <1>2, <1>3, <1>4 DEF RawInv, Raw!TypeOK
<1>6. rawWire[r].kind = "echo"
  BY <1>1, <1>2 DEF RawInv, EchoesWait
<1>7. EchoesWait'
  BY <1>2, <1>3, <1>6 DEF RawInv, EchoesWait
<1>8. AnswersLast'
  BY <1>2, <1>3 DEF RawInv, AnswersLast
<1>9. RefusedInTime'
  <2> SUFFICES ASSUME NEW q \in overlapped
               PROVE  /\ rawHandler'[q] \in {"running", "deferring", "returning", "done"}
                      /\ echoed[q] = Undefined
                      /\ rawHandler'[q] \in {"running", "deferring"} => pipelining
    BY <1>2 DEF RefusedInTime
  <2>1. /\ q \in Raw!Requests
        /\ rawHandler[q] \in {"running", "deferring", "returning", "done"}
        /\ echoed[q] = Undefined /\ (rawHandler[q] \in {"running", "deferring"} => pipelining)
    BY DEF RawInv, RefusedInTime, Raw!TypeOK
  <2>2. CASE q = r
    <3>1. pipelining
      BY <1>2, <2>1, <2>2
    <3>2. rawHandler'[q] = to /\ to \in {"deferring", "returning"}
      BY <1>1, <1>3, <2>2, <3>1
    <3> QED
      BY <2>1, <3>1, <3>2
  <2>3. CASE q # r
    BY <1>3, <2>1, <2>3
  <2> QED
    BY <2>2, <2>3
<1>10. LastBytes' /\ Raw!OwnBytesEchoed'
  <2>1. \A q : Raw!OwnBytes(q)' = Raw!OwnBytes(q)
    BY <1>3 DEF Raw!OwnBytes
  <2>2. Raw!OwnBytesEchoed'
    BY <1>2, <1>3, <2>1 DEF RawInv, Raw!OwnBytesEchoed
  <2> QED
    BY <1>2, <2>2 DEF RawInv, LastBytes
<1>11. StoppedByOther'
  BY <1>2, <1>3, <1>6 DEF RawInv, StoppedByOther
<1>12. OwnCollected'
  BY <1>2, <1>3 DEF RawInv, OwnCollected
<1> QED
  BY <1>3, <1>5, <1>7, <1>8, <1>9, <1>10, <1>11, <1>12 DEF RawInv

\* The end of a sequence of consecutive numbers is what it looks like.
LEMMA LastOnes ==
    ASSUME NEW s \in Seq(Nat), NEW b \in Nat, NEW e \in Nat, b <= e,
           e - b <= Len(s), Len(s) <= e,
           \A p \in 1..Len(s) : s[p] = e - Len(s) + p
    PROVE  SubSeq(s, Len(s) - (e - b) + 1, Len(s)) = [p \in 1..(e - b) |-> b + p]
<1> DEFINE L == Len(s)
           k == e - b
           m == L - k + 1
<1>1. L \in Nat /\ L = Len(s) /\ k \in Nat /\ m \in Nat \ {0} /\ m <= L + 1
  OBVIOUS
<1>2. SubSeq(s, m, L) = [p \in 1..(1 + L - m) |-> s[m + p - 1]]
  <2> HIDE DEF L, m
  <2> QED
    BY <1>1
<1>3. 1 + L - m = k
  BY <1>1
<1>4. ASSUME NEW p \in 1..k PROVE s[m + p - 1] = b + p
  <2>1. m + p - 1 \in 1..L
    BY <1>1
  <2>2. s[m + p - 1] = e - L + (m + p - 1)
    BY <2>1
  <2> QED
    BY <1>1, <2>2
<1> QED
  BY <1>2, <1>3, <1>4

\* A patient client's echo whose body has come in answers with the request itself in the end
\* of what has been collected (echo.ts:153-160).
LEMMA RawOwnAnswer ==
    ASSUME RawInv, patient, NEW r \in Raw!Requests, rawHandler[r] = "buffering",
           Raw!EndOf[r] <= rawReceived
    PROVE  /\ receivedData \in Seq(Nat) /\ receivedData # Undefined
           /\ Len(Raw!OwnBytes(r)) <= Len(receivedData)
           /\ SubSeq(receivedData, Len(receivedData) - Len(Raw!OwnBytes(r)) + 1, Len(receivedData))
                 = Raw!OwnBytes(r)
<1>1. rawWire \in Seq(Raw!Request) /\ rawReceived \in Nat
  BY RawData DEF RawInv, Raw!TypeOK, Raw!RequestsOnWire
<1>2. /\ Raw!EndOf[r - 1] \in Nat /\ Raw!EndOf[r] \in Nat /\ Raw!EndOf[r - 1] < Raw!EndOf[r]
  BY <1>1, RawEndsAt
<1>3. /\ receivedData # Undefined /\ rawReceived - Raw!EndOf[r - 1] <= Len(receivedData)
  BY <1>1, <1>2 DEF RawInv, EchoesWait, OwnCollected
<1>4. /\ receivedData \in Seq(Nat) /\ Len(receivedData) \in Nat /\ Len(receivedData) <= rawReceived
      /\ \A p \in 1..Len(receivedData) : receivedData[p] = rawReceived - Len(receivedData) + p
  BY <1>3 DEF RawInv, Raw!TypeOK, LastBytes
<1>5. rawReceived = Raw!EndOf[r]
  <2>1. CASE r = Len(rawWire)
    BY <1>1, <1>2, <2>1 DEF RawInv, WireOnly
  <2>2. CASE r # Len(rawWire)
    <3>1. r + 1 \in Raw!Requests /\ r < r + 1 /\ (r + 1) - 1 = r
      BY <1>1, <2>2 DEF Raw!Requests
    <3>2. ~(Raw!EndOf[r] < rawReceived)
      BY <3>1 DEF RawInv, OneAtATime
    <3> QED
      BY <1>1, <1>2, <3>2
  <2> QED
    BY <2>1, <2>2
<1> DEFINE b == Raw!EndOf[r - 1]
           e == Raw!EndOf[r]
<1>6. /\ b \in Nat /\ e \in Nat /\ b <= e /\ e - b \in Nat
      /\ e - b <= Len(receivedData) /\ Len(receivedData) <= e
      /\ \A p \in 1..Len(receivedData) : receivedData[p] = e - Len(receivedData) + p
  BY <1>2, <1>3, <1>4, <1>5
<1>7. Raw!OwnBytes(r) = [p \in 1..(e - b) |-> b + p]
  BY DEF Raw!OwnBytes
<1> HIDE DEF b, e
<1>8. Len(Raw!OwnBytes(r)) = e - b
  BY <1>6, <1>7
<1>9. SubSeq(receivedData, Len(receivedData) - (e - b) + 1, Len(receivedData)) = Raw!OwnBytes(r)
  BY <1>4, <1>6, <1>7, LastOnes
<1> QED
  BY <1>3, <1>4, <1>6, <1>8, <1>9

\* The answer of an echo (echo.ts:153-175).
LEMMA RawAnswer ==
    ASSUME RawInv, NEW r \in Raw!Requests, Raw!Answer(r)
    PROVE  RawInv'
<1>1. /\ rawHandler[r] = "buffering" /\ Raw!EndOf[r] <= rawReceived
      /\ Raw!Move(r, "returning")
      /\ echoed' = [echoed EXCEPT ![r] = IF receivedData = Undefined THEN <<>> ELSE receivedData]
      /\ UNCHANGED <<rawWire, patient, rawReceived, receivedData, requestsInBatch, pipelining,
                     overlapped>>
  BY DEF Raw!Answer
<1>2. /\ rawWire \in Seq(Raw!Request)
      /\ Raw!EndOf' = Raw!EndOf /\ Raw!Requests' = Raw!Requests
      /\ rawHandler' \in [Raw!Requests ->
             {"none", "running", "deferring", "buffering", "returning", "done"}]
      /\ rawHandler'[r] = "returning"
      /\ \A q \in Raw!Requests : q # r => rawHandler'[q] = rawHandler[q]
      /\ HeadsReported' /\ WireOnly' /\ OneAtATime'
  BY <1>1, RawMove
<1>3. Raw!InHand' = Raw!InHand
  BY <1>1, <1>2 DEF Raw!InHand
<1>4. /\ echoed' \in [Raw!Requests -> Seq(Nat) \cup {Undefined}]
      /\ echoed'[r] = IF receivedData = Undefined THEN <<>> ELSE receivedData
      /\ \A q \in Raw!Requests : q # r => echoed'[q] = echoed[q]
  <2>1. <<>> \in Seq(Nat)
    OBVIOUS
  <2> QED
    BY <1>1, <2>1 DEF RawInv, Raw!TypeOK
<1>5. Raw!TypeOK'
  BY <1>1, <1>2, <1>3, <1>4 DEF RawInv, Raw!TypeOK
<1>6. EchoesWait'
  BY <1>1, <1>2 DEF RawInv, EchoesWait
<1>7. AnswersLast'
  BY <1>1, <1>2, <1>4 DEF RawInv, AnswersLast
<1>8. RefusedInTime'
  <2> SUFFICES ASSUME NEW q \in overlapped
               PROVE  /\ rawHandler'[q] \in {"running", "deferring", "returning", "done"}
                      /\ echoed'[q] = Undefined
                      /\ rawHandler'[q] \in {"running", "deferring"} => pipelining
    BY <1>1 DEF RefusedInTime
  <2>1. /\ q \in Raw!Requests
        /\ rawHandler[q] \in {"running", "deferring", "returning", "done"}
        /\ echoed[q] = Undefined /\ (rawHandler[q] \in {"running", "deferring"} => pipelining)
    BY DEF RawInv, RefusedInTime, Raw!TypeOK
  <2>2. q # r
    BY <1>1, <2>1
  <2> QED
    BY <1>2, <1>4, <2>1, <2>2
<1>9. LastBytes'
  BY <1>1 DEF RawInv, LastBytes
<1>10. Raw!OwnBytesEchoed'
  <2>1. \A q : Raw!OwnBytes(q)' = Raw!OwnBytes(q)
    BY <1>2 DEF Raw!OwnBytes
  <2> SUFFICES ASSUME patient, NEW q \in Raw!Requests, echoed'[q] # Undefined
               PROVE  /\ Len(Raw!OwnBytes(q)) <= Len(echoed'[q])
                      /\ SubSeq(echoed'[q], Len(echoed'[q]) - Len(Raw!OwnBytes(q)) + 1, Len(echoed'[q]))
                            = Raw!OwnBytes(q)
    BY <1>1, <1>2, <2>1, Zenon DEF Raw!OwnBytesEchoed
  <2>2. CASE q = r
    BY <1>1, <1>4, <2>2, RawOwnAnswer
  <2>3. CASE q # r
    BY <1>4, <2>3 DEF RawInv, Raw!OwnBytesEchoed
  <2> QED
    BY <2>2, <2>3
<1>11. StoppedByOther'
  BY <1>1, <1>2 DEF RawInv, StoppedByOther
<1>12. OwnCollected'
  BY <1>1, <1>2 DEF RawInv, OwnCollected
<1> QED
  BY <1>2, <1>5, <1>6, <1>7, <1>8, <1>9, <1>10, <1>11, <1>12 DEF RawInv

\* A request that is done leaves the collection empty, and pipelining as it is for those still
\* in hand (http-handler.ts:288-295).
LEMMA RawReturn ==
    ASSUME RawInv, NEW r \in Raw!Requests, Raw!Return(r)
    PROVE  RawInv'
<1>1. /\ rawHandler[r] \in {"running", "returning"}
      /\ Raw!Move(r, "done")
      /\ receivedData' = <<>>
      /\ requestsInBatch' = requestsInBatch - 1
      /\ pipelining' = (pipelining /\ requestsInBatch' # 0)
      /\ UNCHANGED <<rawWire, patient, rawReceived, echoed, overlapped>>
  BY DEF Raw!Return, Raw!Reset
<1>2. /\ rawWire \in Seq(Raw!Request)
      /\ Raw!EndOf' = Raw!EndOf /\ Raw!Requests' = Raw!Requests
      /\ rawHandler' \in [Raw!Requests ->
             {"none", "running", "deferring", "buffering", "returning", "done"}]
      /\ rawHandler'[r] = "done"
      /\ \A q \in Raw!Requests : q # r => rawHandler'[q] = rawHandler[q]
      /\ HeadsReported' /\ WireOnly' /\ OneAtATime'
  BY <1>1, RawMove
<1>3. Raw!InHand' = Raw!InHand \ {r} /\ r \in Raw!InHand
  BY <1>1, <1>2 DEF Raw!InHand
<1>4. /\ IsFiniteSet(Raw!InHand') /\ Cardinality(Raw!InHand') = requestsInBatch'
      /\ requestsInBatch' = 0 <=> Raw!InHand' = {}
  <2>1. IsFiniteSet(Raw!InHand) /\ requestsInBatch = Cardinality(Raw!InHand)
    BY <1>2, RawInHandFinite, RawCardinality DEF RawInv, Raw!TypeOK
  <2>2. IsFiniteSet(Raw!InHand') /\ Cardinality(Raw!InHand') = Cardinality(Raw!InHand) - 1
    BY <1>3, <2>1, FS_RemoveElement
  <2>3. Cardinality(Raw!InHand') = 0 <=> Raw!InHand' = {}
    BY <2>2, FS_EmptySet
  <2> QED
    BY <1>1, <2>1, <2>2, <2>3
<1>5. <<>> \in Seq(Nat) /\ receivedData' # Undefined /\ Len(receivedData') = 0
  <2>1. <<>> \in Seq(Nat) /\ Len(<<>>) = 0
    OBVIOUS
  <2> QED
    BY <1>1, <2>1, RawData DEF Raw!UndefinedIsNoData
<1>6. Raw!TypeOK'
  <2>1. requestsInBatch' = Raw!Cardinality(Raw!InHand')
    BY <1>4, RawCardinality
  <2>2. pipelining' \in BOOLEAN
    BY <1>1, Zenon
  <2>3. pipelining' => Raw!InHand' # {}
    BY <1>1, <1>4, Zenon
  <2> QED
    BY <1>1, <1>2, <1>5, <2>1, <2>2, <2>3 DEF RawInv, Raw!TypeOK
<1>7. EchoesWait'
  BY <1>1, <1>2 DEF RawInv, EchoesWait
<1>8. AnswersLast'
  BY <1>1, <1>2 DEF RawInv, AnswersLast
<1>9. RefusedInTime'
  <2> SUFFICES ASSUME NEW q \in overlapped
               PROVE  /\ rawHandler'[q] \in {"running", "deferring", "returning", "done"}
                      /\ echoed[q] = Undefined
                      /\ rawHandler'[q] \in {"running", "deferring"} => pipelining'
    BY <1>1 DEF RefusedInTime
  <2>1. /\ q \in Raw!Requests
        /\ rawHandler[q] \in {"running", "deferring", "returning", "done"}
        /\ echoed[q] = Undefined /\ (rawHandler[q] \in {"running", "deferring"} => pipelining)
    BY DEF RawInv, RefusedInTime, Raw!TypeOK
  <2>2. CASE q = r
    BY <1>2, <2>1, <2>2
  <2>3. CASE q # r
    <3>1. rawHandler'[q] = rawHandler[q]
      BY <1>2, <2>1, <2>3
    <3>2. ASSUME rawHandler[q] \in {"running", "deferring"} PROVE pipelining'
      <4>1. q \in Raw!InHand'
        BY <1>2, <2>1, <2>3, <3>2 DEF Raw!InHand
      <4>2. requestsInBatch' # 0
        BY <1>4, <4>1
      <4> QED
        BY <1>1, <2>1, <3>2, <4>2, Zenon
    <3> QED
      BY <2>1, <3>1, <3>2
  <2> QED
    BY <2>2, <2>3
<1>10. LastBytes'
  BY <1>1, <1>2, <1>5 DEF RawInv, Raw!TypeOK, LastBytes
<1>11. Raw!OwnBytesEchoed'
  <2>1. \A q : Raw!OwnBytes(q)' = Raw!OwnBytes(q)
    BY <1>2 DEF Raw!OwnBytes
  <2> QED
    BY <1>1, <1>2, <2>1 DEF RawInv, Raw!OwnBytesEchoed
<1>12. StoppedByOther'
  BY <1>5 DEF StoppedByOther
<1>13. OwnCollected'
  <2> SUFFICES ASSUME patient, NEW q \in Raw!Requests, rawHandler'[q] # "done",
                      Raw!EndOf[q - 1] < rawReceived
               PROVE  FALSE
    BY <1>1, <1>2, Zenon DEF OwnCollected
  <2>1. q # r /\ rawHandler[q] # "done" /\ q \in Nat /\ r \in Nat
    BY <1>2, RawInHandFinite
  <2>2. CASE r < q
    BY <1>1, <2>2 DEF RawInv, OneAtATime
  <2>3. CASE q < r
    <3>1. /\ Raw!EndOf[r - 1] \in Nat /\ Raw!HeadEnd(r) \in Nat /\ rawReceived \in Nat
          /\ Raw!EndOf[r - 1] < Raw!HeadEnd(r) /\ ~(rawReceived < Raw!HeadEnd(r))
      BY <1>1, <1>2, RawEndsAt DEF RawInv, HeadsReported, Raw!TypeOK
    <3>2. Raw!EndOf[r - 1] < rawReceived
      BY <3>1
    <3> QED
      BY <2>1, <2>3, <3>2 DEF RawInv, OneAtATime
  <2> QED
    BY <2>1, <2>2, <2>3
<1> QED
  BY <1>2, <1>6, <1>7, <1>8, <1>9, <1>10, <1>11, <1>12, <1>13 DEF RawInv

\* Every step of the connection keeps the invariant of the raw capture.
LEMMA RawNextInv == RawInv /\ [ConnectionNext]_connectionVars => RawInv'
<1> SUFFICES ASSUME RawInv, [ConnectionNext]_connectionVars PROVE RawInv'
  OBVIOUS
<1>1. CASE InRaw
  <2>1. CASE \E n \in 1..Raw!EndOf[Len(rawWire)] : Raw!Receive(n)
    <3>1. rawWire \in Seq(Raw!Request)
      BY RawData DEF RawInv, Raw!TypeOK, Raw!RequestsOnWire
    <3>2. Raw!EndOf[Len(rawWire)] \in Nat
      BY <3>1, RawEnds
    <3> QED
      BY <2>1, <3>2, RawReceive
  <2>2. CASE \E r \in Raw!Requests : Raw!StartEcho(r) \/ Raw!CheckPipelining(r)
    BY <2>2, RawEchoMove
  <2>3. CASE \E r \in Raw!Requests : Raw!Answer(r)
    BY <2>3, RawAnswer
  <2>4. CASE \E r \in Raw!Requests : Raw!Return(r)
    BY <2>4, RawReturn
  <2> QED
    BY <1>1, <2>1, <2>2, <2>3, <2>4 DEF InRaw, Raw!Next
<1>2. CASE UNCHANGED rawVars
  <2>1. /\ Raw!EndOf' = Raw!EndOf /\ Raw!Requests' = Raw!Requests
        /\ \A r : Raw!HeadEnd(r)' = Raw!HeadEnd(r)
    BY <1>2, RawSameWire DEF rawVars
  <2>2. Raw!InHand' = Raw!InHand /\ \A r : Raw!OwnBytes(r)' = Raw!OwnBytes(r)
    BY <1>2, <2>1 DEF rawVars, Raw!InHand, Raw!OwnBytes
  <2>3. Raw!TypeOK' /\ Raw!OwnBytesEchoed'
    BY <1>2, <2>1, <2>2 DEF rawVars, RawInv, Raw!TypeOK, Raw!OwnBytesEchoed
  <2> QED
    BY <1>2, <2>1, <2>3 DEF rawVars, RawInv, HeadsReported, WireOnly, EchoesWait, AnswersLast,
          RefusedInTime, LastBytes, OneAtATime, StoppedByOther, OwnCollected
<1> QED
  BY <1>1, <1>2 DEF ConnectionNext, InSniff, InFrames, connectionVars

\* Of a connection on which any client sends any requests, the raw capture is as RawInv says.
THEOREM RawInvariant == ConnectionSpec => []RawInv
<1>1. ConnectionInit => RawInv
  BY RawInitInv DEF ConnectionInit
<1> QED
  BY <1>1, RawNextInv, PTL DEF ConnectionSpec

\* An echo that was overlapped before it was decided is always refused.
THEOREM PipeliningRefused == ConnectionSpec => []PipelinedRefused
<1>1. RawInv => PipelinedRefused
  BY DEF RawInv, RefusedInTime, PipelinedRefused, Raw!PipelinedRefused
<1> QED
  BY <1>1, RawInvariant, PTL

\* The echo of a patient client's request always ends with the request.
THEOREM OwnEchoed == ConnectionSpec => []OwnBytesEchoed
<1>1. RawInv => OwnBytesEchoed
  BY DEF RawInv, OwnBytesEchoed
<1> QED
  BY <1>1, RawInvariant, PTL

-----------------------------------------------------------------------------
(***************************************************************************)
(* FrameCapture                                                            *)
(*                                                                         *)
(* Those: the elements of a sequence that are in a set.                    *)
(***************************************************************************)
\* What those of the first n elements are, for each n.
AreThose(f, q, S) ==
    f = [n \in 0..Len(q) |-> IF n = 0 THEN <<>>
                             ELSE IF q[n] \in S THEN Append(f[n - 1], q[n]) ELSE f[n - 1]]

LEMMA ThoseStep ==
    ASSUME NEW f, NEW X, NEW q \in Seq(X), NEW S, AreThose(f, q, S), NEW n \in 0..(Len(q) - 1)
    PROVE  f[n + 1] = IF q[n + 1] \in S THEN Append(f[n], q[n + 1]) ELSE f[n]
<1>1. n + 1 \in 0..Len(q) /\ n + 1 # 0 /\ (n + 1) - 1 = n
  OBVIOUS
<1>2. f[n + 1] = IF n + 1 = 0 THEN <<>>
                 ELSE IF q[n + 1] \in S THEN Append(f[(n + 1) - 1], q[n + 1]) ELSE f[(n + 1) - 1]
  BY <1>1, Zenon DEF AreThose
<1> QED
  BY <1>1, <1>2

\* Those is what its recursion says.
LEMMA ThoseExist ==
    ASSUME NEW X, NEW q \in Seq(X), NEW S
    PROVE  \E f \in [0..Len(q) -> Seq(X)] : AreThose(f, q, S) /\ Those(q, S) = f[Len(q)]
<1> DEFINE N == Len(q)
           step == [p \in Seq(X) \X (1..N) |->
                       IF q[p[2]] \in S THEN Append(p[1], q[p[2]]) ELSE p[1]]
<1>1. N \in Nat /\ <<>> \in Seq(X)
  OBVIOUS
<1>2. step \in [Seq(X) \X (1..N) -> Seq(X)]
  OBVIOUS
<1>3. \A r \in Seq(X), n \in 1..N :
          step[<<r, n>>] = IF q[n] \in S THEN Append(r, q[n]) ELSE r
  OBVIOUS
<1> HIDE DEF step
<1>4. PICK f \in [0..N -> Seq(X)] : IsRecursion(f, N, <<>>, step)
  BY <1>1, <1>2, RecursionExists
<1>5. ASSUME NEW n \in 0..N
      PROVE  (IF n = 0 THEN <<>> ELSE step[<<f[n - 1], n>>])
                = IF n = 0 THEN <<>>
                  ELSE IF q[n] \in S THEN Append(f[n - 1], q[n]) ELSE f[n - 1]
  <2> SUFFICES ASSUME n # 0
               PROVE  step[<<f[n - 1], n>>] = IF q[n] \in S THEN Append(f[n - 1], q[n]) ELSE f[n - 1]
    OBVIOUS
  <2>1. n \in 1..N /\ n - 1 \in 0..N
    BY <1>1
  <2>2. f[n - 1] \in Seq(X)
    BY <1>4, <2>1
  <2> QED
    BY <1>3, <2>1, <2>2
<1>6. AreThose(f, q, S)
  BY <1>4, <1>5, Zenon DEF AreThose, IsRecursion
<1> DEFINE g == CHOOSE g : AreThose(g, q, S)
<1>7. AreThose(g, q, S)
  BY <1>6
<1>8. Those(q, S) = g[N]
  BY DEF Those, AreThose
<1> HIDE DEF g
<1>9. g \in [0..N -> Seq(X)]
  <2> DEFINE T == {n \in Nat : n <= N => g[n] \in Seq(X)}
  <2>1. g[0] = <<>>
    BY <1>1, <1>7 DEF AreThose
  <2>2. ASSUME NEW n \in Nat, n \in T PROVE n + 1 \in T
    <3> SUFFICES ASSUME n + 1 <= N PROVE g[n + 1] \in Seq(X)
      OBVIOUS
    <3>1. g[n] \in Seq(X) /\ n + 1 \in 0..N /\ (n + 1) - 1 = n /\ q[n + 1] \in X
      BY <2>2
    <3>2. g[n + 1] = IF q[n + 1] \in S THEN Append(g[n], q[n + 1]) ELSE g[n]
      <4>1. n \in 0..(Len(q) - 1)
        OBVIOUS
      <4> QED
        BY <1>7, <4>1, ThoseStep
    <3> QED
      BY <3>1, <3>2
  <2>3. 0 \in T
    BY <1>1, <2>1
  <2> HIDE DEF T
  <2>4. Nat \subseteq T
    BY <2>2, <2>3, Induction
  <2>5. \A n \in 0..N : g[n] \in Seq(X)
    BY <1>1, <2>4 DEF T
  <2>6. g = [n \in 0..N |-> g[n]]
    BY <1>7 DEF AreThose
  <2> QED
    BY <2>5, <2>6
<1> QED
  BY <1>7, <1>8, <1>9

LEMMA ThoseType ==
    ASSUME NEW X, NEW q \in Seq(X), NEW S
    PROVE  Those(q, S) \in Seq(X)
<1>1. Len(q) \in 0..Len(q)
  OBVIOUS
<1> QED
  BY <1>1, ThoseExist

LEMMA ThoseEmpty == ASSUME NEW S PROVE Those(<<>>, S) = <<>>
<1>1. <<>> \in Seq({}) /\ Len(<<>>) = 0
  OBVIOUS
<1>2. PICK f : AreThose(f, <<>>, S) /\ Those(<<>>, S) = f[Len(<<>>)]
  BY <1>1, ThoseExist
<1>3. f[0] = <<>>
  BY <1>1, <1>2 DEF AreThose
<1> QED
  BY <1>1, <1>2, <1>3

\* One more element is one more of those, if it is in the set.
LEMMA ThoseAppend ==
    ASSUME NEW X, NEW q \in Seq(X), NEW x \in X, NEW S
    PROVE  Those(Append(q, x), S) = IF x \in S THEN Append(Those(q, S), x) ELSE Those(q, S)
<1> DEFINE N == Len(q)
           r == Append(q, x)
<1>1. /\ N \in Nat /\ r \in Seq(X) /\ Len(r) = N + 1
      /\ \A n \in 1..N : r[n] = q[n]
      /\ r[N + 1] = x
  OBVIOUS
<1> HIDE DEF r
<1>2. PICK f : AreThose(f, q, S) /\ Those(q, S) = f[N]
  BY ThoseExist
<1>3. PICK g : AreThose(g, r, S) /\ Those(r, S) = g[N + 1]
  BY <1>1, ThoseExist
<1>4. g[N] = f[N]
  <2> DEFINE T == {n \in Nat : n <= N => g[n] = f[n]}
  <2>1. f[0] = <<>> /\ g[0] = <<>>
    BY <1>1, <1>2, <1>3 DEF AreThose
  <2>2. ASSUME NEW n \in Nat, n \in T PROVE n + 1 \in T
    <3> SUFFICES ASSUME n + 1 <= N PROVE g[n + 1] = f[n + 1]
      OBVIOUS
    <3>0. n \in 0..(Len(q) - 1) /\ n \in 0..(Len(r) - 1)
      BY <1>1
    <3>1. g[n] = f[n] /\ n + 1 \in 1..N /\ (n + 1) - 1 = n
      BY <1>1, <2>2
    <3>2. f[n + 1] = IF q[n + 1] \in S THEN Append(f[n], q[n + 1]) ELSE f[n]
      BY <1>2, <3>0, ThoseStep
    <3>3. g[n + 1] = IF r[n + 1] \in S THEN Append(g[n], r[n + 1]) ELSE g[n]
      BY <1>1, <1>3, <3>0, ThoseStep
    <3> QED
      BY <1>1, <3>1, <3>2, <3>3
  <2>3. 0 \in T
    BY <2>1
  <2> HIDE DEF T
  <2>4. Nat \subseteq T
    BY <2>2, <2>3, Induction
  <2> QED
    BY <1>1, <2>4 DEF T
<1>5. g[N + 1] = IF r[N + 1] \in S THEN Append(g[N], r[N + 1]) ELSE g[N]
  <2>1. N \in 0..(Len(r) - 1)
    BY <1>1
  <2> QED
    BY <1>1, <1>3, <2>1, ThoseStep
<1>6. Those(r, S) = IF x \in S THEN Append(Those(q, S), x) ELSE Those(q, S)
  BY <1>1, <1>2, <1>3, <1>4, <1>5
<1> QED
  BY <1>6 DEF r

\* Those of two sequences, one after the other.
LEMMA ThoseConcat ==
    ASSUME NEW X, NEW q \in Seq(X), NEW r \in Seq(X), NEW S
    PROVE  Those(q \o r, S) = Those(q, S) \o Those(r, S)
<1> DEFINE T == {p \in Seq(X) : Those(q \o p, S) = Those(q, S) \o Those(p, S)}
<1>1. <<>> \in T
  <2>1. <<>> \in Seq(X) /\ q \o <<>> = q
    OBVIOUS
  <2>2. Those(q, S) \o <<>> = Those(q, S)
    BY ThoseType
  <2> QED
    BY <2>1, <2>2, ThoseEmpty
<1>2. ASSUME NEW p \in Seq(X), NEW x \in X, p \in T PROVE Append(p, x) \in T
  <2>1. q \o Append(p, x) = Append(q \o p, x) /\ q \o p \in Seq(X) /\ Append(p, x) \in Seq(X)
    OBVIOUS
  <2>2. Those(q, S) \in Seq(X) /\ Those(p, S) \in Seq(X)
    BY ThoseType
  <2>3. Those(q \o p, S) = Those(q, S) \o Those(p, S)
    BY <1>2
  <2>4. Those(q \o Append(p, x), S)
           = IF x \in S THEN Append(Those(q, S) \o Those(p, S), x) ELSE Those(q, S) \o Those(p, S)
    <3>1. Those(Append(q \o p, x), S)
             = IF x \in S THEN Append(Those(q \o p, S), x) ELSE Those(q \o p, S)
      BY <2>1, ThoseAppend
    <3> QED
      BY <2>1, <2>3, <3>1
  <2>5. Those(Append(p, x), S) = IF x \in S THEN Append(Those(p, S), x) ELSE Those(p, S)
    BY ThoseAppend
  <2>6. Append(Those(q, S) \o Those(p, S), x) = Those(q, S) \o Append(Those(p, S), x)
    <3>1. \A s, t \in Seq(X) : s \o Append(t, x) = Append(s \o t, x)
      OBVIOUS
    <3> QED
      BY <2>2, <3>1, Zenon
  <2> QED
    BY <2>1, <2>4, <2>5, <2>6
<1> HIDE DEF T
<1>3. r \in T
  BY <1>1, <1>2, SequenceInduction
<1> QED
  BY <1>3 DEF T

\* Those in B of those in A are those in both.
LEMMA ThoseOfThose ==
    ASSUME NEW X, NEW q \in Seq(X), NEW A, NEW B
    PROVE  Those(Those(q, A), B) = Those(q, A \cap B)
<1> DEFINE T == {p \in Seq(X) : Those(Those(p, A), B) = Those(p, A \cap B)}
<1>1. <<>> \in T
  BY ThoseEmpty
<1>2. ASSUME NEW p \in Seq(X), NEW x \in X, p \in T PROVE Append(p, x) \in T
  <2>1. Those(Those(p, A), B) = Those(p, A \cap B) /\ Append(p, x) \in Seq(X)
    BY <1>2
  <2>2. /\ Those(Append(p, x), A) = IF x \in A THEN Append(Those(p, A), x) ELSE Those(p, A)
        /\ Those(Append(p, x), A \cap B)
              = IF x \in A \cap B THEN Append(Those(p, A \cap B), x) ELSE Those(p, A \cap B)
    BY ThoseAppend
  <2>3. Those(Append(Those(p, A), x), B)
           = IF x \in B THEN Append(Those(Those(p, A), B), x) ELSE Those(Those(p, A), B)
    <3>1. Those(p, A) \in Seq(X)
      BY ThoseType
    <3> QED
      BY <3>1, ThoseAppend
  <2>4. CASE x \in A
    <3>1. Those(Append(p, x), A) = Append(Those(p, A), x)
      BY <2>2, <2>4
    <3>2. Those(Append(Those(p, A), x), B) = Those(Append(p, x), A \cap B)
      BY <2>1, <2>2, <2>3, <2>4
    <3> QED
      BY <2>1, <3>1, <3>2
  <2>5. CASE x \notin A
    BY <2>1, <2>2, <2>5
  <2> QED
    BY <2>4, <2>5
<1> HIDE DEF T
<1>3. q \in T
  BY <1>1, <1>2, SequenceInduction
<1> QED
  BY <1>3 DEF T

\* Only what there is in the sequence matters.
LEMMA ThoseSame ==
    ASSUME NEW X, NEW q \in Seq(X), NEW A, NEW B, A \cap X = B \cap X
    PROVE  Those(q, A) = Those(q, B)
<1> DEFINE T == {p \in Seq(X) : Those(p, A) = Those(p, B)}
<1>1. <<>> \in T
  BY ThoseEmpty
<1>2. ASSUME NEW p \in Seq(X), NEW x \in X, p \in T PROVE Append(p, x) \in T
  <2>1. x \in A <=> x \in B
    OBVIOUS
  <2>2. Append(p, x) \in Seq(X) /\ Those(p, A) = Those(p, B)
    BY <1>2
  <2>3. /\ Those(Append(p, x), A) = IF x \in A THEN Append(Those(p, A), x) ELSE Those(p, A)
        /\ Those(Append(p, x), B) = IF x \in B THEN Append(Those(p, B), x) ELSE Those(p, B)
    BY ThoseAppend
  <2> QED
    BY <2>1, <2>2, <2>3
<1> HIDE DEF T
<1>3. q \in T
  BY <1>1, <1>2, SequenceInduction
<1> QED
  BY <1>3 DEF T

\* Nothing that there is may be in it.
LEMMA ThoseNone ==
    ASSUME NEW X, NEW q \in Seq(X), NEW S, X \cap S = {}
    PROVE  Those(q, S) = <<>>
<1> DEFINE T == {p \in Seq(X) : Those(p, S) = <<>>}
<1>1. <<>> \in T
  BY ThoseEmpty
<1>2. ASSUME NEW p \in Seq(X), NEW x \in X, p \in T PROVE Append(p, x) \in T
  <2>1. Append(p, x) \in Seq(X) /\ Those(p, S) = <<>> /\ x \notin S
    BY <1>2
  <2> QED
    BY <2>1, ThoseAppend
<1> HIDE DEF T
<1>3. q \in T
  BY <1>1, <1>2, SequenceInduction
<1> QED
  BY <1>3 DEF T

-----------------------------------------------------------------------------
(***************************************************************************)
(* FrameCapture                                                            *)
(***************************************************************************)
\* Where the frames on the wire end.
LEMMA FrameEnds ==
    ASSUME wire \in Wires
    PROVE  /\ Len(wire) \in Nat /\ DOMAIN wire = 1..Len(wire)
           /\ EndOf \in [0..Len(wire) -> Nat]
           /\ EndOf[0] = PrefaceSize
           /\ \A i \in 1..Len(wire) :
                 /\ wire[i].size \in Nat /\ wire[i].size >= HeaderSize
                 /\ EndOf[i] = EndOf[i - 1] + wire[i].size
           /\ \A i, j \in 0..Len(wire) : i <= j => EndOf[i] <= EndOf[j]
<1> DEFINE N == Len(wire)
           size == [i \in 1..N |-> wire[i].size]
<1>1. wire \in Seq(Frame) /\ \A i \in DOMAIN wire : wire[i].size >= HeaderSize
  BY WholeFrames
<1>2. N \in Nat /\ DOMAIN wire = 1..N
  BY <1>1
<1>3. \A i \in 1..N : wire[i].size \in Nat /\ wire[i].size >= HeaderSize
  <2>1. \A i \in 1..N : wire[i] \in Frame
    BY <1>1
  <2>2. \A i \in 1..N : wire[i].size \in Nat
    BY <2>1 DEF Frame
  <2> QED
    BY <1>1, <1>2, <2>2
<1>4. size \in [1..N -> Nat] /\ PrefaceSize \in Nat /\ \A i \in 1..N : size[i] = wire[i].size
  BY <1>3, Sizes
<1> HIDE DEF size
<1>5. PICK f \in [0..N -> Nat] : AreSums(f, N, PrefaceSize, size)
  BY <1>2, <1>4, SumsExist
<1>6. f = [n \in 0..N |-> IF n = 0 THEN PrefaceSize ELSE f[n - 1] + wire[n].size]
  BY <1>2, <1>4, <1>5 DEF AreSums
<1>7. EndOf = [n \in 0..N |-> IF n = 0 THEN PrefaceSize ELSE EndOf[n - 1] + wire[n].size]
  BY <1>6 DEF EndOf
<1> DEFINE E == EndOf
<1> HIDE DEF E
<1>8. AreSums(E, N, PrefaceSize, size)
  BY <1>2, <1>4, <1>7 DEF E, AreSums
<1>9. E \in [0..N -> Nat]
  BY <1>2, <1>4, <1>8, SumsGrow
<1>10. \A i, j \in 0..N : i <= j => E[i] <= E[j]
  BY <1>2, <1>4, <1>8, SumsGrow
<1>11. E[0] = PrefaceSize
  BY <1>2, <1>4, <1>8, SumsBegin
<1>12. ASSUME NEW i \in 1..N PROVE E[i] = E[i - 1] + wire[i].size
  <2>1. E[i] = E[i - 1] + size[i]
    BY <1>2, <1>4, <1>8, SumsStep
  <2> QED
    BY <1>4, <2>1
<1> QED
  BY <1>2, <1>3, <1>9, <1>10, <1>11, <1>12 DEF E

\* Those of two frames that follow each other are apart.
LEMMA FramesApart ==
    ASSUME wire \in Wires, NEW i \in 0..Len(wire), NEW j \in 0..Len(wire), i < j
    PROVE  EndOf[i] < EndOf[j]
<1>1. j \in 1..Len(wire) /\ j - 1 \in 0..Len(wire) /\ i <= j - 1
  BY FrameEnds
<1>2. EndOf[i] \in Nat /\ EndOf[j] \in Nat /\ EndOf[j - 1] \in Nat
  BY <1>1, FrameEnds
<1>3. EndOf[i] <= EndOf[j - 1]
  BY <1>1, FrameEnds
<1>4. EndOf[j] = EndOf[j - 1] + wire[j].size /\ wire[j].size \in Nat /\ wire[j].size >= HeaderSize
  BY <1>1, FrameEnds
<1>5. HeaderSize \in Nat \ {0}
  BY Sizes
<1> QED
  BY <1>2, <1>3, <1>4, <1>5

\* Frames come in one after the other.
LEMMA WholeUpTo ==
    ASSUME wire \in Wires, NEW r \in Nat
    PROVE  \E k \in 0..Len(wire) : \A i \in 1..Len(wire) : EndOf[i] <= r <=> i <= k
<1> DEFINE N == Len(wire)
           T == {i \in 1..(N + 1) : i <= N => r < EndOf[i]}
<1>1. N \in Nat /\ EndOf \in [0..N -> Nat]
  BY FrameEnds
<1>2. T \subseteq Nat /\ T # {}
  <2>1. N + 1 \in T
    BY <1>1
  <2> QED
    BY <1>1, <2>1
<1>3. PICK m \in T : \A j \in T : m <= j
  BY <1>2, LeastNumber
<1> DEFINE k == m - 1
<1>4. k \in 0..N /\ m \in 1..(N + 1) /\ (m <= N => r < EndOf[m])
  BY <1>1, <1>3
<1>5. \A i \in 1..N : i <= k => EndOf[i] <= r
  BY <1>1, <1>3
<1>6. ASSUME NEW i \in 1..N, ~ (i <= k) PROVE ~ (EndOf[i] <= r)
  <2>1. m \in 0..N /\ i \in 0..N /\ m <= i
    BY <1>1, <1>4, <1>6
  <2>2. EndOf[m] <= EndOf[i] /\ EndOf[m] \in Nat /\ EndOf[i] \in Nat
    BY <1>1, <2>1, FrameEnds
  <2> QED
    BY <1>4, <2>1, <2>2
<1> HIDE DEF k
<1> QED
  BY <1>4, <1>5, <1>6

LEMMA WholeIs ==
    ASSUME wire \in Wires, NEW k \in 0..Len(wire)
    PROVE  Whole = 1..k <=> \A i \in 1..Len(wire) : EndOf[i] <= received <=> i <= k
<1>1. Len(wire) \in Nat /\ \A i : i \in Whole <=> i \in 1..Len(wire) /\ EndOf[i] <= received
  BY FrameEnds DEF Whole
<1>2. \A i : i \in 1..k <=> i \in 1..Len(wire) /\ i <= k
  BY <1>1
<1> QED
  BY <1>1, <1>2

\* In the bytes from e to r a frame is readable where it begins, if it ends by r.
LEMMA ReadableAt ==
    ASSUME wire \in Wires, NEW e \in Nat, NEW r \in Nat, e <= r,
           NEW offset \in Nat, NEW i \in 1..Len(wire)
    PROVE  Readable(Between(e, r), offset, i) <=> e + offset = EndOf[i - 1] /\ EndOf[i] <= r
<1> DEFINE data == Between(e, r)
<1>1. Len(data) = r - e /\ \A p \in 1..(r - e) : data[p] = e + p
  BY BetweenType
<1>2. /\ wire[i].size \in Nat /\ wire[i].size >= HeaderSize
      /\ EndOf[i] = EndOf[i - 1] + wire[i].size
  BY FrameEnds
<1>3. EndOf[i] \in Nat /\ EndOf[i - 1] \in Nat
  <2>1. i \in 0..Len(wire) /\ i - 1 \in 0..Len(wire)
    BY FrameEnds
  <2> QED
    BY <2>1, FrameEnds
<1>4. HeaderSize \in Nat \ {0}
  BY Sizes
<1> HIDE DEF data
<1>5. Readable(data, offset, i) <=>
         /\ offset + HeaderSize <= r - e
         /\ data[offset + 1] = EndOf[i - 1] + 1
         /\ offset + wire[i].size <= r - e
  BY <1>1 DEF Readable
<1>6. CASE offset + HeaderSize <= r - e
  <2>1. offset + 1 \in 1..(r - e)
    BY <1>4, <1>6
  <2>2. data[offset + 1] = e + (offset + 1)
    BY <1>1, <2>1
  <2>3. data[offset + 1] = EndOf[i - 1] + 1 <=> e + offset = EndOf[i - 1]
    BY <1>3, <2>2
  <2>4. e + offset = EndOf[i - 1] => (offset + wire[i].size <= r - e <=> EndOf[i] <= r)
    BY <1>2, <1>3
  <2> QED
    BY <1>5, <1>6, <2>3, <2>4 DEF data
<1>7. CASE ~ (offset + HeaderSize <= r - e)
  <2>1. ~ (e + offset = EndOf[i - 1] /\ EndOf[i] <= r)
    BY <1>2, <1>3, <1>4, <1>7
  <2> QED
    BY <1>5, <1>7, <2>1 DEF data
<1> QED
  BY <1>6, <1>7

\* Hence no other is.
LEMMA ReadableOnce ==
    ASSUME wire \in Wires, NEW e \in Nat, NEW r \in Nat, e <= r, NEW offset \in Nat,
           NEW i \in 1..Len(wire), NEW j \in 1..Len(wire),
           Readable(Between(e, r), offset, i), Readable(Between(e, r), offset, j)
    PROVE  i = j
<1>1. EndOf[i - 1] = EndOf[j - 1]
  BY ReadableAt
<1>2. i - 1 \in 0..Len(wire) /\ j - 1 \in 0..Len(wire) /\ EndOf[i - 1] \in Nat
  <2>1. i - 1 \in 0..Len(wire) /\ j - 1 \in 0..Len(wire)
    BY FrameEnds
  <2> QED
    BY <2>1, FrameEnds
<1>3. ~ (i - 1 < j - 1) /\ ~ (j - 1 < i - 1)
  BY <1>1, <1>2, FramesApart
<1> QED
  BY <1>2, <1>3

\* What Parse makes of each offset.
IsParse(from, data) ==
    from = [offset \in Nat |->
               IF \E i \in DOMAIN wire : Readable(data, offset, i)
               THEN LET i == CHOOSE i \in DOMAIN wire : Readable(data, offset, i)
                        rest == from[offset + wire[i].size]
                    IN  [frames |-> <<i>> \o rest.frames, end |-> rest.end]
               ELSE [frames |-> <<>>, end |-> offset]]

\* One frame more is taken at the beginning of one that is whole.
LEMMA ParseStep ==
    ASSUME wire \in Wires, NEW e \in Nat, NEW r \in Nat, e <= r, NEW from,
           IsParse(from, Between(e, r)), NEW offset \in Nat, NEW i \in 1..Len(wire),
           e + offset = EndOf[i - 1], EndOf[i] <= r, NEW m \in Nat, i <= m,
           from[offset + wire[i].size].frames = Between(i, m)
    PROVE  /\ from[offset].frames = Between(i - 1, m)
           /\ from[offset].end = from[offset + wire[i].size].end
<1>1. DOMAIN wire = 1..Len(wire)
  BY FrameEnds
<1>2. Readable(Between(e, r), offset, i)
  BY ReadableAt
<1>3. (CHOOSE j \in DOMAIN wire : Readable(Between(e, r), offset, j)) = i
  BY <1>1, <1>2, ReadableOnce
<1>4. from[offset] = [frames |-> <<i>> \o from[offset + wire[i].size].frames,
                      end |-> from[offset + wire[i].size].end]
  BY <1>1, <1>2, <1>3, Zenon DEF IsParse
<1>5. <<i>> \o Between(i, m) = Between(i - 1, m)
  <2>1. i - 1 \in Nat /\ i \in Nat /\ m \in Nat /\ i - 1 <= i /\ i <= m
    BY FrameEnds
  <2>2. Between(i - 1, i) \o Between(i, m) = Between(i - 1, m)
    BY <2>1, BetweenConcat
  <2>3. <<i>> = Between(i - 1, i)
    BY <2>1 DEF Between
  <2> QED
    BY <2>2, <2>3, Zenon
<1> QED
  BY <1>4, <1>5

\* Elsewhere it is nothing.
LEMMA ParseStop ==
    ASSUME NEW data, NEW from, IsParse(from, data), NEW offset \in Nat,
           \A i \in DOMAIN wire : ~ Readable(data, offset, i)
    PROVE  from[offset] = [frames |-> <<>>, end |-> offset]
BY Zenon DEF IsParse

\* Parse comes to an end, and is what its recursion says.
LEMMA ParseExists ==
    ASSUME wire \in Wires, NEW e \in Nat, NEW r \in Nat, e <= r, NEW m \in 0..Len(wire),
           \A i \in 1..Len(wire) : EndOf[i] <= r <=> i <= m
    PROVE  \E from : /\ IsParse(from, Between(e, r))
                     /\ Parse(Between(e, r)) = from[FirstOffset(Between(e, r))]
<1> DEFINE N == Len(wire)
           data == Between(e, r)
           at(offset) == CHOOSE k \in 0..m : EndOf[k] = e + offset
           f == [offset \in Nat |->
                    IF \E k \in 0..m : EndOf[k] = e + offset
                    THEN [frames |-> Between(at(offset), m), end |-> EndOf[m] - e]
                    ELSE [frames |-> <<>>, end |-> offset]]
<1>1. N \in Nat /\ DOMAIN wire = 1..N /\ EndOf \in [0..N -> Nat]
  BY FrameEnds
<1>2. ASSUME NEW offset \in Nat, NEW k \in 0..m, EndOf[k] = e + offset
      PROVE  f[offset] = [frames |-> Between(k, m), end |-> EndOf[m] - e]
  <2>1. \A j \in 0..m : EndOf[j] = e + offset => j = k
    <3> SUFFICES ASSUME NEW j \in 0..m, EndOf[j] = EndOf[k] PROVE j = k
      BY <1>2
    <3>1. j \in 0..N /\ k \in 0..N /\ EndOf[k] \in Nat
      BY <1>1
    <3>2. ~ (j < k) /\ ~ (k < j)
      BY <3>1, FramesApart
    <3> QED
      BY <3>1, <3>2
  <2>2. at(offset) = k
    BY <1>2, <2>1
  <2> HIDE DEF at
  <2> QED
    BY <1>2, <2>2
<1>3. ASSUME NEW offset \in Nat, \A k \in 0..m : EndOf[k] # e + offset
      PROVE  f[offset] = [frames |-> <<>>, end |-> offset]
  BY <1>3
<1>4. ASSUME NEW offset \in Nat, NEW i \in 1..N, Readable(data, offset, i)
      PROVE  f[offset] = [frames |-> <<i>> \o f[offset + wire[i].size].frames,
                          end |-> f[offset + wire[i].size].end]
  <2>1. e + offset = EndOf[i - 1] /\ EndOf[i] <= r
    BY <1>4, ReadableAt
  <2>2. i \in 0..m /\ i - 1 \in 0..m /\ EndOf[i] = EndOf[i - 1] + wire[i].size /\ wire[i].size \in Nat
    BY <1>1, <2>1, FrameEnds
  <2>3. offset + wire[i].size \in Nat /\ EndOf[i] = e + (offset + wire[i].size)
    BY <2>1, <2>2
  <2> HIDE DEF f
  <2>4. /\ f[offset] = [frames |-> Between(i - 1, m), end |-> EndOf[m] - e]
        /\ f[offset + wire[i].size] = [frames |-> Between(i, m), end |-> EndOf[m] - e]
    BY <1>2, <2>1, <2>2, <2>3
  <2>5. <<i>> \o Between(i, m) = Between(i - 1, m)
    <3>1. i - 1 \in Nat /\ i \in Nat /\ m \in Nat /\ i - 1 <= i /\ i <= m
      BY <1>1, <2>2
    <3>2. Between(i - 1, i) \o Between(i, m) = Between(i - 1, m)
      BY <3>1, BetweenConcat
    <3>3. <<i>> = Between(i - 1, i)
      BY <3>1 DEF Between
    <3> QED
      BY <3>2, <3>3, Zenon
  <2>6. /\ f[offset + wire[i].size].frames = Between(i, m)
        /\ f[offset + wire[i].size].end = EndOf[m] - e
    BY <2>4
  <2> QED
    BY <2>4, <2>5, <2>6
<1>5. ASSUME NEW offset \in Nat, \A i \in 1..N : ~ Readable(data, offset, i)
      PROVE  f[offset] = [frames |-> <<>>, end |-> offset]
  <2>1. ASSUME NEW k \in 0..m, EndOf[k] = e + offset PROVE k = m
    <3> SUFFICES ASSUME k < m PROVE FALSE
      OBVIOUS
    <3>1. k + 1 \in 1..N /\ (k + 1) - 1 = k /\ k + 1 <= m
      BY <1>1
    <3>2. Readable(data, offset, k + 1)
      BY <2>1, <3>1, ReadableAt
    <3> QED
      BY <1>5, <3>1, <3>2
  <2>2. CASE EndOf[m] = e + offset
    <3>1. m \in 0..m /\ Between(m, m) = <<>>
      BY <1>1 DEF Between
    <3>2. EndOf[m] - e = offset
      BY <1>1, <2>2
    <3> HIDE DEF f
    <3> QED
      BY <1>2, <2>2, <3>1, <3>2
  <2>3. CASE EndOf[m] # e + offset
    BY <1>3, <2>1, <2>3
  <2> QED
    BY <2>2, <2>3
<1>6. f = [offset \in Nat |-> f[offset]]
  OBVIOUS
<1> HIDE DEF f
<1>7. ASSUME NEW offset \in Nat
      PROVE  f[offset] = IF \E i \in DOMAIN wire : Readable(data, offset, i)
                         THEN LET i == CHOOSE i \in DOMAIN wire : Readable(data, offset, i)
                                  rest == f[offset + wire[i].size]
                              IN  [frames |-> <<i>> \o rest.frames, end |-> rest.end]
                         ELSE [frames |-> <<>>, end |-> offset]
  <2>1. CASE \E i \in DOMAIN wire : Readable(data, offset, i)
    <3> DEFINE i == CHOOSE i \in DOMAIN wire : Readable(data, offset, i)
    <3>1. i \in 1..N /\ Readable(data, offset, i)
      BY <1>1, <2>1
    <3>2. f[offset] = [frames |-> <<i>> \o f[offset + wire[i].size].frames,
                       end |-> f[offset + wire[i].size].end]
      BY <1>4, <3>1, Zenon
    <3> QED
      BY <2>1, <3>2, Zenon
  <2>2. CASE ~ \E i \in DOMAIN wire : Readable(data, offset, i)
    <3>1. f[offset] = [frames |-> <<>>, end |-> offset]
      BY <1>1, <1>5, <2>2
    <3> QED
      BY <2>2, <3>1, Zenon
  <2> QED
    BY <2>1, <2>2
<1>8. IsParse(f, data)
  BY <1>6, <1>7, Zenon DEF IsParse
<1> DEFINE from == CHOOSE from : IsParse(from, data)
<1>9. IsParse(from, data)
  BY <1>8
<1>10. Parse(data) = from[FirstOffset(data)]
  BY DEF Parse, IsParse
<1> QED
  BY <1>9, <1>10

\* From the end of the k-th frame on, Parse takes the frames that are whole, the last of them the m-th.
LEMMA ParseWhole ==
    ASSUME wire \in Wires, NEW e \in Nat, NEW r \in Nat, e <= r,
           NEW k \in 0..Len(wire), NEW m \in 0..Len(wire), k <= m,
           \A i \in 1..Len(wire) : EndOf[i] <= r <=> i <= m,
           e <= EndOf[k], FirstOffset(Between(e, r)) = EndOf[k] - e
    PROVE  /\ Parse(Between(e, r)).frames = Between(k, m)
           /\ Parse(Between(e, r)).end = EndOf[m] - e
<1> DEFINE N == Len(wire)
<1>1. N \in Nat /\ DOMAIN wire = 1..N /\ EndOf \in [0..N -> Nat] /\ k \in Nat /\ m \in Nat
  BY FrameEnds
<1>2. PICK from : /\ IsParse(from, Between(e, r))
                  /\ Parse(Between(e, r)) = from[FirstOffset(Between(e, r))]
  BY ParseExists
<1>3. ASSUME NEW j \in k..m PROVE j \in 0..N /\ EndOf[j] \in Nat /\ EndOf[j] - e \in Nat
  <2>1. j \in 0..N /\ k \in 0..N /\ k <= j
    BY <1>1
  <2>2. EndOf[k] <= EndOf[j]
    BY <2>1, FrameEnds
  <2>3. EndOf[k] \in Nat /\ EndOf[j] \in Nat
    BY <1>1, <2>1
  <2> QED
    BY <2>1, <2>2, <2>3
<1> DEFINE T == {d \in Nat : d <= m - k =>
                    /\ from[EndOf[m - d] - e].frames = Between(m - d, m)
                    /\ from[EndOf[m - d] - e].end = EndOf[m] - e}
<1>4. 0 \in T
  <2>1. m \in k..m /\ m - 0 = m /\ Between(m, m) = <<>>
    BY <1>1 DEF Between
  <2>2. EndOf[m] - e \in Nat /\ e + (EndOf[m] - e) = EndOf[m]
    BY <1>3, <2>1
  <2>3. ASSUME NEW i \in 1..N, Readable(Between(e, r), EndOf[m] - e, i) PROVE FALSE
    <3>1. EndOf[m] = EndOf[i - 1] /\ EndOf[i] <= r
      BY <2>2, <2>3, ReadableAt
    <3>2. i - 1 < m /\ i - 1 \in 0..N
      BY <1>1, <3>1
    <3> QED
      BY <1>1, <3>1, <3>2, FramesApart
  <2>4. from[EndOf[m] - e] = [frames |-> <<>>, end |-> EndOf[m] - e]
    BY <1>1, <1>2, <2>2, <2>3, ParseStop
  <2> QED
    BY <2>1, <2>4
<1>5. ASSUME NEW d \in Nat, d \in T PROVE d + 1 \in T
  <2> SUFFICES ASSUME d + 1 <= m - k
               PROVE  /\ from[EndOf[m - (d + 1)] - e].frames = Between(m - (d + 1), m)
                      /\ from[EndOf[m - (d + 1)] - e].end = EndOf[m] - e
    OBVIOUS
  <2>1. PICK i \in 1..N : i = m - d
    BY <1>1
  <2>2. i \in k..m /\ i - 1 \in k..m /\ i <= m /\ m - (d + 1) = i - 1
    BY <1>1, <2>1
  <2>3. from[EndOf[i] - e].frames = Between(i, m) /\ from[EndOf[i] - e].end = EndOf[m] - e
    BY <1>1, <1>5, <2>1
  <2>4. /\ EndOf[i] \in Nat /\ EndOf[i - 1] \in Nat /\ EndOf[i - 1] - e \in Nat
        /\ EndOf[i] = EndOf[i - 1] + wire[i].size /\ wire[i].size \in Nat
    BY <1>3, <2>2, FrameEnds
  <2>5. /\ e + (EndOf[i - 1] - e) = EndOf[i - 1]
        /\ (EndOf[i - 1] - e) + wire[i].size = EndOf[i] - e
    <3>1. \A a, b, z \in Nat : a = b + z => e + (b - e) = b /\ (b - e) + z = a - e
      BY <1>1
    <3> QED
      BY <2>4, <3>1, Zenon
  <2>6. EndOf[i] <= r
    BY <1>1, <2>2
  <2>7. PICK o \in Nat : o = EndOf[i - 1] - e
    BY <2>4
  <2>8. e + o = EndOf[i - 1] /\ o + wire[i].size = EndOf[i] - e
    BY <2>5, <2>7, Zenon
  <2>9. from[o + wire[i].size].frames = Between(i, m) /\ from[o + wire[i].size].end = EndOf[m] - e
    BY <2>3, <2>8, Zenon
  <2>10. from[o].frames = Between(i - 1, m) /\ from[o].end = EndOf[m] - e
    BY <1>1, <1>2, <2>2, <2>6, <2>8, <2>9, ParseStep
  <2> QED
    BY <2>2, <2>7, <2>10
<1> HIDE DEF T
<1>6. m - k \in T
  BY <1>1, <1>4, <1>5, Induction
<1>7. m - (m - k) = k /\ m - k <= m - k
  BY <1>1
<1>8. from[EndOf[k] - e].frames = Between(k, m) /\ from[EndOf[k] - e].end = EndOf[m] - e
  BY <1>6, <1>7 DEF T
<1> QED
  BY <1>2, <1>8

\* Before the preface has come in, nothing is taken.
LEMMA ParseNothing ==
    ASSUME wire \in Wires, NEW r \in Nat, r < PrefaceSize
    PROVE  Parse(Between(0, r)).frames = <<>> /\ Parse(Between(0, r)).end = 0
<1> DEFINE N == Len(wire)
<1>1. N \in Nat /\ DOMAIN wire = 1..N /\ EndOf \in [0..N -> Nat] /\ PrefaceSize \in Nat
  BY FrameEnds, Sizes
<1>2. ASSUME NEW i \in 0..N PROVE EndOf[i] \in Nat /\ PrefaceSize <= EndOf[i]
  <2>1. 0 \in 0..N /\ 0 <= i
    BY <1>1
  <2> QED
    BY <1>1, <2>1, FrameEnds
<1>3. \A i \in 1..N : EndOf[i] <= r <=> i <= 0
  <2> SUFFICES ASSUME NEW i \in 1..N PROVE ~ (EndOf[i] <= r)
    OBVIOUS
  <2>1. i \in 0..N
    BY <1>1
  <2> QED
    BY <1>1, <1>2, <2>1
<1>4. 0 \in 0..N /\ 0 \in Nat /\ 0 <= r
  BY <1>1
<1>5. PICK from : /\ IsParse(from, Between(0, r))
                  /\ Parse(Between(0, r)) = from[FirstOffset(Between(0, r))]
  BY <1>3, <1>4, ParseExists
<1>6. FirstOffset(Between(0, r)) = 0
  <2>1. Len(Between(0, r)) = r
    BY <1>4, BetweenType
  <2> QED
    BY <1>1, <2>1 DEF FirstOffset
<1>7. ASSUME NEW i \in 1..N PROVE ~ Readable(Between(0, r), 0, i)
  <2>1. i - 1 \in 0..N
    BY <1>1
  <2>2. 0 + 0 # EndOf[i - 1]
    BY <1>1, <1>2, <2>1
  <2> QED
    BY <1>4, <2>2, ReadableAt
<1>8. from[0] = [frames |-> <<>>, end |-> 0]
  BY <1>1, <1>4, <1>5, <1>7, ParseStop
<1> QED
  BY <1>5, <1>6, <1>8

(***************************************************************************)
(* The invariant.                                                          *)
(***************************************************************************)
\* The shape of the state of each stream.
StreamTypes ==
    /\ streams \in [Stream -> [callback: BOOLEAN, buffer: Seq(DOMAIN wire), stopped: BOOLEAN]]
    /\ due \in [Stream -> Seq(DOMAIN wire)]
    /\ written \in [Stream -> Seq(DOMAIN wire)]

\* Where what is kept begins, once r bytes have come in and k frames were routed.
KeptFrom(r, k) == IF r < PrefaceSize THEN 0 ELSE EndOf[k]

\* Of the first r bytes, the first m frames are whole.
UpTo(r, m) == \A i \in 1..Len(wire) : EndOf[i] <= r <=> i <= m

\* What Parse makes of data: the frames behind the k-th up to the m-th, and what is kept.
ParsedTo(data, k, m, r) ==
    /\ k <= m
    /\ Parse(data).frames = Between(k, m)
    /\ SubSeq(data, Parse(data).end + 1, Len(data)) = Between(KeptFrom(r, m), r)

\* The first k frames have come in; what is kept begins with the preface, or where they end.
RoutedTo(k) ==
    /\ Whole = 1..k
    /\ globalFrames = On(Between(0, k), Connection)
    /\ partialData = Between(KeptFrom(received, k), received)

Routed == \E k \in 0..Len(wire) : RoutedTo(k)

\* Only an echo is handed frames, and what is written waits for it.
OnlyEchoesWrite ==
    \A s \in Stream :
        request[s] \notin {"echoing", "ended"} => due[s] = <<>> /\ written[s] = <<>>

\* What has a callback, or is stopped, buffers nothing.
EmptyBuffers ==
    \A s \in Stream :
        streams[s].callback \/ streams[s].stopped => streams[s].buffer = <<>>

\* The capture of a stream that goes elsewhere is stopped, unless it has none.
OthersStopped == \A s \in Stream : request[s] = "other" => streams[s].stopped \/ Gone(s)

FramesInv ==
    /\ TypeOK /\ StreamTypes /\ Routed
    /\ OnlyEchoesWrite /\ EmptyBuffers /\ OthersStopped /\ EachFrameOnceInOrder

(***************************************************************************)
(* Receiving.                                                              *)
(***************************************************************************)
\* What a stream's frames are, among the numbers of frames.
OnStream(s) == {i \in DOMAIN wire : wire[i].on = s}

LEMMA OnIs == \A q, s : On(q, s) = Those(q, OnStream(s))
BY DEF On, OnStream

\* What has been sent are those of the frames that have come in.
LEMMA SentUpTo ==
    ASSUME wire \in Wires, NEW k \in 0..Len(wire), NEW s
    PROVE  Those([i \in 1..Len(wire) |-> i], {i \in 1..k : wire[i].on = s}) = On(Between(0, k), s)
<1> DEFINE N == Len(wire)
           S == {i \in 1..k : wire[i].on = s}
<1>1. N \in Nat /\ k \in Nat /\ DOMAIN wire = 1..N /\ 0 \in Nat /\ 0 <= k /\ k <= N /\ 0 <= N
  BY FrameEnds
<1>2. [i \in 1..Len(wire) |-> i] = Between(0, N)
  BY <1>1 DEF Between
<1>3. Between(0, k) \o Between(k, N) = Between(0, N)
  BY <1>1, BetweenConcat
<1>4. Between(0, k) \in Seq(1..k) /\ Between(k, N) \in Seq((k + 1)..N)
  <2>1. Between(0, k) \in Seq((0 + 1)..k)
    BY <1>1, BetweenType
  <2> QED
    BY <1>1, <2>1, BetweenType
<1>5. Those(Between(k, N), S) = <<>>
  <2>1. ((k + 1)..N) \cap S = {}
    BY <1>1
  <2> QED
    BY <1>4, <2>1, ThoseNone
<1>6. Those(Between(0, k), S) = Those(Between(0, k), OnStream(s))
  <2>1. S \cap 1..k = OnStream(s) \cap 1..k
    BY <1>1 DEF OnStream
  <2> HIDE DEF S
  <2> QED
    BY <1>4, <2>1, ThoseSame
<1>7. Those(Between(0, N), S) = Those(Between(0, k), S) \o Those(Between(k, N), S)
  <2>1. Between(0, k) \in Seq(1..N) /\ Between(k, N) \in Seq(1..N)
    <3>1. 1..k \subseteq 1..N /\ (k + 1)..N \subseteq 1..N
      BY <1>1
    <3> QED
      BY <1>4, <3>1, SeqMonotonic
  <2>2. Those(Between(0, k) \o Between(k, N), S) = Those(Between(0, k), S) \o Those(Between(k, N), S)
    <3> HIDE DEF S
    <3>1. \A p, q \in Seq(1..N) : Those(p \o q, S) = Those(p, S) \o Those(q, S)
      BY ThoseConcat
    <3> QED
      BY <2>1, <3>1, Zenon
  <2> QED
    BY <1>3, <2>2, Zenon
<1>8. Those(Between(0, k), S) \o <<>> = Those(Between(0, k), S)
  <2>1. Those(Between(0, k), S) \in Seq(1..k)
    BY <1>4, ThoseType
  <2> QED
    BY <2>1
<1> HIDE DEF S
<1>9. Those([i \in 1..Len(wire) |-> i], S) = On(Between(0, k), s)
  BY <1>2, <1>5, <1>6, <1>7, <1>8, OnIs, Zenon
<1> QED
  BY <1>9 DEF S

LEMMA SentIs ==
    ASSUME wire \in Wires, NEW k \in 0..Len(wire), Whole = 1..k, NEW s
    PROVE  Sent(s) = On(Between(0, k), s)
BY SentUpTo DEF Sent

\* What Parse is given begins with the preface, or where the last frame routed ends.
LEMMA SegmentIsData ==
    ASSUME wire \in Wires, received \in Nat, NEW n \in Nat, NEW k \in 0..Len(wire), RoutedTo(k)
    PROVE  \E e \in Nat :
              /\ e = KeptFrom(received, k)
              /\ e <= received /\ e <= EndOf[k]
              /\ partialData \o [p \in 1..n |-> received + p] = Between(e, received + n)
<1>1. Len(wire) \in Nat /\ k \in 0..Len(wire) /\ EndOf[k] \in Nat /\ PrefaceSize \in Nat
  BY FrameEnds, Sizes
<1>2. PICK e \in Nat : e = (IF received < PrefaceSize THEN 0 ELSE EndOf[k]) /\ e = KeptFrom(received, k)
  BY <1>1 DEF KeptFrom
<1>3. e <= received /\ e <= EndOf[k]
  <2>1. CASE received < PrefaceSize
    BY <1>1, <1>2, <2>1
  <2>2. CASE ~ (received < PrefaceSize) /\ k = 0
    BY <1>1, <1>2, <2>2, FrameEnds
  <2>3. CASE ~ (received < PrefaceSize) /\ k # 0
    <3>1. k \in 1..Len(wire) /\ k <= k
      BY <1>1, <2>3
    <3>2. EndOf[k] <= received
      BY <3>1, WholeIs DEF RoutedTo
    <3> QED
      BY <1>1, <1>2, <2>3, <3>2
  <2> QED
    BY <2>1, <2>2, <2>3
<1>4. partialData = Between(e, received)
  BY <1>2 DEF RoutedTo
<1>5. PICK r \in Nat : r = received + n
  OBVIOUS
<1>6. [p \in 1..n |-> received + p] = Between(received, r)
  BY <1>5 DEF Between
<1>7. Between(e, received) \o Between(received, r) = Between(e, r)
  <2>1. received <= r
    BY <1>5
  <2> QED
    BY <1>3, <2>1, BetweenConcat
<1>8. partialData \o [p \in 1..n |-> received + p] = Between(e, received + n)
  BY <1>4, <1>5, <1>6, <1>7, Zenon
<1> QED
  BY <1>2, <1>3, <1>8

\* What comes in with a segment, and what is kept of it.
LEMMA SegmentParsed ==
    ASSUME wire \in Wires, received \in Nat, NEW r \in Nat, received <= r,
           NEW k \in 0..Len(wire), RoutedTo(k),
           NEW m \in 0..Len(wire), UpTo(r, m),
           NEW e \in Nat, e = KeptFrom(received, k), e <= received, e <= EndOf[k],
           NEW data, data = Between(e, r)
    PROVE  ParsedTo(data, k, m, r)
<1> DEFINE N == Len(wire)
<1>1. /\ N \in Nat /\ DOMAIN wire = 1..N /\ EndOf \in [0..N -> Nat] /\ EndOf[0] = PrefaceSize
      /\ k \in Nat /\ m \in Nat /\ PrefaceSize \in Nat \ {0} /\ e <= r
  BY FrameEnds, Sizes
<1>u. \A i \in 1..N : EndOf[i] <= r <=> i <= m
  BY DEF UpTo
<1>e. e = IF received < PrefaceSize THEN 0 ELSE EndOf[k]
  BY DEF KeptFrom
<1>2. \A i \in 0..N : EndOf[i] \in Nat /\ PrefaceSize <= EndOf[i]
  <2>1. 0 \in 0..N /\ \A i \in 0..N : 0 <= i
    BY <1>1
  <2> QED
    BY <1>1, <2>1, FrameEnds
<1>3. \A i \in 1..N : EndOf[i] <= received <=> i <= k
  BY WholeIs DEF RoutedTo
<1>4. k <= m
  <2>1. CASE k = 0
    BY <1>1, <2>1
  <2>2. CASE k # 0
    <3>1. k \in 1..N /\ k \in 0..N /\ EndOf[k] \in Nat
      BY <1>1, <1>2, <2>2
    <3>2. EndOf[k] <= r
      BY <1>1, <1>3, <3>1
    <3> QED
      BY <1>u, <3>1, <3>2
  <2> QED
    BY <2>1, <2>2
<1>5. Len(data) = r - e /\ \A p \in 1..(r - e) : data[p] = e + p
  BY <1>1, BetweenType
<1>6. CASE r < PrefaceSize
  <2>1. e = 0 /\ m = 0
    <3>1. m = 0
      <4> SUFFICES ASSUME m # 0 PROVE FALSE
        OBVIOUS
      <4>1. m \in 1..N /\ m \in 0..N
        BY <1>1
      <4>2. EndOf[m] <= r
        BY <1>1, <1>u, <4>1
      <4> QED
        BY <1>1, <1>2, <1>6, <4>1, <4>2
    <3> QED
      BY <1>1, <1>6, <1>e, <3>1
  <2>2. Parse(data).frames = <<>> /\ Parse(data).end = 0
    BY <1>1, <1>6, <2>1, ParseNothing
  <2>3. k = 0 /\ Between(k, m) = <<>>
    BY <1>1, <1>4, <2>1 DEF Between
  <2>4. SubSeq(data, 0 + 1, r - 0) = Between(0 + 0, r)
    <3>1. 0 \in 0..(r - 0) /\ 0 \in Nat /\ 0 <= r
      BY <1>1
    <3> QED
      BY <2>1, <3>1, BetweenSub
  <2>5. SubSeq(data, Parse(data).end + 1, Len(data)) = Between(0, r)
    BY <1>5, <2>1, <2>2, <2>4
  <2> QED
    BY <1>4, <1>6, <2>2, <2>3, <2>5 DEF KeptFrom, ParsedTo
<1>7. CASE ~ (r < PrefaceSize)
  <2>1. FirstOffset(data) = EndOf[k] - e
    <3>1. CASE received < PrefaceSize
      <4>1. e = 0 /\ k = 0
        <5>1. ASSUME k # 0 PROVE FALSE
          <6>1. k \in 1..N /\ k \in 0..N
            BY <1>1, <5>1
          <6> QED
            BY <1>1, <1>2, <1>3, <3>1, <6>1
        <5> QED
          BY <1>e, <3>1, <5>1
      <4>2. globalFrames = <<>>
        <5>1. Between(0, 0) = <<>>
          BY DEF Between
        <5> QED
          BY <4>1, <5>1, ThoseEmpty DEF RoutedTo, On
      <4>3. Len(data) >= PrefaceSize /\ \A p \in 1..PrefaceSize : data[p] = p
        BY <1>1, <1>5, <1>7, <4>1
      <4> QED
        BY <1>1, <4>1, <4>2, <4>3 DEF FirstOffset
    <3>2. CASE ~ (received < PrefaceSize)
      <4>1. e = EndOf[k] /\ e \in Nat /\ PrefaceSize <= e
        BY <1>1, <1>2, <1>e, <3>2
      <4>2. ~ (Len(data) >= PrefaceSize /\ \A p \in 1..PrefaceSize : data[p] = p)
        <5> SUFFICES ASSUME Len(data) >= PrefaceSize PROVE data[1] # 1 /\ 1 \in 1..PrefaceSize
          OBVIOUS
        <5>1. 1 \in 1..PrefaceSize /\ 1 \in 1..(r - e)
          BY <1>1, <1>5
        <5>2. data[1] = e + 1
          BY <1>5, <5>1
        <5> QED
          BY <1>1, <4>1, <5>1, <5>2
      <4>3. FirstOffset(data) = 0
        BY <4>2 DEF FirstOffset
      <4> QED
        BY <4>1, <4>3
    <3> QED
      BY <3>1, <3>2
  <2>2. Parse(data).frames = Between(k, m) /\ Parse(data).end = EndOf[m] - e
    BY <1>1, <1>4, <1>u, <2>1, ParseWhole
  <2>3. EndOf[m] - e \in 0..(r - e) /\ e + (EndOf[m] - e) = EndOf[m]
    <3>1. m \in 0..N /\ EndOf[m] \in Nat /\ EndOf[k] \in Nat /\ EndOf[k] <= EndOf[m]
      BY <1>1, <1>2, <1>4, FrameEnds
    <3>2. EndOf[m] <= r
      <4>1. CASE m = 0
        BY <1>1, <1>7, <4>1
      <4>2. CASE m # 0
        BY <1>1, <1>u, <4>2
      <4> QED
        BY <4>1, <4>2
    <3> QED
      BY <1>1, <3>1, <3>2
  <2>4. SubSeq(data, (EndOf[m] - e) + 1, r - e) = Between(EndOf[m], r)
    <3>1. SubSeq(data, (EndOf[m] - e) + 1, r - e) = Between(e + (EndOf[m] - e), r)
      BY <1>1, <2>3, BetweenSub
    <3> QED
      BY <2>3, <3>1
  <2>5. SubSeq(data, Parse(data).end + 1, Len(data)) = Between(EndOf[m], r)
    BY <1>5, <2>2, <2>4
  <2> QED
    BY <1>4, <1>7, <2>2, <2>5 DEF KeptFrom, ParsedTo
<1> QED
  BY <1>6, <1>7


\* The frames of a stream, or of the connection, among more of them.
LEMMA OnMore ==
    ASSUME wire \in Wires, NEW k \in 0..Len(wire), NEW m \in 0..Len(wire), k <= m
    PROVE  /\ Between(k, m) \in Seq(DOMAIN wire)
           /\ \A s : On(Between(0, m), s) = On(Between(0, k), s) \o On(Between(k, m), s)
<1> DEFINE N == Len(wire)
<1>1. N \in Nat /\ DOMAIN wire = 1..N /\ k \in Nat /\ m \in Nat /\ 0 \in Nat /\ 0 <= k /\ k <= m /\ 0 <= m
  BY FrameEnds
<1>2. Between(0, k) \in Seq(1..N) /\ Between(k, m) \in Seq(1..N)
  <2>1. Between(0, k) \in Seq((0 + 1)..k) /\ Between(k, m) \in Seq((k + 1)..m)
    BY <1>1, BetweenType
  <2>2. (0 + 1)..k \subseteq 1..N /\ (k + 1)..m \subseteq 1..N
    BY <1>1
  <2> QED
    BY <2>1, <2>2, SeqMonotonic
<1>3. Between(0, k) \o Between(k, m) = Between(0, m)
  BY <1>1, BetweenConcat
<1>4. ASSUME NEW s PROVE On(Between(0, m), s) = On(Between(0, k), s) \o On(Between(k, m), s)
  <2>1. \A p, q \in Seq(1..N) : Those(p \o q, OnStream(s)) = Those(p, OnStream(s)) \o Those(q, OnStream(s))
    BY ThoseConcat
  <2>2. Those(Between(0, k) \o Between(k, m), OnStream(s))
           = Those(Between(0, k), OnStream(s)) \o Those(Between(k, m), OnStream(s))
    BY <1>2, <2>1, Zenon
  <2> QED
    BY <1>3, <2>2, OnIs, Zenon
<1> QED
  BY <1>1, <1>2, <1>4

LEMMA OnType ==
    ASSUME NEW q \in Seq(DOMAIN wire), NEW s
    PROVE  On(q, s) \in Seq(DOMAIN wire)
BY ThoseType DEF On

LEMMA OnConcat ==
    ASSUME NEW p \in Seq(DOMAIN wire), NEW q \in Seq(DOMAIN wire), NEW s
    PROVE  On(p \o q, s) = On(p, s) \o On(q, s)
<1>1. Those(p \o q, OnStream(s)) = Those(p, OnStream(s)) \o Those(q, OnStream(s))
  BY ThoseConcat
<1> QED
  BY <1>1, OnIs, Zenon

LEMMA OnEmpty == \A s : On(<<>>, s) = <<>>
BY ThoseEmpty DEF On

\* Of what is on a stream, all is on it, and nothing on another.
LEMMA OnOn ==
    ASSUME NEW q \in Seq(DOMAIN wire), NEW s, NEW t
    PROVE  On(On(q, s), t) = IF s = t THEN On(q, s) ELSE <<>>
<1>1. Those(Those(q, OnStream(s)), OnStream(t)) = Those(q, OnStream(s) \cap OnStream(t))
  BY ThoseOfThose
<1>2. CASE s = t
  <2>1. OnStream(s) \cap OnStream(t) = OnStream(s)
    BY <1>2
  <2> QED
    BY <1>1, <1>2, <2>1, OnIs, Zenon
<1>3. CASE s # t
  <2>1. OnStream(s) \cap OnStream(t) = {}
    BY <1>3 DEF OnStream
  <2>2. Those(q, OnStream(s) \cap OnStream(t)) = <<>>
    BY <2>1, ThoseNone
  <2> QED
    BY <1>1, <1>3, <2>2, OnIs, Zenon
<1> QED
  BY <1>2, <1>3

\* Of what a callback is handed, what is on its stream, or on the connection.
LEMMA OnHanded ==
    ASSUME NEW q \in Seq(DOMAIN wire), NEW s, NEW t \in {s, Connection}
    PROVE  On(Those(q, {i \in DOMAIN wire : wire[i].on \in {s, Connection}}), t) = On(q, t)
<1> DEFINE A == {i \in DOMAIN wire : wire[i].on \in {s, Connection}}
<1>1. A \cap OnStream(t) = OnStream(t)
  BY DEF OnStream
<1> HIDE DEF A
<1>2. Those(Those(q, A), OnStream(t)) = Those(q, A \cap OnStream(t))
  BY ThoseOfThose
<1>3. On(Those(q, A), t) = On(q, t)
  BY <1>1, <1>2, OnIs, Zenon
<1> QED
  BY <1>3 DEF A

\* What is on a stream does not change with the rest of the state.
LEMMA SameWire ==
    ASSUME wire' = wire
    PROVE  /\ EndOf' = EndOf
           /\ \A q, s : On(q, s)' = On(q, s)
BY DEF EndOf, On

LEMMA SameFrames ==
    ASSUME wire' = wire, received' = received
    PROVE  /\ Whole' = Whole
           /\ \A s : Sent(s)' = Sent(s)
<1>1. Whole' = Whole
  BY SameWire DEF Whole
<1> QED
  BY <1>1 DEF Sent

\* What was given up stays so.
LEMMA GoneStays ==
    ASSUME wire \in Wires, wire' = wire, Whole \subseteq Whole', closed => closed', NEW s, Gone(s)
    PROVE  Gone(s)'
BY DEF Gone

(***************************************************************************)
(* The steps.                                                              *)
(***************************************************************************)
\* The frames of s there are, wherever they have got to.
Kept(s) == On(written[s], s) \o On(due[s], s) \o streams[s].buffer

LEMMA KeptIs ==
    EachFrameOnceInOrder <=>
        \A s \in Stream :
            /\ request[s] \in {"none", "dispatched", "early", "echoing"} => Kept(s) = Sent(s)
            /\ request[s] = "echoing" =>
                  On(written[s], Connection) \o On(due[s], Connection) = Sent(Connection)
BY DEF EachFrameOnceInOrder, Kept

\* The states a stream is given: a new one, with a callback, and stopped.
EchoState == [NewState EXCEPT !.callback = TRUE]
StoppedState == [NewState EXCEPT !.stopped = TRUE]

LEMMA Wider ==
    ASSUME NEW X, NEW state \in [callback: BOOLEAN, buffer: {<<>>}, stopped: BOOLEAN]
    PROVE  state \in [callback: BOOLEAN, buffer: Seq(X), stopped: BOOLEAN] /\ state.buffer = <<>>
<1>1. PICK S : S = Seq(X) /\ <<>> \in S
  <2>1. <<>> \in Seq(X)
    OBVIOUS
  <2> QED
    BY <2>1, Zenon
<1>2. state \in [callback: BOOLEAN, buffer: S, stopped: BOOLEAN]
  BY <1>1
<1> QED
  BY <1>1, <1>2

LEMMA NewIs ==
    /\ NewState \in [callback: BOOLEAN, buffer: {<<>>}, stopped: BOOLEAN]
    /\ NewState.buffer = <<>> /\ ~ NewState.callback /\ ~ NewState.stopped
BY DEF NewState

LEMMA EchoIs ==
    /\ EchoState \in [callback: BOOLEAN, buffer: {<<>>}, stopped: BOOLEAN]
    /\ EchoState.buffer = <<>> /\ EchoState.callback /\ ~ EchoState.stopped
<1>1. /\ EchoState \in [callback: BOOLEAN, buffer: {<<>>}, stopped: BOOLEAN]
      /\ EchoState.callback = TRUE /\ EchoState.stopped = FALSE
  BY NewIs DEF EchoState
<1> QED
  BY <1>1

LEMMA StoppedIs ==
    /\ StoppedState \in [callback: BOOLEAN, buffer: {<<>>}, stopped: BOOLEAN]
    /\ StoppedState.buffer = <<>> /\ ~ StoppedState.callback /\ StoppedState.stopped
<1>1. /\ StoppedState \in [callback: BOOLEAN, buffer: {<<>>}, stopped: BOOLEAN]
      /\ StoppedState.callback = FALSE /\ StoppedState.stopped = TRUE
  BY NewIs DEF StoppedState
<1> QED
  BY <1>1

\* At boot nothing has come in (process-connection.ts:75-165).
LEMMA FramesInitInv == Init => FramesInv
<1> SUFFICES ASSUME Init PROVE FramesInv
  OBVIOUS
<1>1. /\ Len(wire) \in Nat /\ 0 \in 0..Len(wire) /\ wire \in Wires /\ received = 0
      /\ PrefaceSize \in Nat \ {0} /\ <<>> \in Seq(DOMAIN wire) /\ <<>> \in Seq(Nat)
  BY FrameEnds, Sizes DEF Init
<1>2. \A s \in Stream : /\ streams[s] = NewState /\ due[s] = <<>> /\ written[s] = <<>>
                        /\ request[s] = "none"
  BY DEF Init
<1>3. StreamTypes
  BY <1>1 DEF Init, StreamTypes, NewState
<1>4. TypeOK
  <2>1. \A s \in Stream : streams[s].buffer = <<>> /\ ~ streams[s].callback /\ ~ streams[s].stopped
    BY <1>2, NewIs, Zenon
  <2>2. globalFrames = <<>> /\ partialData = <<>> /\ closed = FALSE /\ request = [s \in Stream |-> "none"]
    BY DEF Init
  <2> QED
    BY <1>1, <1>2, <2>1, <2>2 DEF TypeOK
<1>5. Between(0, 0) = <<>>
  BY DEF Between
<1>6. Whole = 1..0
  <2>1. \A i \in 1..Len(wire) : ~ (EndOf[i] <= received)
    <3> SUFFICES ASSUME NEW i \in 1..Len(wire) PROVE ~ (EndOf[i] <= received)
      OBVIOUS
    <3>1. i \in 0..Len(wire) /\ 0 <= i
      BY <1>1
    <3>2. EndOf[0] = PrefaceSize /\ EndOf[0] <= EndOf[i] /\ EndOf[i] \in Nat
      BY <1>1, <3>1, FrameEnds
    <3> QED
      BY <1>1, <3>2
  <2>2. \A i \in 1..Len(wire) : ~ (i <= 0)
    OBVIOUS
  <2> QED
    BY <1>1, <2>1, <2>2, WholeIs
<1>7. Routed
  <2>1. RoutedTo(0)
    BY <1>1, <1>5, <1>6, OnEmpty DEF Init, RoutedTo, KeptFrom
  <2> QED
    BY <1>1, <2>1 DEF Routed
<1>8. EachFrameOnceInOrder
  <2>1. \A s : Sent(s) = <<>>
    BY <1>1, <1>5, <1>6, SentIs, OnEmpty
  <2>2. <<>> \o <<>> = <<>>
    OBVIOUS
  <2>3. \A s \in Stream : Kept(s) = <<>>
    <3> TAKE s \in Stream
    <3>1. due[s] = <<>> /\ written[s] = <<>> /\ streams[s].buffer = <<>>
      BY <1>2 DEF NewState
    <3> QED
      BY <2>2, <3>1, OnEmpty, Zenon DEF Kept
  <2> QED
    BY <1>2, <2>1, <2>3, KeptIs
<1> QED
  BY <1>2, <1>3, <1>4, <1>7, <1>8 DEF FramesInv, OnlyEchoesWrite, EmptyBuffers, OthersStopped, NewState

\* A segment comes in.
LEMMA FramesReceive ==
    ASSUME FramesInv, NEW n \in Nat, Receive(n)
    PROVE  FramesInv'
<1>1. /\ wire \in Wires /\ received \in Nat /\ wire' = wire /\ received' = received + n
      /\ request' = request /\ written' = written /\ closed' = closed
      /\ \A s \in Stream : streams[s].callback <=> request[s] = "echoing"
      /\ \A s \in Stream : streams[s].stopped => request[s] = "other"
  BY DEF FramesInv, TypeOK, Receive
<1>2. PICK k \in 0..Len(wire) : RoutedTo(k)
  BY DEF FramesInv, Routed
<1>3. PICK r \in Nat : r = received + n /\ received <= r
  BY <1>1
<1>4. PICK m \in 0..Len(wire) : UpTo(r, m)
  BY <1>1, WholeUpTo DEF UpTo
<1>5. PICK e \in Nat : /\ e = KeptFrom(received, k) /\ e <= received /\ e <= EndOf[k]
                       /\ partialData \o [p \in 1..n |-> received + p] = Between(e, received + n)
  BY <1>1, <1>2, SegmentIsData
<1>d. PICK data : data = Between(e, r)
  OBVIOUS
<1> DEFINE frames == Between(k, m)
<1>6. /\ k <= m /\ Parse(data).frames = frames
      /\ SubSeq(data, Parse(data).end + 1, Len(data)) = Between(KeptFrom(r, m), r)
  <2>1. ParsedTo(data, k, m, r)
    BY <1>1, <1>2, <1>3, <1>4, <1>5, <1>d, SegmentParsed
  <2> QED
    BY <2>1 DEF ParsedTo
<1>7. RouteFrames(frames) /\ partialData' = Between(KeptFrom(r, m), r)
  <2>1. partialData \o [p \in 1..n |-> received + p] = data
    BY <1>3, <1>5, <1>d
  <2> HIDE DEF frames
  <2> QED
    BY <1>6, <2>1 DEF Receive
<1>8. /\ frames \in Seq(DOMAIN wire)
      /\ \A s : On(Between(0, m), s) = On(Between(0, k), s) \o On(frames, s)
  BY <1>1, <1>6, OnMore
<1> HIDE DEF frames
<1>9. \A s : On(frames, s) \in Seq(DOMAIN wire)
  BY <1>8, OnType
<1>10. Whole' = 1..m
  <2>1. wire' \in Wires /\ Len(wire') = Len(wire) /\ received' = r
    BY <1>1, <1>3
  <2>2. \A i \in 1..Len(wire) : EndOf'[i] <= received' <=> i <= m
    BY <1>1, <1>4, <2>1, SameWire DEF UpTo
  <2>3. Len(wire) \in Nat /\ \A i : i \in Whole' <=> i \in 1..Len(wire) /\ EndOf'[i] <= received'
    <3>1. DOMAIN wire' = 1..Len(wire) /\ Len(wire) \in Nat
      BY <1>1, FrameEnds
    <3> QED
      BY <3>1 DEF Whole
  <2>4. \A i : i \in 1..m <=> i \in 1..Len(wire) /\ i <= m
    BY <2>3
  <2> QED
    BY <2>2, <2>3, <2>4
<1>11. /\ streams \in [Stream -> [callback: BOOLEAN, buffer: Seq(DOMAIN wire), stopped: BOOLEAN]]
       /\ due \in [Stream -> Seq(DOMAIN wire)] /\ written \in [Stream -> Seq(DOMAIN wire)]
  BY DEF FramesInv, StreamTypes
<1>12. ASSUME NEW s \in Stream
       PROVE  /\ streams'[s] \in [callback: BOOLEAN, buffer: Seq(DOMAIN wire), stopped: BOOLEAN]
              /\ streams'[s].callback = streams[s].callback
              /\ streams'[s].stopped = streams[s].stopped
              /\ IF streams[s].callback \/ streams[s].stopped
                 THEN streams'[s].buffer = streams[s].buffer
                 ELSE streams'[s].buffer = streams[s].buffer \o On(frames, s)
  <2>1. streams[s] \in [callback: BOOLEAN, buffer: Seq(DOMAIN wire), stopped: BOOLEAN]
    BY <1>11
  <2>2. streams'[s] = IF On(frames, s) = <<>> \/ streams[s].callback \/ streams[s].stopped
                      THEN streams[s]
                      ELSE [streams[s] EXCEPT !.buffer = streams[s].buffer \o On(frames, s)]
    BY <1>7 DEF RouteFrames
  <2>3. On(frames, s) \in Seq(DOMAIN wire) /\ streams[s].buffer \in Seq(DOMAIN wire)
    BY <1>9, <2>1
  <2>4. CASE streams[s].callback \/ streams[s].stopped
    BY <2>1, <2>2, <2>4
  <2>5. CASE On(frames, s) = <<>> /\ ~ (streams[s].callback \/ streams[s].stopped)
    <3>1. streams[s].buffer \o On(frames, s) = streams[s].buffer
      BY <2>3, <2>5
    <3> QED
      BY <2>1, <2>2, <2>5, <3>1
  <2>6. CASE On(frames, s) # <<>> /\ ~ (streams[s].callback \/ streams[s].stopped)
    <3>1. streams[s].buffer \o On(frames, s) \in Seq(DOMAIN wire)
      BY <2>3
    <3> QED
      BY <2>1, <2>2, <2>6, <3>1
  <2> QED
    BY <2>4, <2>5, <2>6
<1> DEFINE handed(s) == Those(frames, {i \in DOMAIN wire : wire[i].on \in {s, Connection}})
<1>13. ASSUME NEW s \in Stream
       PROVE  /\ due'[s] = IF streams[s].callback THEN due[s] \o handed(s) ELSE due[s]
              /\ due'[s] \in Seq(DOMAIN wire) /\ handed(s) \in Seq(DOMAIN wire)
  <2>1. due'[s] = IF streams[s].callback THEN due[s] \o handed(s) ELSE due[s]
    BY <1>7 DEF RouteFrames
  <2>2. handed(s) \in Seq(DOMAIN wire) /\ due[s] \in Seq(DOMAIN wire)
    BY <1>8, <1>11, ThoseType
  <2> HIDE DEF handed
  <2>3. due[s] \o handed(s) \in Seq(DOMAIN wire)
    BY <2>2
  <2> QED
    BY <2>1, <2>2, <2>3, Zenon
<1> HIDE DEF handed
<1>14. globalFrames' = On(Between(0, m), Connection)
  BY <1>2, <1>7, <1>8 DEF RouteFrames, RoutedTo
<1>15. Routed'
  <2>1. /\ Whole' = 1..m
        /\ globalFrames' = On(Between(0, m), Connection)'
        /\ partialData' = Between(KeptFrom(received, m), received)'
    <3>1. KeptFrom(received, m)' = KeptFrom(r, m)
      BY <1>1, <1>3, SameWire DEF KeptFrom
    <3> QED
      BY <1>1, <1>3, <1>7, <1>10, <1>14, <3>1, SameWire
  <2>2. RoutedTo(m)'
    BY <2>1 DEF RoutedTo
  <2> QED
    BY <1>1, <2>2 DEF Routed
<1>16. StreamTypes'
  <2>1. streams' = [s \in Stream |-> streams'[s]] /\ due' = [s \in Stream |-> due'[s]]
    BY <1>7 DEF RouteFrames
  <2> QED
    BY <1>1, <1>11, <1>12, <1>13, <2>1 DEF StreamTypes
<1>17. TypeOK'
  <2>1. globalFrames' \in Seq(DOMAIN wire)
    <3>1. m \in Nat /\ 0 \in 0..Len(wire) /\ 0 <= m
      BY <1>1, FrameEnds
    <3> QED
      BY <1>1, <1>14, <3>1, OnMore, OnType
  <2>2. partialData' \in Seq(Nat)
    <3>1. PICK a \in Int : partialData' = Between(a, r) /\ a >= 0
      <4>1. EndOf[m] \in Nat
        BY <1>1, FrameEnds
      <4> QED
        BY <1>7, <4>1 DEF KeptFrom
    <3>2. CASE r - a \in Nat
      BY <3>1, <3>2 DEF Between
    <3>3. CASE ~ (r - a \in Nat)
      <4>1. 1..(r - a) = {}
        BY <3>1, <3>3
      <4>2. Between(a, r) = <<>>
        BY <4>1 DEF Between
      <4> QED
        BY <3>1, <4>2
    <3> QED
      BY <3>2, <3>3
  <2>3. \A s \in Stream : /\ streams'[s].buffer \in Seq(DOMAIN wire)
                          /\ streams'[s].callback <=> request'[s] = "echoing"
                          /\ streams'[s].stopped => request'[s] = "other"
                          /\ due'[s] \in Seq(DOMAIN wire)
                          /\ written'[s] \in Seq(DOMAIN wire)
    BY <1>1, <1>11, <1>12, <1>13
  <2>4. request' \in [Stream -> {"none", "dispatched", "echoing", "ended", "other", "early", "failed"}]
        /\ closed' \in BOOLEAN
    BY <1>1 DEF FramesInv, TypeOK
  <2> QED
    BY <1>1, <1>3, <2>1, <2>2, <2>3, <2>4 DEF TypeOK
<1>18. OnlyEchoesWrite'
  <2> SUFFICES ASSUME NEW s \in Stream, request[s] \notin {"echoing", "ended"}
               PROVE  due'[s] = <<>> /\ written[s] = <<>>
    BY <1>1 DEF OnlyEchoesWrite
  <2>1. ~ streams[s].callback /\ due[s] = <<>> /\ written[s] = <<>>
    BY <1>1 DEF FramesInv, OnlyEchoesWrite
  <2> QED
    BY <1>13, <2>1
<1>19. EmptyBuffers'
  <2> SUFFICES ASSUME NEW s \in Stream, streams'[s].callback \/ streams'[s].stopped
               PROVE  streams'[s].buffer = <<>>
    BY DEF EmptyBuffers
  <2> QED
    BY <1>12 DEF FramesInv, EmptyBuffers
<1>20. OthersStopped'
  <2>1. Whole \subseteq Whole'
    <3>1. Whole = 1..k /\ k \in Nat /\ m \in Nat
      BY <1>1, <1>2, FrameEnds DEF RoutedTo
    <3> QED
      BY <1>6, <1>10, <3>1
  <2> SUFFICES ASSUME NEW s \in Stream, request[s] = "other" PROVE streams'[s].stopped \/ Gone(s)'
    BY <1>1 DEF OthersStopped
  <2>2. streams[s].stopped \/ Gone(s)
    BY DEF FramesInv, OthersStopped
  <2> QED
    BY <1>1, <1>12, <2>1, <2>2, GoneStays
<1>21. EachFrameOnceInOrder'
  <2>1. \A s : Sent(s)' = Sent(s) \o On(frames, s)
    <3> TAKE s
    <3>1. Sent(s) = On(Between(0, k), s)
      BY <1>1, <1>2, SentIs DEF RoutedTo
    <3>2. Sent(s)' = On(Between(0, m), s)
      <4>1. Sent(s)' = Those([i \in 1..Len(wire) |-> i], {i \in 1..m : wire[i].on = s})
        BY <1>1, <1>10 DEF Sent
      <4> QED
        BY <1>1, <4>1, SentUpTo, Zenon
    <3> QED
      BY <1>8, <3>1, <3>2
  <2>2. \A s : Sent(s) \in Seq(DOMAIN wire)
    <3>1. 0 \in 0..Len(wire) /\ 0 <= k
      BY <1>1, FrameEnds
    <3> QED
      BY <1>1, <1>2, <3>1, SentIs, OnMore, OnType DEF RoutedTo
  <2> SUFFICES ASSUME NEW s \in Stream
               PROVE  /\ request[s] \in {"none", "dispatched", "early", "echoing"}
                            => Kept(s)' = Sent(s) \o On(frames, s)
                      /\ request[s] = "echoing"
                            => On(written[s], Connection) \o On(due'[s], Connection)
                                  = Sent(Connection) \o On(frames, Connection)
    BY <1>1, <2>1, SameWire DEF EachFrameOnceInOrder, Kept
  <2>3. /\ request[s] \in {"none", "dispatched", "early", "echoing"} => Kept(s) = Sent(s)
        /\ request[s] = "echoing"
              => On(written[s], Connection) \o On(due[s], Connection) = Sent(Connection)
    BY KeptIs DEF FramesInv
  <2>4. Kept(s)' = On(written[s], s) \o On(due'[s], s) \o streams'[s].buffer
    BY <1>1, SameWire DEF Kept
  <2>5. \A t : On(written[s], t) \in Seq(DOMAIN wire) /\ On(due[s], t) \in Seq(DOMAIN wire)
    BY <1>11, OnType
  <2>6. streams[s].buffer \in Seq(DOMAIN wire)
    BY <1>11
  <2>9. /\ \A t : On(written[s], t) \o (On(due[s], t) \o On(frames, t))
                   = (On(written[s], t) \o On(due[s], t)) \o On(frames, t)
        /\ On(written[s], s) \o (On(due[s], s) \o On(frames, s)) \o <<>>
              = (On(written[s], s) \o On(due[s], s) \o <<>>) \o On(frames, s)
        /\ On(written[s], s) \o On(due[s], s) \o (streams[s].buffer \o On(frames, s))
              = (On(written[s], s) \o On(due[s], s) \o streams[s].buffer) \o On(frames, s)
    <3> SUFFICES ASSUME NEW t
                 PROVE  /\ On(written[s], t) \o (On(due[s], t) \o On(frames, t))
                              = (On(written[s], t) \o On(due[s], t)) \o On(frames, t)
                        /\ On(written[s], t) \o (On(due[s], t) \o On(frames, t)) \o <<>>
                              = (On(written[s], t) \o On(due[s], t) \o <<>>) \o On(frames, t)
                        /\ On(written[s], t) \o On(due[s], t) \o (streams[s].buffer \o On(frames, t))
                              = (On(written[s], t) \o On(due[s], t) \o streams[s].buffer) \o On(frames, t)
      OBVIOUS
    <3>1. PICK p \in Seq(DOMAIN wire) : p = On(written[s], t)
      BY <2>5
    <3>2. PICK q \in Seq(DOMAIN wire) : q = On(due[s], t)
      BY <2>5
    <3>3. PICK b \in Seq(DOMAIN wire) : b = streams[s].buffer
      BY <2>6
    <3>4. PICK f \in Seq(DOMAIN wire) : f = On(frames, t)
      BY <1>9
    <3>5. /\ p \o (q \o f) = (p \o q) \o f
          /\ p \o (q \o f) \o <<>> = (p \o q \o <<>>) \o f
          /\ p \o q \o (b \o f) = (p \o q \o b) \o f
      <4>1. PICK pq \in Seq(DOMAIN wire) : pq = p \o q
        <5>1. p \o q \in Seq(DOMAIN wire)
          OBVIOUS
        <5> QED
          BY <5>1
      <4>2. PICK qf \in Seq(DOMAIN wire) : qf = q \o f
        <5>1. q \o f \in Seq(DOMAIN wire)
          OBVIOUS
        <5> QED
          BY <5>1
      <4>3. (p \o q) \o f = p \o (q \o f)
        <5>1. Regroups(p, q, f)
          BY Regroup
        <5> QED
          BY <5>1 DEF Regroups
      <4>4. (p \o qf) \o <<>> = p \o qf /\ pq \o <<>> = pq
        OBVIOUS
      <4>5. (pq \o b) \o f = pq \o (b \o f)
        <5>1. Regroups(pq, b, f)
          BY Regroup
        <5> QED
          BY <5>1 DEF Regroups
      <4> QED
        BY <4>1, <4>2, <4>3, <4>4, <4>5, Zenon
    <3> QED
      BY <3>1, <3>2, <3>3, <3>4, <3>5, Zenon
  <2>7. CASE request[s] = "echoing"
    <3>1. streams[s].callback /\ streams[s].buffer = <<>> /\ streams'[s].buffer = <<>>
      BY <1>1, <1>12, <2>7 DEF FramesInv, EmptyBuffers
    <3>2. \A t \in {s, Connection} : On(due'[s], t) = On(due[s], t) \o On(frames, t)
      <4> TAKE t \in {s, Connection}
      <4>1. due'[s] = due[s] \o handed(s) /\ handed(s) \in Seq(DOMAIN wire) /\ due[s] \in Seq(DOMAIN wire)
        BY <1>11, <1>13, <3>1
      <4>2. On(handed(s), t) = On(frames, t)
        BY <1>8, OnHanded DEF handed
      <4> QED
        BY <4>1, <4>2, OnConcat
    <3> HIDE DEF handed
    <3>3. On(written[s], s) \o (On(due[s], s) \o On(frames, s)) \o <<>>
             = (On(written[s], s) \o On(due[s], s) \o <<>>) \o On(frames, s)
      BY <2>9
    <3>4. On(written[s], Connection) \o (On(due[s], Connection) \o On(frames, Connection))
             = (On(written[s], Connection) \o On(due[s], Connection)) \o On(frames, Connection)
      BY <2>9
    <3> QED
      BY <2>3, <2>4, <2>7, <3>1, <3>2, <3>3, <3>4, Zenon DEF Kept
  <2>8. CASE request[s] \in {"none", "dispatched", "early"}
    <3>1. ~ streams[s].callback /\ ~ streams[s].stopped
      BY <1>1, <2>8
    <3>2. due'[s] = due[s] /\ streams'[s].buffer = streams[s].buffer \o On(frames, s)
      BY <1>12, <1>13, <3>1
    <3>3. On(written[s], s) \o On(due[s], s) \o (streams[s].buffer \o On(frames, s))
             = (On(written[s], s) \o On(due[s], s) \o streams[s].buffer) \o On(frames, s)
      BY <2>9
    <3> QED
      BY <2>3, <2>4, <2>8, <3>2, <3>3, Zenon DEF Kept
  <2> QED
    BY <2>7, <2>8
<1> QED
  BY <1>15, <1>16, <1>17, <1>18, <1>19, <1>20, <1>21 DEF FramesInv

\* What the invariant says of one stream.
StreamInv(s) ==
    /\ streams[s] \in [callback: BOOLEAN, buffer: Seq(DOMAIN wire), stopped: BOOLEAN]
    /\ due[s] \in Seq(DOMAIN wire) /\ written[s] \in Seq(DOMAIN wire)
    /\ request[s] \in {"none", "dispatched", "echoing", "ended", "other", "early", "failed"}
    /\ streams[s].callback <=> request[s] = "echoing"
    /\ streams[s].stopped => request[s] = "other"
    /\ request[s] \notin {"echoing", "ended"} => due[s] = <<>> /\ written[s] = <<>>
    /\ streams[s].callback \/ streams[s].stopped => streams[s].buffer = <<>>
    /\ request[s] = "other" => streams[s].stopped \/ Gone(s)
    /\ request[s] \in {"none", "dispatched", "early", "echoing"} => Kept(s) = Sent(s)
    /\ request[s] = "echoing" =>
          On(written[s], Connection) \o On(due[s], Connection) = Sent(Connection)

LEMMA OfEachStream == FramesInv => \A s \in Stream : StreamInv(s)
<1> SUFFICES ASSUME FramesInv, NEW s \in Stream PROVE StreamInv(s)
  OBVIOUS
<1>1. /\ streams[s] \in [callback: BOOLEAN, buffer: Seq(DOMAIN wire), stopped: BOOLEAN]
      /\ due[s] \in Seq(DOMAIN wire) /\ written[s] \in Seq(DOMAIN wire)
      /\ request[s] \in {"none", "dispatched", "echoing", "ended", "other", "early", "failed"}
      /\ streams[s].callback <=> request[s] = "echoing"
      /\ streams[s].stopped => request[s] = "other"
  BY DEF FramesInv, TypeOK, StreamTypes
<1>2. /\ request[s] \notin {"echoing", "ended"} => due[s] = <<>> /\ written[s] = <<>>
      /\ streams[s].callback \/ streams[s].stopped => streams[s].buffer = <<>>
      /\ request[s] = "other" => streams[s].stopped \/ Gone(s)
  BY DEF FramesInv, OnlyEchoesWrite, EmptyBuffers, OthersStopped
<1>3. /\ request[s] \in {"none", "dispatched", "early", "echoing"} => Kept(s) = Sent(s)
      /\ request[s] = "echoing" =>
            On(written[s], Connection) \o On(due[s], Connection) = Sent(Connection)
  BY KeptIs DEF FramesInv
<1> QED
  BY <1>1, <1>2, <1>3, Zenon DEF StreamInv

\* A step in which nothing comes in, and at most one stream changes.
LEMMA OneStream ==
    ASSUME FramesInv, NEW s \in Stream, StreamInv(s)',
           UNCHANGED <<wire, received, partialData, globalFrames, closed>>,
           streams' = [streams EXCEPT ![s] = streams'[s]], due' = [due EXCEPT ![s] = due'[s]],
           written' = [written EXCEPT ![s] = written'[s]],
           request' = [request EXCEPT ![s] = request'[s]]
    PROVE  FramesInv'
<1>1. wire \in Wires /\ received \in Nat /\ wire' = wire /\ received' = received
  BY DEF FramesInv, TypeOK
<1>2. /\ Whole' = Whole /\ EndOf' = EndOf
      /\ \A t : Sent(t)' = Sent(t)
      /\ \A q, t : On(q, t)' = On(q, t)
      /\ \A t : Gone(t) => Gone(t)'
  <2>1. \A t : Gone(t) => Gone(t)'
    BY <1>1, SameFrames, GoneStays
  <2> QED
    BY <1>1, <2>1, SameFrames, SameWire
<1>3. /\ streams \in [Stream -> [callback: BOOLEAN, buffer: Seq(DOMAIN wire), stopped: BOOLEAN]]
      /\ due \in [Stream -> Seq(DOMAIN wire)] /\ written \in [Stream -> Seq(DOMAIN wire)]
      /\ request \in [Stream -> {"none", "dispatched", "echoing", "ended", "other", "early", "failed"}]
  BY DEF FramesInv, StreamTypes, TypeOK
<1>4. ASSUME NEW t \in Stream PROVE StreamInv(t)'
  <2>1. CASE t = s
    BY <2>1
  <2>2. CASE t # s
    <3>1. streams'[t] = streams[t] /\ due'[t] = due[t] /\ written'[t] = written[t]
          /\ request'[t] = request[t]
      BY <1>3, <2>2
    <3>2. Kept(t)' = Kept(t)
      BY <1>2, <3>1 DEF Kept
    <3>3. On(written[t], Connection)' = On(written[t], Connection)
          /\ On(due[t], Connection)' = On(due[t], Connection)
      BY <1>2, <3>1
    <3>4. StreamInv(t)
      BY OfEachStream
    <3> QED
      BY <1>1, <1>2, <3>1, <3>2, <3>3, <3>4, Zenon DEF StreamInv
  <2> QED
    BY <2>1, <2>2
<1>5. StreamTypes'
  <2>1. \A t \in Stream :
           /\ streams'[t] \in [callback: BOOLEAN, buffer: Seq(DOMAIN wire), stopped: BOOLEAN]
           /\ due'[t] \in Seq(DOMAIN wire) /\ written'[t] \in Seq(DOMAIN wire)
    BY <1>1, <1>4 DEF StreamInv
  <2> QED
    BY <1>1, <1>3, <2>1 DEF StreamTypes
<1>6. TypeOK'
  <2>1. \A t \in Stream :
           /\ streams'[t] \in [callback: BOOLEAN, buffer: Seq(DOMAIN wire), stopped: BOOLEAN]
           /\ due'[t] \in Seq(DOMAIN wire) /\ written'[t] \in Seq(DOMAIN wire)
           /\ request'[t] \in {"none", "dispatched", "echoing", "ended", "other", "early", "failed"}
           /\ streams'[t].callback <=> request'[t] = "echoing"
           /\ streams'[t].stopped => request'[t] = "other"
    BY <1>1, <1>4 DEF StreamInv
  <2>2. request' \in [Stream -> {"none", "dispatched", "echoing", "ended", "other", "early", "failed"}]
    BY <1>3, <2>1
  <2>3. \A t \in Stream : streams'[t].buffer \in Seq(DOMAIN wire)
    BY <2>1
  <2> QED
    BY <1>1, <2>1, <2>2, <2>3 DEF FramesInv, TypeOK
<1>7. Routed'
  <2>1. PICK k \in 0..Len(wire) : RoutedTo(k)
    BY DEF FramesInv, Routed
  <2>2. On(Between(0, k), Connection)' = On(Between(0, k), Connection)
    BY <1>2
  <2>3. RoutedTo(k)'
    BY <1>1, <1>2, <2>1, <2>2 DEF RoutedTo, KeptFrom
  <2> QED
    BY <1>1, <2>3 DEF Routed
<1>8. OnlyEchoesWrite' /\ EmptyBuffers' /\ OthersStopped'
  BY <1>4 DEF StreamInv, OnlyEchoesWrite, EmptyBuffers, OthersStopped
<1>9. EachFrameOnceInOrder'
  <2> SUFFICES ASSUME NEW t \in Stream
               PROVE  /\ request'[t] \in {"none", "dispatched", "early", "echoing"} => Kept(t)' = Sent(t)'
                      /\ request'[t] = "echoing" =>
                            On(written[t], Connection)' \o On(due[t], Connection)' = Sent(Connection)'
    BY DEF EachFrameOnceInOrder, Kept
  <2> QED
    BY <1>4 DEF StreamInv
<1> QED
  BY <1>5, <1>6, <1>7, <1>8, <1>9 DEF FramesInv

\* The facts about one stream that its actions start from.
LEMMA StreamFacts ==
    ASSUME FramesInv, NEW s \in Stream
    PROVE  /\ StreamInv(s)
           /\ wire \in Wires /\ s # Connection
           /\ streams \in [Stream -> [callback: BOOLEAN, buffer: Seq(DOMAIN wire), stopped: BOOLEAN]]
           /\ due \in [Stream -> Seq(DOMAIN wire)] /\ written \in [Stream -> Seq(DOMAIN wire)]
           /\ request \in [Stream -> {"none", "dispatched", "echoing", "ended", "other", "early", "failed"}]
           /\ <<>> \in Seq(DOMAIN wire)
<1>1. StreamInv(s)
  BY OfEachStream
<1>2. s # Connection
  BY StreamNumbers
<1>3. <<>> \in Seq(DOMAIN wire)
  OBVIOUS
<1>4. /\ wire \in Wires
      /\ streams \in [Stream -> [callback: BOOLEAN, buffer: Seq(DOMAIN wire), stopped: BOOLEAN]]
      /\ due \in [Stream -> Seq(DOMAIN wire)] /\ written \in [Stream -> Seq(DOMAIN wire)]
      /\ request \in [Stream -> {"none", "dispatched", "echoing", "ended", "other", "early", "failed"}]
  BY DEF FramesInv, StreamTypes, TypeOK
<1> QED
  BY <1>1, <1>2, <1>3, <1>4, Zenon

\* A request is dispatched or answered early, or its echo starts too late: the frames stay.
LEMMA FramesMove ==
    ASSUME FramesInv, NEW s \in Stream, DispatchEcho(s) \/ AnswerEarly(s) \/ EchoTooLate(s)
    PROVE  FramesInv'
<1>1. PICK to \in {"dispatched", "early", "failed"} :
         /\ request' = [request EXCEPT ![s] = to]
         /\ to # "failed" => request[s] = "none"
         /\ to = "failed" => request[s] = "dispatched"
         /\ UNCHANGED <<wire, received, partialData, globalFrames, streams, due, written, closed>>
  BY DEF DispatchEcho, AnswerEarly, EchoTooLate, Requested, Move
<1>2. /\ StreamInv(s) /\ wire' = wire /\ received' = received
      /\ streams' = streams /\ due' = due /\ written' = written /\ request'[s] = to
  BY <1>1, StreamFacts
<1>3. Kept(s)' = Kept(s) /\ Sent(s)' = Sent(s)
  BY <1>2, SameWire, SameFrames DEF Kept
<1>4. StreamInv(s)'
  BY <1>1, <1>2, <1>3 DEF StreamInv
<1> QED
  BY <1>1, <1>2, <1>4, StreamFacts, OneStream

LEMMA FramesOther ==
    ASSUME FramesInv, NEW s \in Stream, DispatchOther(s)
    PROVE  FramesInv'
<1>1. /\ request' = [request EXCEPT ![s] = "other"] /\ request[s] = "none"
      /\ UNCHANGED <<wire, received, partialData, globalFrames, due, written, closed>>
      /\ \/ streams' = [streams EXCEPT ![s] = StoppedState]
         \/ Gone(s) /\ streams' = streams
  BY StreamFacts DEF DispatchOther, Requested, Move, StopCapturingStream, StoppedState
<1>2. /\ StreamInv(s) /\ wire \in Wires /\ wire' = wire /\ received' = received /\ closed' = closed
      /\ due' = due /\ written' = written /\ request'[s] = "other"
  BY <1>1, StreamFacts
<1>3. Gone(s) => Gone(s)'
  BY <1>2, SameFrames, GoneStays
<1>4. /\ streams'[s] \in [callback: BOOLEAN, buffer: Seq(DOMAIN wire), stopped: BOOLEAN]
      /\ ~ streams'[s].callback /\ (streams'[s].stopped \/ Gone(s))
      /\ streams'[s].stopped => streams'[s].buffer = <<>>
      /\ streams' = [streams EXCEPT ![s] = streams'[s]]
  <2>1. CASE streams' = [streams EXCEPT ![s] = StoppedState]
    BY <2>1, StreamFacts, StoppedIs, Wider
  <2>2. CASE Gone(s) /\ streams' = streams
    BY <1>1, <1>2, <2>2, StreamFacts DEF StreamInv
  <2> QED
    BY <1>1, <2>1, <2>2
<1>5. StreamInv(s)'
  BY <1>1, <1>2, <1>3, <1>4 DEF StreamInv
<1>6. /\ due' = [due EXCEPT ![s] = due'[s]] /\ written' = [written EXCEPT ![s] = written'[s]]
      /\ request' = [request EXCEPT ![s] = request'[s]]
  BY <1>1, <1>2, StreamFacts
<1> QED
  BY <1>1, <1>4, <1>5, <1>6, OneStream

LEMMA FramesEnd ==
    ASSUME FramesInv, NEW s \in Stream, EndEcho(s)
    PROVE  FramesInv'
<1>1. /\ request' = [request EXCEPT ![s] = "ended"]
      /\ UNCHANGED <<wire, received, partialData, globalFrames, due, written, closed>>
      /\ streams' = [streams EXCEPT ![s] = NewState]
  BY DEF EndEcho, Move, RemoveStreamCallback
<1>2. /\ StreamInv(s) /\ wire' = wire
      /\ due' = due /\ written' = written /\ request'[s] = "ended" /\ streams'[s] = NewState
  BY <1>1, StreamFacts
<1>3. NewState \in [callback: BOOLEAN, buffer: Seq(DOMAIN wire), stopped: BOOLEAN]
  BY NewIs, Wider
<1>4. StreamInv(s)'
  BY <1>2, <1>3, NewIs DEF StreamInv
<1> QED
  BY <1>1, <1>2, <1>4, StreamFacts, OneStream

\* What the echo starts with: the connection's frames, and those buffered for its stream.
LEMMA FramesStart ==
    ASSUME FramesInv, NEW s \in Stream, StartEcho(s)
    PROVE  FramesInv'
<1> DEFINE buffer == streams[s].buffer
<1>1. /\ request' = [request EXCEPT ![s] = "echoing"] /\ request[s] = "dispatched"
      /\ UNCHANGED <<wire, received, partialData, globalFrames, due, closed>>
      /\ streams' = [streams EXCEPT ![s] = EchoState]
      /\ written' = [written EXCEPT ![s] = globalFrames \o buffer]
  BY StreamFacts DEF StartEcho, Move, AddStreamCallback, EchoState
<1>2. /\ StreamInv(s) /\ wire \in Wires /\ wire' = wire /\ received' = received
      /\ due' = due /\ request'[s] = "echoing" /\ s # Connection
      /\ streams'[s] = EchoState
      /\ written'[s] = globalFrames \o buffer
  BY <1>1, StreamFacts
<1>3. /\ due[s] = <<>> /\ written[s] = <<>> /\ Kept(s) = Sent(s)
      /\ buffer \in Seq(DOMAIN wire) /\ globalFrames \in Seq(DOMAIN wire)
  BY <1>1, <1>2 DEF StreamInv, FramesInv, TypeOK
<1> HIDE DEF buffer
<1>4. PICK k \in 0..Len(wire) : RoutedTo(k)
  BY DEF FramesInv, Routed
<1>5. /\ globalFrames = On(Between(0, k), Connection)
      /\ \A t : Sent(t) = On(Between(0, k), t)
      /\ Between(0, k) \in Seq(DOMAIN wire)
  <2>1. 0 \in 0..Len(wire) /\ 0 <= k
    BY <1>2, FrameEnds
  <2> QED
    BY <1>2, <1>4, <2>1, SentIs, OnMore DEF RoutedTo
<1>6. buffer = On(Between(0, k), s)
  <2>1. On(written[s], s) \o On(due[s], s) \o buffer = On(Between(0, k), s)
    BY <1>3, <1>5 DEF Kept, buffer
  <2>2. <<>> \o <<>> \o buffer = buffer
    BY <1>3
  <2> QED
    BY <1>3, <2>1, <2>2, OnEmpty, Zenon
<1>7. /\ On(globalFrames, s) = <<>> /\ On(globalFrames, Connection) = globalFrames
      /\ On(buffer, s) = buffer /\ On(buffer, Connection) = <<>>
  <2>1. On(On(Between(0, k), Connection), s) = <<>>
        /\ On(On(Between(0, k), Connection), Connection) = On(Between(0, k), Connection)
        /\ On(On(Between(0, k), s), s) = On(Between(0, k), s)
        /\ On(On(Between(0, k), s), Connection) = <<>>
    BY <1>2, <1>5, OnOn
  <2> QED
    BY <1>5, <1>6, <2>1, Zenon
<1>8. /\ On(globalFrames \o buffer, s) = buffer
      /\ On(globalFrames \o buffer, Connection) = globalFrames
      /\ globalFrames \o buffer \in Seq(DOMAIN wire)
  <2>1. \A t : On(globalFrames \o buffer, t) = On(globalFrames, t) \o On(buffer, t)
    BY <1>3, OnConcat
  <2>2. <<>> \o buffer = buffer /\ globalFrames \o <<>> = globalFrames
        /\ globalFrames \o buffer \in Seq(DOMAIN wire)
    BY <1>3
  <2> QED
    BY <1>7, <2>1, <2>2, Zenon
<1>9. Kept(s)' = Sent(s)'
  <2>1. Kept(s)' = On(written'[s], s) \o On(due'[s], s) \o streams'[s].buffer
    BY <1>2, SameWire DEF Kept
  <2>2. streams'[s].buffer = <<>> /\ buffer \o <<>> \o <<>> = buffer
    BY <1>2, <1>3, EchoIs
  <2>3. Kept(s)' = buffer
    BY <1>2, <1>3, <1>8, <2>1, <2>2, OnEmpty, Zenon
  <2> QED
    BY <1>2, <1>5, <1>6, <2>3, SameFrames
<1>10. On(written[s], Connection)' \o On(due[s], Connection)' = Sent(Connection)'
  <2>1. globalFrames \o <<>> = globalFrames
    BY <1>3
  <2>2. On(written[s], Connection)' = globalFrames /\ On(due[s], Connection)' = <<>>
    BY <1>2, <1>3, <1>8, OnEmpty, SameWire
  <2>3. Sent(Connection)' = globalFrames
    BY <1>2, <1>5, SameFrames
  <2> QED
    BY <2>1, <2>2, <2>3, Zenon
<1>11. StreamInv(s)'
  <2>1. streams'[s] \in [callback: BOOLEAN, buffer: Seq(DOMAIN wire), stopped: BOOLEAN]
        /\ streams'[s].buffer = <<>> /\ streams'[s].callback /\ ~ streams'[s].stopped
    BY <1>2, EchoIs, Wider
  <2>2. written'[s] \in Seq(DOMAIN wire') /\ due'[s] \in Seq(DOMAIN wire')
    BY <1>2, <1>3, <1>8
  <2> QED
    BY <1>2, <1>9, <1>10, <2>1, <2>2 DEF StreamInv
<1> QED
  BY <1>1, <1>2, <1>11, StreamFacts, OneStream

\* A frame that is due and is written stays where it was among them.
LEMMA OnWrite ==
    ASSUME NEW w \in Seq(DOMAIN wire), NEW d \in Seq(DOMAIN wire), d # <<>>, NEW s
    PROVE  /\ Append(w, Head(d)) \in Seq(DOMAIN wire) /\ Tail(d) \in Seq(DOMAIN wire)
           /\ On(Append(w, Head(d)), s) \o On(Tail(d), s) = On(w, s) \o On(d, s)
<1>1. PICK h \in Seq(DOMAIN wire) : Append(w, Head(d)) = w \o h /\ d = h \o Tail(d)
  <2>1. <<Head(d)>> \in Seq(DOMAIN wire)
    OBVIOUS
  <2>2. Append(w, Head(d)) = w \o <<Head(d)>> /\ d = <<Head(d)>> \o Tail(d)
    OBVIOUS
  <2> QED
    BY <2>1, <2>2
<1>2. Tail(d) \in Seq(DOMAIN wire) /\ Append(w, Head(d)) \in Seq(DOMAIN wire)
  OBVIOUS
<1>3. On(w \o h, s) = On(w, s) \o On(h, s) /\ On(h \o Tail(d), s) = On(h, s) \o On(Tail(d), s)
  <2>1. PICK t \in Seq(DOMAIN wire) : t = Tail(d)
    BY <1>2
  <2>2. On(w \o h, s) = On(w, s) \o On(h, s)
    BY OnConcat
  <2>3. On(h \o t, s) = On(h, s) \o On(t, s)
    BY OnConcat
  <2> QED
    BY <2>1, <2>2, <2>3
<1>4. (On(w, s) \o On(h, s)) \o On(Tail(d), s) = On(w, s) \o (On(h, s) \o On(Tail(d), s))
  <2>1. On(w, s) \in Seq(DOMAIN wire) /\ On(h, s) \in Seq(DOMAIN wire) /\ On(Tail(d), s) \in Seq(DOMAIN wire)
    BY <1>2, OnType
  <2>2. Regroups(On(w, s), On(h, s), On(Tail(d), s))
    BY <2>1, Regroup
  <2> QED
    BY <2>2 DEF Regroups
<1> QED
  BY <1>1, <1>2, <1>3, <1>4, Zenon

LEMMA FramesWrite ==
    ASSUME FramesInv, NEW s \in Stream, WriteDue(s)
    PROVE  FramesInv'
<1>1. /\ due[s] # <<>> /\ due' = [due EXCEPT ![s] = Tail(due[s])]
      /\ UNCHANGED <<wire, received, partialData, globalFrames, streams, request, closed>>
      /\ written' = IF request[s] = "echoing"
                    THEN [written EXCEPT ![s] = Append(written[s], Head(due[s]))] ELSE written
  BY StreamFacts DEF WriteDue
<1>2. /\ StreamInv(s) /\ wire' = wire /\ received' = received /\ streams' = streams
      /\ request' = request /\ request[s] \in {"echoing", "ended"}
      /\ due[s] \in Seq(DOMAIN wire) /\ written[s] \in Seq(DOMAIN wire)
      /\ due'[s] = Tail(due[s])
  BY <1>1, StreamFacts DEF StreamInv
<1>3. /\ Tail(due[s]) \in Seq(DOMAIN wire) /\ Append(written[s], Head(due[s])) \in Seq(DOMAIN wire)
      /\ \A t : On(Append(written[s], Head(due[s])), t) \o On(Tail(due[s]), t)
                   = On(written[s], t) \o On(due[s], t)
  BY <1>1, <1>2, OnWrite
<1>4. CASE request[s] = "echoing"
  <2>1. /\ written' = [written EXCEPT ![s] = Append(written[s], Head(due[s]))]
        /\ written'[s] = Append(written[s], Head(due[s]))
    BY <1>1, <1>4, StreamFacts
  <2>2. \A t : On(written[s], t)' \o On(due[s], t)' = On(written[s], t) \o On(due[s], t)
    BY <1>2, <1>3, <2>1, SameWire
  <2>3. Kept(s)' = Kept(s)
    BY <1>2, <2>2, Zenon DEF Kept
  <2>4. StreamInv(s)'
    BY <1>2, <1>3, <1>4, <2>1, <2>2, <2>3, SameFrames DEF StreamInv
  <2> QED
    BY <1>1, <1>2, <2>1, <2>4, StreamFacts, OneStream
<1>5. CASE request[s] = "ended"
  <2>1. written' = written
    BY <1>1, <1>5
  <2>2. StreamInv(s)'
    BY <1>2, <1>3, <1>5, <2>1 DEF StreamInv
  <2> QED
    BY <1>1, <1>2, <2>1, <2>2, StreamFacts, OneStream
<1> QED
  BY <1>2, <1>4, <1>5

\* The connection closes: the streams stay as they are.
LEMMA FramesClose == ASSUME FramesInv, Close PROVE FramesInv'
<1>1. /\ wire \in Wires /\ wire' = wire /\ received' = received /\ closed' = TRUE
      /\ UNCHANGED <<partialData, globalFrames, streams, due, request, written>>
  BY DEF FramesInv, TypeOK, Close
<1>2. /\ Whole' = Whole /\ EndOf' = EndOf
      /\ \A t : Sent(t)' = Sent(t)
      /\ \A q, t : On(q, t)' = On(q, t)
  BY <1>1, SameFrames, SameWire
<1>3. \A t : Gone(t)'
  BY <1>1 DEF Gone
<1>4. TypeOK' /\ StreamTypes' /\ OnlyEchoesWrite' /\ EmptyBuffers'
  BY <1>1 DEF FramesInv, TypeOK, StreamTypes, OnlyEchoesWrite, EmptyBuffers
<1>5. OthersStopped'
  BY <1>3 DEF OthersStopped
<1>6. Routed'
  BY <1>1, <1>2 DEF FramesInv, Routed, RoutedTo, KeptFrom
<1>7. EachFrameOnceInOrder'
  BY <1>1, <1>2 DEF FramesInv, EachFrameOnceInOrder
<1> QED
  BY <1>4, <1>5, <1>6, <1>7 DEF FramesInv

\* Every step keeps it; the layer of the frames takes no part in those of the others.
LEMMA FramesNextInv == FramesInv /\ [ConnectionNext]_connectionVars => FramesInv'
<1> SUFFICES ASSUME FramesInv, [ConnectionNext]_connectionVars PROVE FramesInv'
  OBVIOUS
<1>1. CASE InFrames
  <2>1. CASE \E n \in 1..EndOf[Len(wire)] : Receive(n)
    <3>1. wire \in Wires
      BY DEF FramesInv, TypeOK
    <3>2. Len(wire) \in Nat /\ EndOf \in [0..Len(wire) -> Nat]
      BY <3>1, FrameEnds
    <3>3. EndOf[Len(wire)] \in Nat
      BY <3>2
    <3>4. PICK n \in Nat : Receive(n)
      BY <2>1, <3>3
    <3> QED
      BY <3>4, FramesReceive
  <2>2. CASE \E s \in Stream : DispatchEcho(s) \/ AnswerEarly(s) \/ EchoTooLate(s)
    BY <2>2, FramesMove
  <2>3. CASE \E s \in Stream : DispatchOther(s)
    BY <2>3, FramesOther
  <2>4. CASE \E s \in Stream : StartEcho(s)
    BY <2>4, FramesStart
  <2>5. CASE \E s \in Stream : WriteDue(s)
    BY <2>5, FramesWrite
  <2>6. CASE \E s \in Stream : EndEcho(s)
    BY <2>6, FramesEnd
  <2>7. CASE Close
    BY <2>7, FramesClose
  <2> QED
    BY <1>1, <2>1, <2>2, <2>3, <2>4, <2>5, <2>6, <2>7 DEF InFrames, Next
<1>2. CASE UNCHANGED vars
  <2>1. /\ wire \in Wires /\ wire' = wire /\ received' = received
        /\ partialData' = partialData /\ globalFrames' = globalFrames /\ streams' = streams
        /\ due' = due /\ request' = request /\ written' = written /\ closed' = closed
    BY <1>2 DEF vars, FramesInv, TypeOK
  <2>2. /\ Whole' = Whole /\ EndOf' = EndOf
        /\ \A t : Sent(t)' = Sent(t)
        /\ \A q, t : On(q, t)' = On(q, t)
    BY <2>1, SameFrames, SameWire
  <2>3. TypeOK' /\ StreamTypes' /\ OnlyEchoesWrite' /\ EmptyBuffers'
    BY <2>1 DEF FramesInv, TypeOK, StreamTypes, OnlyEchoesWrite, EmptyBuffers
  <2>4. OthersStopped'
    BY <2>1, <2>2, GoneStays DEF FramesInv, OthersStopped
  <2>5. Routed'
    BY <2>1, <2>2 DEF FramesInv, Routed, RoutedTo, KeptFrom
  <2>6. EachFrameOnceInOrder'
    BY <2>1, <2>2 DEF FramesInv, EachFrameOnceInOrder
  <2> QED
    BY <2>3, <2>4, <2>5, <2>6 DEF FramesInv
<1> QED
  BY <1>1, <1>2 DEF ConnectionNext, InSniff, InRaw, connectionVars

\* FramesInv is an invariant of a connection.
THEOREM FramesInvariant == ConnectionSpec => []FramesInv
<1>1. ConnectionInit => FramesInv
  BY FramesInitInv DEF ConnectionInit
<1> QED
  BY <1>1, FramesNextInv, PTL DEF ConnectionSpec

\* Until its echo ends, each frame of a stream is in its response, due or buffered: once, and in
\* the order sent; so is each frame of the connection, in the response of every echo.
THEOREM FramesEchoed == ConnectionSpec => []EachFrameOnceInOrder
<1>1. FramesInv => EachFrameOnceInOrder
  BY DEF FramesInv
<1> QED
  BY <1>1, FramesInvariant, PTL

\* The capture of a stream that has gone to another endpoint holds nothing.
THEOREM OthersEmpty == ConnectionSpec => []OthersHoldNothing
<1>1. FramesInv => OthersHoldNothing
  BY DEF FramesInv, OthersStopped, EmptyBuffers, OthersHoldNothing
<1> QED
  BY <1>1, FramesInvariant, PTL


-----------------------------------------------------------------------------
(***************************************************************************)
(* ConnSniff                                                               *)
(***************************************************************************)
\* The first n letters of two sequences agree.
SameTo(s, d, n) == \A i \in 1..n : s[i] = d[i]

\* A sequence that begins with another, letter by letter.
LEMMA PrefixIs ==
    ASSUME NEW X, NEW Y, NEW s \in Seq(X), NEW d \in Seq(Y)
    PROVE  Sniff!IsPrefix(s, d) <=> Len(s) <= Len(d) /\ SameTo(s, d, Len(s))
<1>1. ASSUME Len(s) <= Len(d)
      PROVE  SubSeq(s, 1, Len(s)) = SubSeq(d, 1, Len(s)) <=> \A i \in 1..Len(s) : s[i] = d[i]
  <2>1. /\ SubSeq(s, 1, Len(s)) = [i \in 1..Len(s) |-> s[i]]
        /\ SubSeq(d, 1, Len(s)) = [i \in 1..Len(s) |-> d[i]]
    BY <1>1
  <2> QED
    BY <2>1
<1> QED
  BY <1>1 DEF Sniff!IsPrefix, SameTo

LEMMA StrictPrefixIs ==
    ASSUME NEW X, NEW Y, NEW s \in Seq(X), NEW d \in Seq(Y)
    PROVE  Sniff!IsStrictPrefix(s, d) <=> Len(s) < Len(d) /\ SameTo(s, d, Len(s))
<1>1. s \in Seq(X \cup Y) /\ d \in Seq(X \cup Y)
  <2>1. X \subseteq X \cup Y /\ Y \subseteq X \cup Y
    OBVIOUS
  <2> QED
    BY <2>1, SeqMonotonic
<1>2. s = d <=> Len(s) = Len(d) /\ \A i \in 1..Len(s) : s[i] = d[i]
  BY <1>1, SeqEqual
<1>3. Len(s) \in Nat /\ Len(d) \in Nat
  OBVIOUS
<1> QED
  BY <1>2, <1>3, PrefixIs DEF Sniff!IsStrictPrefix, SameTo

\* At most four letters.
LEMMA SameLetters ==
    ASSUME NEW s, NEW d, NEW n \in 0..4
    PROVE  SameTo(s, d, n) <=> /\ n >= 1 => s[1] = d[1]
                               /\ n >= 2 => s[2] = d[2]
                               /\ n >= 3 => s[3] = d[3]
                               /\ n >= 4 => s[4] = d[4]
<1>1. \A i : i \in 1..n <=> \/ i = 1 /\ n >= 1
                            \/ i = 2 /\ n >= 2
                            \/ i = 3 /\ n >= 3
                            \/ i = 4 /\ n >= 4
  OBVIOUS
<1> QED
  BY <1>1, Zenon DEF SameTo

\* What there is to compare of a signature and data.
Compared(d, v) ==
    /\ Sniff!IsPrefix(v, d)
          <=> /\ Len(v) <= Len(d) /\ v[1] = d[1] /\ v[2] = d[2]
              /\ Len(v) >= 3 => v[3] = d[3]
              /\ Len(v) >= 4 => v[4] = d[4]
    /\ Sniff!IsStrictPrefix(d, v)
          <=> /\ Len(d) < Len(v)
              /\ Len(d) >= 1 => d[1] = v[1]
              /\ Len(d) >= 2 => d[2] = v[2]
              /\ Len(d) >= 3 => d[3] = v[3]

LEMMA SignatureIs ==
    ASSUME NEW X, NEW d \in Seq(X), NEW Y, NEW v \in Seq(Y), Len(v) \in {2, 3, 4}
    PROVE  Compared(d, v)
<1>1. Len(d) \in Nat /\ Len(v) \in 0..4 /\ Len(v) >= 1 /\ Len(v) >= 2
  <2>1. \A n \in {2, 3, 4} : n \in 0..4 /\ n >= 1 /\ n >= 2
    OBVIOUS
  <2>2. Len(d) \in Nat
    OBVIOUS
  <2> QED
    BY <2>1, <2>2, Zenon
<1>2. SameTo(v, d, Len(v)) <=> /\ v[1] = d[1] /\ v[2] = d[2]
                               /\ Len(v) >= 3 => v[3] = d[3]
                               /\ Len(v) >= 4 => v[4] = d[4]
  BY <1>1, SameLetters
<1>3. Len(d) <= 4 => (SameTo(d, v, Len(d)) <=> /\ Len(d) >= 1 => d[1] = v[1]
                                               /\ Len(d) >= 2 => d[2] = v[2]
                                               /\ Len(d) >= 3 => d[3] = v[3]
                                               /\ Len(d) >= 4 => d[4] = v[4])
  BY <1>1, SameLetters
<1>4. Sniff!IsPrefix(v, d) <=> Len(v) <= Len(d) /\ SameTo(v, d, Len(v))
  BY PrefixIs
<1>5. Sniff!IsStrictPrefix(d, v) <=> Len(d) < Len(v) /\ SameTo(d, v, Len(d))
  BY StrictPrefixIs
<1>7. Sniff!IsPrefix(v, d)
         <=> /\ Len(v) <= Len(d) /\ v[1] = d[1] /\ v[2] = d[2]
             /\ Len(v) >= 3 => v[3] = d[3]
             /\ Len(v) >= 4 => v[4] = d[4]
  BY <1>2, <1>4
<1>8. Sniff!IsStrictPrefix(d, v)
         <=> /\ Len(d) < Len(v)
             /\ Len(d) >= 1 => d[1] = v[1]
             /\ Len(d) >= 2 => d[2] = v[2]
             /\ Len(d) >= 3 => d[3] = v[3]
  BY <1>1, <1>3, <1>5
<1> QED
  BY <1>7, <1>8, Zenon DEF Compared

\* The same for signatures of two, three and four letters.
Compared2(v, d, l, a, b) ==
    /\ Sniff!IsPrefix(v, d) <=> l >= 2 /\ d[1] = a /\ d[2] = b
    /\ Sniff!IsStrictPrefix(d, v) <=> l < 2 /\ d[1] = a

Compared3(v, d, l, a, b, c) ==
    /\ Sniff!IsPrefix(v, d) <=> l >= 3 /\ d[1] = a /\ d[2] = b /\ d[3] = c
    /\ Sniff!IsStrictPrefix(d, v) <=> l < 3 /\ d[1] = a /\ (l >= 2 => d[2] = b)

Compared4(v, d, l, a, b, c, e) ==
    /\ Sniff!IsPrefix(v, d) <=> l >= 4 /\ d[1] = a /\ d[2] = b /\ d[3] = c /\ d[4] = e
    /\ Sniff!IsStrictPrefix(d, v) <=> l < 4 /\ d[1] = a /\ (l >= 2 => d[2] = b) /\ (l >= 3 => d[3] = c)

LEMMA Signature2 ==
    ASSUME NEW X, NEW d \in Seq(X), NEW l, l = Len(d), l >= 1, NEW a, NEW b
    PROVE  Compared2(<<a, b>>, d, l, a, b)
<1>1. PICK v \in Seq({a, b}) : v = <<a, b>>
  <2>1. <<a, b>> \in Seq({a, b})
    OBVIOUS
  <2> QED
    BY <2>1, Zenon
<1>2. Len(v) = 2 /\ v[1] = a /\ v[2] = b
  BY <1>1
<1>3. Compared(d, v)
  BY <1>2, SignatureIs
<1>4. Compared2(v, d, l, a, b)
  BY <1>2, <1>3 DEF Compared, Compared2
<1> QED
  BY <1>1, <1>4, Zenon

LEMMA Signature3 ==
    ASSUME NEW X, NEW d \in Seq(X), NEW l, l = Len(d), l >= 1, NEW a, NEW b, NEW c
    PROVE  Compared3(<<a, b, c>>, d, l, a, b, c)
<1>1. PICK v \in Seq({a, b, c}) : v = <<a, b, c>>
  <2>1. <<a, b, c>> \in Seq({a, b, c})
    OBVIOUS
  <2> QED
    BY <2>1, Zenon
<1>2. Len(v) = 3 /\ v[1] = a /\ v[2] = b /\ v[3] = c
  BY <1>1
<1>3. Compared(d, v)
  BY <1>2, SignatureIs
<1>4. Compared3(v, d, l, a, b, c)
  BY <1>2, <1>3 DEF Compared, Compared3
<1> QED
  BY <1>1, <1>4, Zenon

LEMMA Signature4 ==
    ASSUME NEW X, NEW d \in Seq(X), NEW l, l = Len(d), l >= 1, NEW a, NEW b, NEW c, NEW e
    PROVE  Compared4(<<a, b, c, e>>, d, l, a, b, c, e)
<1>1. PICK v \in Seq({a, b, c, e}) : v = <<a, b, c, e>>
  <2>1. <<a, b, c, e>> \in Seq({a, b, c, e})
    OBVIOUS
  <2> QED
    BY <2>1, Zenon
<1>2. Len(v) = 4 /\ v[1] = a /\ v[2] = b /\ v[3] = c /\ v[4] = e
  BY <1>1
<1>3. Compared(d, v)
  BY <1>2, SignatureIs
<1>4. Compared4(v, d, l, a, b, c, e)
  BY <1>2, <1>3 DEF Compared, Compared4
<1> QED
  BY <1>1, <1>4, Zenon

\* The signatures of headers, letter by letter.
LEMMA Letters ==
    ASSUME NEW X, NEW d \in Seq(X), NEW l, l = Len(d), l >= 1
    PROVE  /\ Sniff!IsPrefix(Sniff!V1Signature, d)
                 <=> l >= 4 /\ d[1] = "P" /\ d[2] = "R" /\ d[3] = "O" /\ d[4] = "X"
           /\ Sniff!IsPrefix(Sniff!V2Signature, d)
                 <=> l >= 3 /\ d[1] = "cr" /\ d[2] = "lf" /\ d[3] = "Q"
           /\ Sniff!IsStrictPrefix(d, Sniff!V1Signature)
                 <=> l < 4 /\ d[1] = "P" /\ (l >= 2 => d[2] = "R") /\ (l >= 3 => d[3] = "O")
           /\ Sniff!IsStrictPrefix(d, Sniff!V2Signature)
                 <=> l < 3 /\ d[1] = "cr" /\ (l >= 2 => d[2] = "lf")
<1>1. PICK s : s = Sniff!V1Signature
  OBVIOUS
<1>2. PICK t : t = Sniff!V2Signature
  OBVIOUS
<1>3. Compared4(s, d, l, "P", "R", "O", "X") /\ Compared3(t, d, l, "cr", "lf", "Q")
  BY <1>1, <1>2, Signature3, Signature4 DEF Sniff!V1Signature, Sniff!V2Signature
<1> QED
  BY <1>1, <1>2, <1>3 DEF Compared3, Compared4

\* What has come in of w.
Begins(d, w) == Len(d) <= Len(w) /\ \A i \in 1..Len(d) : d[i] = w[i]

\* Data and a signature that are alike: so is a beginning of the data, and so are the data if
\* a beginning of them is and does not end within the signature.
AlikeToo(d, w, v) ==
    /\ Sniff!Alike(w, v) => Sniff!Alike(d, v)
    /\ Sniff!Alike(d, v) => Sniff!IsStrictPrefix(d, v) \/ Sniff!Alike(w, v)

LEMMA AlikeSoFar ==
    ASSUME NEW X, NEW w \in Seq(X), NEW d \in Seq(X), Begins(d, w), NEW Y, NEW v \in Seq(Y)
    PROVE  AlikeToo(d, w, v)
<1>1. Len(d) \in Nat /\ Len(w) \in Nat /\ Len(v) \in Nat /\ Len(d) <= Len(w)
  BY DEF Begins
<1>2. \A i \in 1..Len(d) : d[i] = w[i]
  BY DEF Begins
<1>3. /\ Sniff!IsPrefix(d, v) <=> Len(d) <= Len(v) /\ SameTo(d, v, Len(d))
      /\ Sniff!IsPrefix(v, d) <=> Len(v) <= Len(d) /\ SameTo(v, d, Len(v))
      /\ Sniff!IsStrictPrefix(d, v) <=> Len(d) < Len(v) /\ SameTo(d, v, Len(d))
      /\ Sniff!IsPrefix(w, v) <=> Len(w) <= Len(v) /\ SameTo(w, v, Len(w))
      /\ Sniff!IsPrefix(v, w) <=> Len(v) <= Len(w) /\ SameTo(v, w, Len(v))
  BY PrefixIs, StrictPrefixIs
<1>4. ASSUME Sniff!Alike(w, v) PROVE Sniff!Alike(d, v)
  <2>1. CASE Sniff!IsPrefix(w, v)
    <3>1. Len(d) <= Len(v) /\ SameTo(d, v, Len(d))
      BY <1>1, <1>2, <1>3, <2>1 DEF SameTo
    <3> QED
      BY <1>3, <3>1 DEF Sniff!Alike
  <2>2. CASE Sniff!IsPrefix(v, w) /\ Len(d) <= Len(v)
    <3>1. SameTo(d, v, Len(d))
      BY <1>1, <1>2, <1>3, <2>2 DEF SameTo
    <3> QED
      BY <1>3, <2>2, <3>1 DEF Sniff!Alike
  <2>3. CASE Sniff!IsPrefix(v, w) /\ Len(v) <= Len(d)
    <3>1. SameTo(v, d, Len(v))
      BY <1>1, <1>2, <1>3, <2>3 DEF SameTo
    <3> QED
      BY <1>3, <2>3, <3>1 DEF Sniff!Alike
  <2> QED
    BY <1>1, <1>4, <2>1, <2>2, <2>3 DEF Sniff!Alike
<1>5. ASSUME Sniff!Alike(d, v), ~ Sniff!IsStrictPrefix(d, v) PROVE Sniff!Alike(w, v)
  <2>1. Len(v) <= Len(d) /\ SameTo(v, d, Len(v))
    <3>1. CASE Sniff!IsPrefix(v, d)
      BY <1>3, <3>1
    <3>2. CASE Sniff!IsPrefix(d, v)
      <4>1. Len(d) = Len(v)
        BY <1>1, <1>3, <1>5, <3>2
      <4> QED
        BY <1>3, <3>2, <4>1 DEF SameTo
    <3> QED
      BY <1>5, <3>1, <3>2 DEF Sniff!Alike
  <2>2. Len(v) <= Len(w) /\ SameTo(v, w, Len(v))
    BY <1>1, <1>2, <2>1 DEF SameTo
  <2> QED
    BY <1>3, <2>2 DEF Sniff!Alike
<1> QED
  BY <1>4, <1>5 DEF AlikeToo

\* The preface and the methods are sequences, of letters that no header of version 2 begins with.
IsSignature(v) == (\E Y : v \in Seq(Y)) /\ Len(v) >= 1 /\ v[1] # "cr"

LEMMA SignaturesAre ==
    /\ IsSignature(Sniff!Preface)
    /\ \A method \in Sniff!MethodPrefixes : IsSignature(method)
<1>1. ASSUME NEW a, a # "cr", NEW b PROVE IsSignature(<<a, b>>)
  <2>1. <<a, b>> \in Seq({a, b}) /\ Len(<<a, b>>) >= 1 /\ <<a, b>>[1] = a
    OBVIOUS
  <2> QED
    BY <1>1, <2>1, Zenon DEF IsSignature
<1>2. ASSUME NEW a, a # "cr", NEW b, NEW c PROVE IsSignature(<<a, b, c>>)
  <2>1. <<a, b, c>> \in Seq({a, b, c}) /\ Len(<<a, b, c>>) >= 1 /\ <<a, b, c>>[1] = a
    OBVIOUS
  <2> QED
    BY <1>2, <2>1, Zenon DEF IsSignature
<1>3. ASSUME NEW a, a # "cr", NEW b, NEW c, NEW e PROVE IsSignature(<<a, b, c, e>>)
  <2>1. <<a, b, c, e>> \in Seq({a, b, c, e}) /\ Len(<<a, b, c, e>>) >= 1 /\ <<a, b, c, e>>[1] = a
    OBVIOUS
  <2> QED
    BY <1>3, <2>1, Zenon DEF IsSignature
<1>4. ASSUME NEW a, a # "cr", NEW b, NEW c, NEW e, NEW f PROVE IsSignature(<<a, b, c, e, f>>)
  <2>1. /\ <<a, b, c, e, f>> \in Seq({a, b, c, e, f}) /\ Len(<<a, b, c, e, f>>) >= 1
        /\ <<a, b, c, e, f>>[1] = a
    OBVIOUS
  <2> QED
    BY <1>4, <2>1, Zenon DEF IsSignature
<1>5. "P" # "cr" /\ "G" # "cr"
  OBVIOUS
<1> QED
  BY <1>1, <1>2, <1>3, <1>4, <1>5, Zenon DEF Sniff!Preface, Sniff!MethodPrefixes

\* The handler of a beginning is that of the whole, but where the beginning ends within the
\* preface or a method.
Undecided(d, w) ==
    \/ Sniff!HandlerFor(d) = Sniff!HandlerFor(w)
    \/ Sniff!HandlerFor(d) = "http2" /\ Sniff!IsStrictPrefix(d, Sniff!Preface)
    \/ /\ Sniff!HandlerFor(d) = "http" /\ Sniff!HandlerFor(w) = "destroyed"
       /\ \E method \in Sniff!MethodPrefixes : Sniff!IsStrictPrefix(d, method)

LEMMA HandlerOfBeginning ==
    ASSUME NEW X, NEW w \in Seq(X), NEW d \in Seq(X), Begins(d, w), Len(d) >= 1
    PROVE  Undecided(d, w)
<1>1. AlikeToo(d, w, Sniff!Preface)
  BY SignaturesAre, AlikeSoFar DEF IsSignature
<1>2. \A method \in Sniff!MethodPrefixes : AlikeToo(d, w, method)
  BY SignaturesAre, AlikeSoFar DEF IsSignature
<1>3. Sniff!IsTLS(d) <=> Sniff!IsTLS(w)
  <2>1. PICK l \in Nat : l = Len(d)
    OBVIOUS
  <2>2. 1 \in 1..l
    BY <2>1
  <2>3. d[1] = w[1]
    BY <2>1, <2>2, Zenon DEF Begins
  <2> QED
    BY <2>3, Zenon DEF Sniff!IsTLS
<1>4. CASE Sniff!IsTLS(d)
  BY <1>3, <1>4, Zenon DEF Undecided, Sniff!HandlerFor
<1>5. CASE ~ Sniff!IsTLS(d) /\ Sniff!IsHTTP2(d)
  <2>1. Sniff!IsStrictPrefix(d, Sniff!Preface) \/ Sniff!IsHTTP2(w)
    BY <1>1, <1>5, Zenon DEF AlikeToo, Sniff!IsHTTP2
  <2> QED
    BY <1>3, <1>5, <2>1, Zenon DEF Undecided, Sniff!HandlerFor
<1>6. CASE ~ Sniff!IsTLS(d) /\ ~ Sniff!IsHTTP2(d)
  <2>1. ~ Sniff!IsHTTP2(w) /\ ~ Sniff!IsTLS(w)
    BY <1>1, <1>3, <1>6, Zenon DEF AlikeToo, Sniff!IsHTTP2
  <2>2. Sniff!CouldBeHttp(w) => Sniff!CouldBeHttp(d)
    BY <1>2, Zenon DEF AlikeToo, Sniff!CouldBeHttp
  <2>3. CASE ~ Sniff!CouldBeHttp(d) \/ Sniff!CouldBeHttp(w)
    BY <1>6, <2>1, <2>2, <2>3, Zenon DEF Undecided, Sniff!HandlerFor
  <2>4. CASE Sniff!CouldBeHttp(d) /\ ~ Sniff!CouldBeHttp(w)
    <3>1. Sniff!HandlerFor(d) = "http" /\ Sniff!HandlerFor(w) = "destroyed"
      BY <1>6, <2>1, <2>4, Zenon DEF Sniff!HandlerFor
    <3>2. \E method \in Sniff!MethodPrefixes : Sniff!IsStrictPrefix(d, method)
      BY <1>2, <2>4, Zenon DEF AlikeToo, Sniff!CouldBeHttp
    <3> QED
      BY <3>1, <3>2, Zenon DEF Undecided
  <2> QED
    BY <2>3, <2>4, Zenon
<1> QED
  BY <1>4, <1>5, <1>6, Zenon

\* What begins with the signature of version 2 is nobody's.
LEMMA BinaryIsNobodys ==
    ASSUME NEW X, NEW w \in Seq(X), Len(w) >= 1, w[1] = "cr"
    PROVE  Sniff!HandlerFor(w) = "destroyed"
<1>1. ASSUME NEW v, IsSignature(v)
      PROVE  ~ Sniff!Alike(w, v)
  <2>1. PICK Y : v \in Seq(Y)
    BY <1>1, Zenon DEF IsSignature
  <2>2. 1 \in 1..Len(w) /\ 1 \in 1..Len(v) /\ w[1] # v[1]
    BY <1>1, <2>1 DEF IsSignature
  <2>3. ~ SameTo(w, v, Len(w)) /\ ~ SameTo(v, w, Len(v))
    BY <2>2, Zenon DEF SameTo
  <2> QED
    BY <2>1, <2>3, PrefixIs DEF Sniff!Alike
<1>2. ~ Sniff!IsHTTP2(w) /\ ~ Sniff!CouldBeHttp(w)
  BY <1>1, SignaturesAre, Zenon DEF Sniff!IsHTTP2, Sniff!CouldBeHttp
<1>3. ~ Sniff!IsTLS(w)
  BY DEF Sniff!IsTLS
<1> QED
  BY <1>2, <1>3, Zenon DEF Sniff!HandlerFor

LEMMA FromIs ==
    ASSUME NEW X, NEW w \in Seq(X), NEW d \in Seq(X), Begins(d, w), NEW j \in 1..(Len(d) + 1)
    PROVE  Sniff!From(d, j) = SubSeq(w, j, Len(d))
<1>1. Len(d) \in Nat /\ Len(w) \in Nat /\ Len(d) <= Len(w)
  BY DEF Begins
<1>2. /\ SubSeq(d, j, Len(d)) = [i \in 1..(Len(d) - j + 1) |-> d[i + j - 1]]
      /\ SubSeq(w, j, Len(d)) = [i \in 1..(Len(d) - j + 1) |-> w[i + j - 1]]
  BY <1>1
<1>3. \A i \in 1..(Len(d) - j + 1) : d[i + j - 1] = w[i + j - 1]
  BY <1>1 DEF Begins
<1> QED
  BY <1>2, <1>3 DEF Sniff!From

\* The parser of lines, at the first "cr" and where there is none.
LEMMA LineEnds ==
    ASSUME NEW X, NEW d \in Seq(X), NEW e \in Nat, e >= 1, e < V1MaxLength, e + 1 <= Len(d),
           d[e] = "cr", d[e + 1] = "lf", \A i \in 1..(e - 1) : d[i] # "cr"
    PROVE  Sniff!ParseV1(d) = Sniff!Parsed(SubSeq(d, 1, e - 1) = Sniff!V1Signature \o <<"tcp">>,
                                           Sniff!From(d, e + 2))
<1> DEFINE ends == {i \in 1..(Len(d) - 1) : i < V1MaxLength /\ d[i] = "cr" /\ d[i + 1] = "lf"}
           end == CHOOSE i \in ends : \A j \in ends : i <= j
<1>1. e \in ends
  OBVIOUS
<1>2. \A i \in ends : i \in Nat /\ ~ (i < e)
  OBVIOUS
<1>3. \A i \in ends : e <= i
  BY <1>2
<1> HIDE DEF ends
<1>4. end \in ends /\ \A j \in ends : end <= j
  BY <1>1, <1>3
<1> HIDE DEF end
<1>5. end = e
  BY <1>1, <1>2, <1>3, <1>4
<1>6. Sniff!ParseV1(d) = IF ends # {}
        THEN Sniff!Parsed(SubSeq(d, 1, end - 1) = Sniff!V1Signature \o <<"tcp">>, Sniff!From(d, end + 2))
        ELSE IF Len(d) >= V1MaxLength THEN Sniff!Parsed(FALSE, d) ELSE Sniff!Incomplete
  BY Zenon DEF Sniff!ParseV1, ends, end
<1> QED
  BY <1>1, <1>5, <1>6, Zenon

LEMMA LineGoesOn ==
    ASSUME NEW X, NEW d \in Seq(X), \A i \in 1..(Len(d) - 1) : i < V1MaxLength => d[i] # "cr"
    PROVE  Sniff!ParseV1(d) = IF Len(d) >= V1MaxLength THEN Sniff!Parsed(FALSE, d) ELSE Sniff!Incomplete
<1> DEFINE ends == {i \in 1..(Len(d) - 1) : i < V1MaxLength /\ d[i] = "cr" /\ d[i + 1] = "lf"}
           end == CHOOSE i \in ends : \A j \in ends : i <= j
<1>1. ends = {}
  OBVIOUS
<1> HIDE DEF ends
<1>2. Sniff!ParseV1(d) = IF ends # {}
        THEN Sniff!Parsed(SubSeq(d, 1, end - 1) = Sniff!V1Signature \o <<"tcp">>, Sniff!From(d, end + 2))
        ELSE IF Len(d) >= V1MaxLength THEN Sniff!Parsed(FALSE, d) ELSE Sniff!Incomplete
  BY Zenon DEF Sniff!ParseV1, ends
<1> QED
  BY <1>1, <1>2, Zenon

\* The fields of what is parsed.
IsParsed(p, a, rest) == p.complete = TRUE /\ p.address = a /\ p.remaining = rest

LEMMA ParsedFields ==
    ASSUME NEW a, NEW rest
    PROVE  IsParsed(Sniff!Parsed(a, rest), a, rest) /\ Sniff!Incomplete.complete = FALSE
BY DEF IsParsed, Sniff!Parsed, Sniff!Incomplete

\* What the parser makes of the bytes so far (ParseProxyProtocolHeader).
ParsedAs(d) == IF Sniff!Detect(d) = "v1" THEN Sniff!ParseV1(d) ELSE Sniff!ParseV2(d)
Passed(d) == Sniff!Detect(d) = "none"
WaitsOn(d) ==
    \/ Sniff!Detect(d) = "incomplete"
    \/ Sniff!Detect(d) \in {"v1", "v2"} /\ ~ ParsedAs(d).complete /\ Len(d) <= HeaderCap
GivenUp(d) == Sniff!Detect(d) \in {"v1", "v2"} /\ ~ ParsedAs(d).complete /\ Len(d) > HeaderCap
StrippedTo(d, rest) ==
    Sniff!Detect(d) \in {"v1", "v2"} /\ ParsedAs(d).complete /\ ParsedAs(d).remaining = rest

\* No header: what may become one is waited for.
MayBecomeHeader(d) ==
    Sniff!IsStrictPrefix(d, Sniff!V1Signature) \/ Sniff!IsStrictPrefix(d, Sniff!V2Signature)

LEMMA NoHeader ==
    ASSUME NEW X, NEW w \in Seq(X), Sniff!ProtocolForm(w), NEW d \in Seq(X), Begins(d, w), Len(d) >= 1
    PROVE  IF MayBecomeHeader(d) THEN WaitsOn(d) ELSE Passed(d)
<1>1. PICK l \in Nat : l = Len(d)
  OBVIOUS
<1>2. PICK n \in Nat : n = Len(w)
  OBVIOUS
<1>3. l >= 1 /\ n >= 1 /\ l <= n
  BY <1>1, <1>2 DEF Begins
<1>4. d[1] = w[1] /\ (l >= 2 => d[2] = w[2]) /\ (l >= 3 => d[3] = w[3]) /\ (l >= 4 => d[4] = w[4])
  BY <1>1, <1>3 DEF Begins
<1>5. /\ Sniff!IsPrefix(Sniff!V1Signature, d)
            <=> l >= 4 /\ d[1] = "P" /\ d[2] = "R" /\ d[3] = "O" /\ d[4] = "X"
      /\ Sniff!IsPrefix(Sniff!V2Signature, d) <=> l >= 3 /\ d[1] = "cr" /\ d[2] = "lf" /\ d[3] = "Q"
  BY <1>1, <1>3, Letters
<1>6. /\ Sniff!IsPrefix(Sniff!V1Signature, w)
            <=> n >= 4 /\ w[1] = "P" /\ w[2] = "R" /\ w[3] = "O" /\ w[4] = "X"
      /\ Sniff!IsPrefix(Sniff!V2Signature, w) <=> n >= 3 /\ w[1] = "cr" /\ w[2] = "lf" /\ w[3] = "Q"
  BY <1>2, <1>3, Letters
<1>7. ~ Sniff!IsPrefix(Sniff!V1Signature, w) /\ ~ Sniff!IsPrefix(Sniff!V2Signature, w)
  BY DEF Sniff!ProtocolForm
<1>8. ~ Sniff!IsPrefix(Sniff!V1Signature, d) /\ ~ Sniff!IsPrefix(Sniff!V2Signature, d)
  BY <1>3, <1>4, <1>5, <1>6, <1>7
<1> QED
  BY <1>8 DEF Sniff!Detect, WaitsOn, Passed, MayBecomeHeader

\* The type of what begins with a signature.
LEMMA DetectSignature ==
    ASSUME NEW X, NEW w \in Seq(X), NEW d \in Seq(X), Begins(d, w), Len(d) >= 1, Len(w) >= 3
    PROVE  /\ Len(w) >= 4 /\ w[1] = "P" /\ w[2] = "R" /\ w[3] = "O" /\ w[4] = "X"
                 => Sniff!Detect(d) = IF Len(d) >= 4 THEN "v1" ELSE "incomplete"
           /\ w[1] = "cr" /\ w[2] = "lf" /\ w[3] = "Q"
                 => Sniff!Detect(d) = IF Len(d) >= 3 THEN "v2" ELSE "incomplete"
<1>1. PICK l \in Nat : l = Len(d)
  OBVIOUS
<1>2. l >= 1 /\ (l < 3 <=> ~ (l >= 3)) /\ (l < 4 <=> ~ (l >= 4))
  BY <1>1
<1>3. d[1] = w[1] /\ (l >= 2 => d[2] = w[2]) /\ (l >= 3 => d[3] = w[3]) /\ (l >= 4 => d[4] = w[4])
  BY <1>1, <1>2 DEF Begins
<1>4. /\ Sniff!IsPrefix(Sniff!V1Signature, d)
            <=> l >= 4 /\ d[1] = "P" /\ d[2] = "R" /\ d[3] = "O" /\ d[4] = "X"
      /\ Sniff!IsPrefix(Sniff!V2Signature, d) <=> l >= 3 /\ d[1] = "cr" /\ d[2] = "lf" /\ d[3] = "Q"
      /\ Sniff!IsStrictPrefix(d, Sniff!V1Signature)
            <=> l < 4 /\ d[1] = "P" /\ (l >= 2 => d[2] = "R") /\ (l >= 3 => d[3] = "O")
      /\ Sniff!IsStrictPrefix(d, Sniff!V2Signature) <=> l < 3 /\ d[1] = "cr" /\ (l >= 2 => d[2] = "lf")
  BY <1>1, <1>2, Letters
<1>5. (l >= 3 => l >= 2) /\ (l >= 4 => l >= 3)
  OBVIOUS
<1>6. ASSUME w[1] = "P", w[2] = "R", w[3] = "O", w[4] = "X"
      PROVE  Sniff!Detect(d) = IF l >= 4 THEN "v1" ELSE "incomplete"
  <2>1. CASE l >= 4
    <3>1. Sniff!IsPrefix(Sniff!V1Signature, d) /\ ~ Sniff!IsPrefix(Sniff!V2Signature, d)
          /\ ~ Sniff!IsStrictPrefix(d, Sniff!V2Signature) /\ ~ Sniff!IsStrictPrefix(d, Sniff!V1Signature)
      BY <1>2, <1>3, <1>4, <1>5, <1>6, <2>1
    <3> QED
      BY <2>1, <3>1 DEF Sniff!Detect
  <2>2. CASE ~ (l >= 4)
    <3>1. ~ Sniff!IsPrefix(Sniff!V1Signature, d) /\ ~ Sniff!IsPrefix(Sniff!V2Signature, d)
          /\ ~ Sniff!IsStrictPrefix(d, Sniff!V2Signature) /\ Sniff!IsStrictPrefix(d, Sniff!V1Signature)
      BY <1>2, <1>3, <1>4, <1>5, <1>6, <2>2
    <3> QED
      BY <2>2, <3>1 DEF Sniff!Detect
  <2> QED
    BY <2>1, <2>2
<1>7. ASSUME w[1] = "cr", w[2] = "lf", w[3] = "Q"
      PROVE  Sniff!Detect(d) = IF l >= 3 THEN "v2" ELSE "incomplete"
  <2>1. CASE l >= 3
    <3>1. ~ Sniff!IsPrefix(Sniff!V1Signature, d) /\ Sniff!IsPrefix(Sniff!V2Signature, d)
          /\ ~ Sniff!IsStrictPrefix(d, Sniff!V2Signature) /\ ~ Sniff!IsStrictPrefix(d, Sniff!V1Signature)
      BY <1>2, <1>3, <1>4, <1>5, <1>7, <2>1
    <3> QED
      BY <2>1, <3>1 DEF Sniff!Detect
  <2>2. CASE ~ (l >= 3)
    <3>1. ~ Sniff!IsPrefix(Sniff!V1Signature, d) /\ ~ Sniff!IsPrefix(Sniff!V2Signature, d)
          /\ Sniff!IsStrictPrefix(d, Sniff!V2Signature) /\ ~ Sniff!IsStrictPrefix(d, Sniff!V1Signature)
      BY <1>2, <1>3, <1>4, <1>5, <1>7, <2>2
    <3> QED
      BY <2>2, <3>1 DEF Sniff!Detect
  <2> QED
    BY <2>1, <2>2
<1> QED
  BY <1>1, <1>6, <1>7

\* The forms of headers (HeaderForm), letter by letter.
LineForm(h) ==
    /\ Len(h) >= 6 /\ Len(h) <= V1MaxLength /\ h[1] = "P" /\ h[2] = "R" /\ h[3] = "O" /\ h[4] = "X"
    /\ h[Len(h) - 1] = "cr" /\ h[Len(h)] = "lf" /\ \A i \in 1..(Len(h) - 2) : h[i] # "cr"
EndlessForm(h) ==
    /\ Len(h) >= 4 /\ Len(h) >= V1MaxLength /\ h[1] = "P" /\ h[2] = "R" /\ h[3] = "O" /\ h[4] = "X"
    /\ \A i \in 1..Len(h) : h[i] # "cr"
BinaryForm(h) ==
    /\ Len(h) >= 4 /\ h[1] = "cr" /\ h[2] = "lf" /\ h[3] = "Q"
    /\ h[4] \in {"v2tcp", "v2short", "v2local"} /\ Len(h) = 4 + Sniff!V2Length(h[4])
RefusedForm(h) ==
    Len(h) >= 4 /\ h[1] = "cr" /\ h[2] = "lf" /\ h[3] = "Q" /\ h[4] \in {"v2huge", "v3"}

LEMMA V2LengthIs ==
    /\ Sniff!V2Length("v2tcp") = 2 /\ Sniff!V2Length("v2short") = 1 /\ Sniff!V2Length("v2local") = 0
BY DEF Sniff!V2Length

\* The bytes of a line.
NamesTcp(d, m) == SubSeq(d, 1, m - 2) = Sniff!V1Signature \o <<"tcp">>
LineRead(d, w, m, l) ==
    IF l < m THEN WaitsOn(d)
    ELSE StrippedTo(d, SubSeq(w, m + 1, l)) /\ ParsedAs(d).address = NamesTcp(d, m)

LEMMA InLine ==
    ASSUME NEW X, NEW h \in Seq(X), LineForm(h), NEW w \in Seq(X), Begins(h, w),
           NEW d \in Seq(X), Begins(d, w), Len(d) >= 1,
           NEW l \in Nat, l = Len(d), NEW m \in Nat, m = Len(h)
    PROVE  LineRead(d, w, m, l)
<1> SUFFICES IF l < m THEN WaitsOn(d)
             ELSE /\ StrippedTo(d, SubSeq(w, m + 1, l))
                  /\ ParsedAs(d).address = (SubSeq(d, 1, m - 2) = Sniff!V1Signature \o <<"tcp">>)
  BY Zenon DEF LineRead, NamesTcp
<1>1. /\ Len(w) \in Nat /\ m <= Len(w) /\ l <= Len(w) /\ l >= 1
      /\ m >= 6 /\ m <= V1MaxLength
      /\ V1MaxLength \in Nat /\ HeaderCap \in Nat /\ V1MaxLength <= HeaderCap
  BY SniffData DEF Begins, LineForm, Sniff!Lengths
<1>2. /\ \A i \in 1..m : h[i] = w[i]
      /\ \A i \in 1..l : d[i] = w[i]
  BY DEF Begins
<1>3. w[1] = "P" /\ w[2] = "R" /\ w[3] = "O" /\ w[4] = "X"
  <2>1. 1 \in 1..m /\ 2 \in 1..m /\ 3 \in 1..m /\ 4 \in 1..m
    BY <1>1
  <2>2. h[1] = "P" /\ h[2] = "R" /\ h[3] = "O" /\ h[4] = "X"
    BY DEF LineForm
  <2> QED
    BY <1>2, <2>1, <2>2, Zenon
<1>4. Sniff!Detect(d) = IF l >= 4 THEN "v1" ELSE "incomplete"
  <2>1. Len(w) >= 3 /\ Len(w) >= 4
    BY <1>1
  <2> QED
    BY <1>3, <2>1, DetectSignature
<1>5. \A i \in 1..(m - 2) : w[i] # "cr"
  BY <1>1, <1>2 DEF LineForm
<1>6. CASE l < m
  <2>1. CASE l < 4
    <3>1. ~ (l >= 4)
      BY <1>1, <2>1
    <3> QED
      BY <1>4, <1>6, <3>1 DEF WaitsOn
  <2>2. CASE l >= 4
    <3>1. \A i \in 1..(l - 1) : d[i] # "cr"
      BY <1>1, <1>2, <1>5, <1>6
    <3>2. ~ (l >= V1MaxLength) /\ l <= HeaderCap
      BY <1>1, <1>6
    <3>3. Sniff!ParseV1(d) = Sniff!Incomplete
      BY <3>1, <3>2, LineGoesOn
    <3>4. Sniff!Detect(d) = "v1" /\ ~ ParsedAs(d).complete
      BY <1>4, <2>2, <3>3, ParsedFields DEF ParsedAs
    <3> QED
      BY <1>6, <3>2, <3>4 DEF WaitsOn
  <2>3. l < 4 \/ l >= 4
    BY <1>1
  <2> QED
    BY <2>1, <2>2, <2>3, Zenon
<1>7. CASE ~ (l < m)
  <2>1. PICK e \in Nat : e = m - 1
    <3>1. m - 1 \in Nat
      BY <1>1
    <3> QED
      BY <3>1, Zenon
  <2>2. e >= 1 /\ e < V1MaxLength /\ e + 1 <= l /\ e + 1 = m /\ e + 2 = m + 1 /\ e - 1 = m - 2
    BY <1>1, <1>7, <2>1
  <2>3. d[e] = "cr" /\ d[e + 1] = "lf" /\ \A i \in 1..(e - 1) : d[i] # "cr"
    <3>1. h[e] = "cr" /\ h[e + 1] = "lf"
      BY <2>1, <2>2 DEF LineForm
    <3>2. e \in 1..m /\ e + 1 \in 1..m /\ e \in 1..l /\ e + 1 \in 1..l
      BY <1>1, <1>7, <2>1, <2>2
    <3>3. d[e] = "cr" /\ d[e + 1] = "lf"
      BY <1>2, <3>1, <3>2, Zenon
    <3>4. ASSUME NEW i \in 1..(e - 1) PROVE d[i] # "cr"
      <4>1. i \in 1..(m - 2) /\ i \in 1..l
        BY <2>2, <3>2, <2>1
      <4> QED
        BY <1>2, <1>5, <4>1, Zenon
    <3> QED
      BY <3>3, <3>4
  <2>4. Sniff!ParseV1(d) = Sniff!Parsed(SubSeq(d, 1, e - 1) = Sniff!V1Signature \o <<"tcp">>,
                                        Sniff!From(d, e + 2))
    BY <2>2, <2>3, LineEnds
  <2>5. Sniff!From(d, e + 2) = SubSeq(w, m + 1, l)
    <3>1. e + 2 \in 1..(l + 1)
      BY <1>1, <2>1, <2>2
    <3> QED
      BY <2>2, <3>1, FromIs
  <2>6. Sniff!Detect(d) = "v1"
    <3>1. l >= 4
      BY <1>1, <1>7
    <3> QED
      BY <1>4, <3>1
  <2>7. ParsedAs(d) = Sniff!Parsed(SubSeq(d, 1, e - 1) = Sniff!V1Signature \o <<"tcp">>,
                                   SubSeq(w, m + 1, l))
    BY <2>4, <2>5, <2>6, Zenon DEF ParsedAs
  <2>8. ParsedAs(d) = Sniff!Parsed(SubSeq(d, 1, m - 2) = Sniff!V1Signature \o <<"tcp">>,
                                   SubSeq(w, m + 1, l))
    BY <2>2, <2>7, Zenon
  <2>9. IsParsed(ParsedAs(d), SubSeq(d, 1, m - 2) = Sniff!V1Signature \o <<"tcp">>, SubSeq(w, m + 1, l))
    BY <2>8, ParsedFields, Zenon
  <2> QED
    BY <1>7, <2>6, <2>9, Zenon DEF StrippedTo, IsParsed
<1> QED
  BY <1>6, <1>7

\* The bytes of a line that does not end.
LEMMA InEndless ==
    ASSUME NEW X, NEW h \in Seq(X), EndlessForm(h), NEW w \in Seq(X), Begins(h, w),
           NEW d \in Seq(X), Begins(d, w), Len(d) >= 1,
           NEW l \in Nat, l = Len(d), NEW m \in Nat, m = Len(h)
    PROVE  WaitsOn(d) \/ (StrippedTo(d, d) /\ ParsedAs(d).address = FALSE)
<1>1. /\ Len(w) \in Nat /\ m <= Len(w) /\ l <= Len(w) /\ l >= 1
      /\ m >= 4 /\ m >= V1MaxLength
      /\ V1MaxLength \in Nat /\ HeaderCap \in Nat /\ V1MaxLength <= HeaderCap
  BY SniffData DEF Begins, EndlessForm, Sniff!Lengths
<1>2. /\ \A i \in 1..m : h[i] = w[i]
      /\ \A i \in 1..l : d[i] = w[i]
  BY DEF Begins
<1>3. w[1] = "P" /\ w[2] = "R" /\ w[3] = "O" /\ w[4] = "X"
  <2>1. 1 \in 1..m /\ 2 \in 1..m /\ 3 \in 1..m /\ 4 \in 1..m
    BY <1>1
  <2>2. h[1] = "P" /\ h[2] = "R" /\ h[3] = "O" /\ h[4] = "X"
    BY DEF EndlessForm
  <2> QED
    BY <1>2, <2>1, <2>2, Zenon
<1>4. Sniff!Detect(d) = IF l >= 4 THEN "v1" ELSE "incomplete"
  <2>1. Len(w) >= 3 /\ Len(w) >= 4
    BY <1>1
  <2> QED
    BY <1>3, <2>1, DetectSignature
<1>5. \A i \in 1..(l - 1) : i < V1MaxLength => d[i] # "cr"
  <2>1. \A i \in 1..m : h[i] # "cr"
    BY DEF EndlessForm
  <2>2. \A i \in 1..(l - 1) : i < V1MaxLength => i \in 1..m /\ i \in 1..l
    BY <1>1
  <2> QED
    BY <1>2, <2>1, <2>2, Zenon
<1>6. Sniff!ParseV1(d) = IF l >= V1MaxLength THEN Sniff!Parsed(FALSE, d) ELSE Sniff!Incomplete
  BY <1>5, LineGoesOn
<1>7. CASE l < 4
  <2>1. ~ (l >= 4)
    BY <1>1, <1>7
  <2> QED
    BY <1>4, <2>1 DEF WaitsOn
<1>8. CASE l >= 4 /\ l >= V1MaxLength
  <2>1. Sniff!Detect(d) = "v1" /\ ParsedAs(d) = Sniff!Parsed(FALSE, d)
    BY <1>4, <1>6, <1>8, Zenon DEF ParsedAs
  <2>2. IsParsed(ParsedAs(d), FALSE, d)
    BY <2>1, ParsedFields, Zenon
  <2> QED
    BY <2>1, <2>2, Zenon DEF StrippedTo, IsParsed
<1>9. CASE l >= 4 /\ ~ (l >= V1MaxLength)
  <2>1. Sniff!Detect(d) = "v1" /\ ParsedAs(d) = Sniff!Incomplete
    BY <1>4, <1>6, <1>9, Zenon DEF ParsedAs
  <2>2. ~ ParsedAs(d).complete
    BY <2>1, ParsedFields
  <2>3. l <= HeaderCap
    BY <1>1, <1>9
  <2> QED
    BY <2>1, <2>2, <2>3 DEF WaitsOn
<1>10. l < 4 \/ l >= 4
  BY <1>1
<1> QED
  BY <1>7, <1>8, <1>9, <1>10, Zenon

\* The bytes of a header of version 2.
LEMMA InBinary ==
    ASSUME NEW X, NEW h \in Seq(X), BinaryForm(h), NEW w \in Seq(X), Begins(h, w),
           NEW d \in Seq(X), Begins(d, w), Len(d) >= 1,
           NEW l \in Nat, l = Len(d), NEW m \in Nat, m = Len(h)
    PROVE  IF l < m THEN WaitsOn(d)
           ELSE /\ StrippedTo(d, SubSeq(w, m + 1, l))
                /\ ParsedAs(d).address = (h[4] = "v2tcp")
<1>1. /\ Len(w) \in Nat /\ m <= Len(w) /\ l <= Len(w) /\ l >= 1
      /\ m >= 4 /\ m <= 6 /\ HeaderCap \in Nat /\ 6 <= HeaderCap
  BY SniffData, V2LengthIs DEF Begins, BinaryForm, Sniff!Lengths
<1>2. /\ \A i \in 1..m : h[i] = w[i]
      /\ \A i \in 1..l : d[i] = w[i]
  BY DEF Begins
<1>3. w[1] = "cr" /\ w[2] = "lf" /\ w[3] = "Q"
  <2>1. 1 \in 1..m /\ 2 \in 1..m /\ 3 \in 1..m
    BY <1>1
  <2>2. h[1] = "cr" /\ h[2] = "lf" /\ h[3] = "Q"
    BY DEF BinaryForm
  <2> QED
    BY <1>2, <2>1, <2>2, Zenon
<1>4. Sniff!Detect(d) = IF l >= 3 THEN "v2" ELSE "incomplete"
  <2>1. Len(w) >= 3
    BY <1>1
  <2> QED
    BY <1>3, <2>1, DetectSignature
<1>5. l >= 3 => Sniff!Detect(d) = "v2" /\ ParsedAs(d) = Sniff!ParseV2(d)
  BY <1>4 DEF ParsedAs
<1>6. Len(Sniff!V2Signature) = 3
  BY DEF Sniff!V2Signature
<1>7. PICK f : f = h[4]
  OBVIOUS
<1>8. f \notin {"v2huge", "v3"} /\ m = 4 + Sniff!V2Length(f) /\ (l > 3 => d[4] = f)
  <2>1. l > 3 => d[4] = f
    BY <1>1, <1>2, <1>7
  <2>2. f \in {"v2tcp", "v2short", "v2local"} /\ m = 4 + Sniff!V2Length(f)
    BY <1>7 DEF BinaryForm
  <2> QED
    BY <2>1, <2>2
<1>9. l > 3 => Sniff!ParseV2(d) = IF l < m THEN Sniff!Incomplete
                                      ELSE Sniff!Parsed(f = "v2tcp", Sniff!From(d, m + 1))
  <2>1. l > 3 => ~ (l <= 3)
    BY <1>1
  <2>2. PICK k : k = Sniff!V2Length(f)
    OBVIOUS
  <2>3. 3 + 1 = 4
    OBVIOUS
  <2>4. 3 + 1 + k = m
    BY <1>8, <2>2, <2>3
  <2> QED
    BY <1>6, <1>8, <2>1, <2>2, <2>3, <2>4, Zenon DEF Sniff!ParseV2
<1>10. CASE l < 3
  <2>1. ~ (l >= 3) /\ l < m
    BY <1>1, <1>10
  <2> QED
    BY <1>4, <2>1 DEF WaitsOn
<1>11. CASE l >= 3 /\ l < m
  <2>1. Sniff!ParseV2(d) = Sniff!Incomplete
    <3>1. CASE l > 3
      BY <1>9, <1>11, <3>1
    <3>2. CASE l <= 3
      BY <1>6, <3>2 DEF Sniff!ParseV2
    <3> QED
      BY <1>1, <3>1, <3>2
  <2>2. l <= HeaderCap
    BY <1>1, <1>11
  <2>3. ~ ParsedAs(d).complete
    BY <1>5, <1>11, <2>1, ParsedFields
  <2> QED
    BY <1>5, <1>11, <2>2, <2>3 DEF WaitsOn
<1>12. CASE ~ (l < m)
  <2>1. l > 3 /\ l >= 3 /\ m + 1 \in 1..(l + 1)
    BY <1>1, <1>12
  <2>2. Sniff!From(d, m + 1) = SubSeq(w, m + 1, l)
    BY <2>1, FromIs
  <2>3. ParsedAs(d) = Sniff!Parsed(f = "v2tcp", SubSeq(w, m + 1, l))
    BY <1>5, <1>9, <1>12, <2>1, <2>2, Zenon
  <2>4. IsParsed(ParsedAs(d), f = "v2tcp", SubSeq(w, m + 1, l))
    BY <2>3, ParsedFields, Zenon
  <2> QED
    BY <1>5, <1>7, <1>12, <2>1, <2>4, Zenon DEF StrippedTo, IsParsed
<1> QED
  BY <1>1, <1>10, <1>11, <1>12

\* The bytes of one of another version, or with an address that is too long.
LEMMA InRefused ==
    ASSUME NEW X, NEW h \in Seq(X), RefusedForm(h), NEW w \in Seq(X), Begins(h, w),
           NEW d \in Seq(X), Begins(d, w), Len(d) >= 1,
           NEW l \in Nat, l = Len(d), NEW m \in Nat, m = Len(h)
    PROVE  WaitsOn(d) \/ GivenUp(d)
<1>1. /\ Len(w) \in Nat /\ m <= Len(w) /\ l >= 1
      /\ m >= 4 /\ HeaderCap \in Nat
  BY SniffData DEF Begins, RefusedForm, Sniff!Lengths
<1>2. /\ \A i \in 1..m : h[i] = w[i]
      /\ \A i \in 1..l : d[i] = w[i]
  BY DEF Begins
<1>3. w[1] = "cr" /\ w[2] = "lf" /\ w[3] = "Q" /\ w[4] \in {"v2huge", "v3"}
  <2>1. 1 \in 1..m /\ 2 \in 1..m /\ 3 \in 1..m /\ 4 \in 1..m
    BY <1>1
  <2>2. h[1] = "cr" /\ h[2] = "lf" /\ h[3] = "Q" /\ h[4] \in {"v2huge", "v3"}
    BY DEF RefusedForm
  <2> QED
    BY <1>2, <2>1, <2>2, Zenon
<1>4. Sniff!Detect(d) = IF l >= 3 THEN "v2" ELSE "incomplete"
  <2>1. Len(w) >= 3
    BY <1>1
  <2> QED
    BY <1>3, <2>1, DetectSignature
<1>5. CASE ~ (l >= 3)
  BY <1>4, <1>5 DEF WaitsOn
<1>6. CASE l >= 3
  <2>1. Len(Sniff!V2Signature) = 3
    BY DEF Sniff!V2Signature
  <2>2. l > 3 => d[4] \in {"v2huge", "v3"}
    BY <1>1, <1>2, <1>3
  <2>3. (l <= 3 \/ l > 3) /\ 3 + 1 = 4
    BY <1>1
  <2>4. Sniff!ParseV2(d) = Sniff!Incomplete
    BY <2>1, <2>2, <2>3, Zenon DEF Sniff!ParseV2
  <2>5. Sniff!Detect(d) = "v2"
    BY <1>4, <1>6
  <2>6. ~ ParsedAs(d).complete
    BY <2>4, <2>5, ParsedFields DEF ParsedAs
  <2> QED
    BY <1>1, <2>5, <2>6 DEF WaitsOn, GivenUp
<1> QED
  BY <1>5, <1>6

\* How a sequence ends.
LEMMA SuffixIs ==
    ASSUME NEW X, NEW h \in Seq(X), NEW n \in Nat, n = Len(h), n >= 2, NEW a, NEW b
    PROVE  Sniff!IsSuffix(<<a, b>>, h) <=> h[n - 1] = a /\ h[n] = b
<1>1. PICK r \in Seq(X) : r = Sniff!Reverse(h)
  <2>1. Sniff!Reverse(h) \in Seq(X)
    BY DEF Sniff!Reverse
  <2> QED
    BY <2>1, Zenon
<1>2. Len(r) = n /\ r[1] = h[n] /\ r[2] = h[n - 1]
  BY <1>1 DEF Sniff!Reverse
<1>3. Sniff!Reverse(<<a, b>>) = <<b, a>>
  BY DEF Sniff!Reverse
<1>4. Compared2(<<b, a>>, r, n, b, a)
  BY <1>2, Signature2
<1>5. Sniff!IsPrefix(<<b, a>>, r) <=> r[1] = b /\ r[2] = a
  BY <1>4 DEF Compared2
<1> QED
  BY <1>1, <1>2, <1>3, <1>5, Zenon DEF Sniff!IsSuffix

\* Headers are of one of the forms.
LEMMA FormOf ==
    ASSUME NEW X, NEW h \in Seq(X), Sniff!HeaderForm(h)
    PROVE  h = <<>> \/ LineForm(h) \/ EndlessForm(h) \/ BinaryForm(h) \/ RefusedForm(h)
<1>1. PICK n \in Nat : n = Len(h)
  OBVIOUS
<1>2. CASE n = 0
  <2>1. ~ (Len(h) \in Nat \ {0})
    BY <1>1, <1>2
  <2>2. h = <<>>
    BY <2>1, EmptySeq
  <2> QED
    BY <2>2, Zenon
<1>3. CASE n >= 1
  <2>1. /\ Sniff!IsPrefix(Sniff!V1Signature, h)
              <=> n >= 4 /\ h[1] = "P" /\ h[2] = "R" /\ h[3] = "O" /\ h[4] = "X"
        /\ Sniff!IsPrefix(Sniff!V2Signature, h) <=> n >= 3 /\ h[1] = "cr" /\ h[2] = "lf" /\ h[3] = "Q"
    BY <1>1, <1>3, Letters
  <2>2. CASE /\ Sniff!IsPrefix(Sniff!V1Signature, h) /\ Sniff!IsSuffix(<<"cr", "lf">>, h)
             /\ Len(h) <= V1MaxLength /\ \A i \in 1..(Len(h) - 2) : h[i] # "cr"
    <3>1. n >= 4 /\ n >= 2 /\ h[1] = "P" /\ h[2] = "R" /\ h[3] = "O" /\ h[4] = "X"
      BY <2>1, <2>2
    <3>2. h[n - 1] = "cr" /\ h[n] = "lf"
      BY <1>1, <2>2, <3>1, SuffixIs
    <3>3. n # 4 /\ n # 5
      BY <3>1, <3>2
    <3>4. n >= 6
      BY <3>1, <3>3
    <3> QED
      BY <1>1, <2>2, <3>1, <3>2, <3>4, Zenon DEF LineForm
  <2>3. CASE /\ Sniff!IsPrefix(Sniff!V1Signature, h) /\ Len(h) >= V1MaxLength
             /\ \A i \in 1..Len(h) : h[i] # "cr"
    BY <1>1, <2>1, <2>3, Zenon DEF EndlessForm
  <2>4. CASE /\ Sniff!IsPrefix(Sniff!V2Signature, h) /\ Len(h) > 3
             /\ \/ h[4] \in {"v2huge", "v3"}
                \/ h[4] \in {"v2tcp", "v2short", "v2local"} /\ Len(h) = 4 + Sniff!V2Length(h[4])
    <3>1. Len(h) >= 4
      BY <1>1, <2>4
    <3> QED
      BY <2>1, <2>4, <3>1, Zenon DEF BinaryForm, RefusedForm
  <2> QED
    BY <1>1, <1>3, <2>2, <2>3, <2>4 DEF Sniff!HeaderForm
<1> QED
  BY <1>2, <1>3

\* The line with addresses.
AddressLine == <<"P", "R", "O", "X", "tcp", "cr", "lf">>

\* Sequences of five and of seven, element by element.
Tuple5(h, a, b, c, e, f) ==
    h = <<a, b, c, e, f>> <=> Len(h) = 5 /\ h[1] = a /\ h[2] = b /\ h[3] = c /\ h[4] = e /\ h[5] = f
Tuple7(h, a, b, c, e, f, g, k) ==
    h = <<a, b, c, e, f, g, k>> <=> /\ Len(h) = 7 /\ h[1] = a /\ h[2] = b /\ h[3] = c
                                    /\ h[4] = e /\ h[5] = f /\ h[6] = g /\ h[7] = k

LEMMA Tuple5Is ==
    ASSUME NEW X, NEW h \in Seq(X), NEW a, NEW b, NEW c, NEW e, NEW f
    PROVE  Tuple5(h, a, b, c, e, f)
BY DEF Tuple5

LEMMA Tuple7Is ==
    ASSUME NEW X, NEW h \in Seq(X), NEW a, NEW b, NEW c, NEW e, NEW f, NEW g, NEW k
    PROVE  Tuple7(h, a, b, c, e, f, g, k)
BY DEF Tuple7

Joins(a, b, c, e, f, g, k) ==
    /\ <<a, b, c, e>> \o <<f>> = <<a, b, c, e, f>>
    /\ <<a, b, c, e>> \o <<f, g, k>> = <<a, b, c, e, f, g, k>>

LEMMA AddressLineIs ==
    /\ Sniff!V1Signature \o <<"tcp", "cr", "lf">> = AddressLine
    /\ Sniff!V1Signature \o <<"tcp">> = <<"P", "R", "O", "X", "tcp">>
<1>1. ASSUME NEW a, NEW b, NEW c, NEW e, NEW f, NEW g, NEW k
      PROVE  Joins(a, b, c, e, f, g, k)
  <2> DEFINE X == {a, b, c, e, f, g, k}
  <2>1. <<a, b, c, e>> \in Seq(X) /\ <<f>> \in Seq(X) /\ <<f, g, k>> \in Seq(X)
    OBVIOUS
  <2> HIDE DEF X
  <2>2. PICK p \in Seq(X) : p = <<a, b, c, e>>
    BY <2>1, Zenon
  <2>3. PICK q \in Seq(X) : q = <<f>>
    BY <2>1, Zenon
  <2>4. PICK r \in Seq(X) : r = <<f, g, k>>
    BY <2>1, Zenon
  <2>5. Len(p) = 4 /\ p[1] = a /\ p[2] = b /\ p[3] = c /\ p[4] = e
    BY <2>2
  <2>6. Len(q) = 1 /\ q[1] = f /\ Len(r) = 3 /\ r[1] = f /\ r[2] = g /\ r[3] = k
    BY <2>3, <2>4
  <2>7. PICK u \in Seq(X) : u = p \o q
    <3>1. p \o q \in Seq(X)
      BY ConcatProperties
    <3> QED
      BY <3>1, Zenon
  <2>8. PICK v \in Seq(X) : v = p \o r
    <3>1. p \o r \in Seq(X)
      BY ConcatProperties
    <3> QED
      BY <3>1, Zenon
  <2>9. Len(u) = 5 /\ u[1] = a /\ u[2] = b /\ u[3] = c /\ u[4] = e /\ u[5] = f
    <3>1. /\ Len(u) = Len(p) + Len(q)
          /\ \A i \in 1..(Len(p) + Len(q)) :
                u[i] = IF i <= Len(p) THEN p[i] ELSE q[i - Len(p)]
      BY <2>7, ConcatProperties, Zenon
    <3>2. Len(p) + Len(q) = 5
      BY <2>5, <2>6
    <3>3. Len(u) = 5 /\ \A i \in 1..5 : u[i] = IF i <= 4 THEN p[i] ELSE q[i - 4]
      BY <2>5, <3>1, <3>2
    <3> QED
      BY <2>5, <2>6, <3>3
  <2>10. /\ Len(v) = 7 /\ v[1] = a /\ v[2] = b /\ v[3] = c
         /\ v[4] = e /\ v[5] = f /\ v[6] = g /\ v[7] = k
    <3>1. /\ Len(v) = Len(p) + Len(r)
          /\ \A i \in 1..(Len(p) + Len(r)) :
                v[i] = IF i <= Len(p) THEN p[i] ELSE r[i - Len(p)]
      BY <2>8, ConcatProperties, Zenon
    <3>2. Len(p) + Len(r) = 7
      BY <2>5, <2>6
    <3>3. Len(v) = 7 /\ \A i \in 1..7 : v[i] = IF i <= 4 THEN p[i] ELSE r[i - 4]
      BY <2>5, <3>1, <3>2
    <3> QED
      BY <2>5, <2>6, <3>3
  <2>11. u = <<a, b, c, e, f>> /\ v = <<a, b, c, e, f, g, k>>
    <3>1. Tuple5(u, a, b, c, e, f) /\ Tuple7(v, a, b, c, e, f, g, k)
      BY Tuple5Is, Tuple7Is
    <3> QED
      BY <2>9, <2>10, <3>1 DEF Tuple5, Tuple7
  <2> QED
    BY <2>2, <2>3, <2>4, <2>7, <2>8, <2>11, Zenon DEF Joins
<1>2. Joins("P", "R", "O", "X", "tcp", "cr", "lf")
  BY <1>1
<1> QED
  BY <1>2, Zenon DEF Sniff!V1Signature, AddressLine, Joins

\* Which of the forms end, and which of them name addresses.
LEMMA EndsIs ==
    ASSUME NEW X, header \in Seq(X)
    PROVE  /\ header = <<>> => ~ Sniff!Ends /\ ~ Sniff!HasAddresses
           /\ LineForm(header) => Sniff!Ends /\ (Sniff!HasAddresses <=> header = AddressLine)
           /\ EndlessForm(header) => ~ Sniff!Ends /\ ~ Sniff!HasAddresses
           /\ BinaryForm(header) => Sniff!Ends /\ (Sniff!HasAddresses <=> header[4] = "v2tcp")
           /\ RefusedForm(header) => ~ Sniff!Ends /\ ~ Sniff!HasAddresses
<1>1. PICK h \in Seq(X) : h = header
  BY Zenon
<1>2. PICK n \in Nat : n = Len(h)
  OBVIOUS
<1>3. h = AddressLine <=> /\ n = 7 /\ h[1] = "P" /\ h[2] = "R" /\ h[3] = "O" /\ h[4] = "X"
                          /\ h[5] = "tcp" /\ h[6] = "cr" /\ h[7] = "lf"
  <2>1. Tuple7(h, "P", "R", "O", "X", "tcp", "cr", "lf")
    BY Tuple7Is
  <2> QED
    BY <1>2, <2>1, Zenon DEF Tuple7, AddressLine
<1>4. Sniff!HasAddresses <=> h = AddressLine \/ (Sniff!IsPrefix(Sniff!V2Signature, h) /\ h[4] = "v2tcp")
  BY <1>1, AddressLineIs, Zenon DEF Sniff!HasAddresses
<1>5. Sniff!Ends <=> \/ Sniff!IsPrefix(Sniff!V1Signature, h) /\ Sniff!IsSuffix(<<"cr", "lf">>, h)
                     \/ Sniff!IsPrefix(Sniff!V2Signature, h) /\ h[4] \notin {"v2huge", "v3"}
  BY <1>1, Zenon DEF Sniff!Ends
<1>6. CASE n = 0
  <2>1. ~ Sniff!IsPrefix(Sniff!V1Signature, h) /\ ~ Sniff!IsPrefix(Sniff!V2Signature, h)
    <3>1. ASSUME NEW Y, NEW v \in Seq(Y), Len(v) >= 1 PROVE ~ Sniff!IsPrefix(v, h)
      <4>1. ~ (Len(v) <= Len(h))
        BY <1>2, <1>6, <3>1
      <4> QED
        BY <4>1, PrefixIs
    <3>2. ASSUME NEW a, NEW b, NEW c
          PROVE  <<a, b, c>> \in Seq({a, b, c}) /\ Len(<<a, b, c>>) >= 1
      OBVIOUS
    <3>3. ASSUME NEW a, NEW b, NEW c, NEW e
          PROVE  <<a, b, c, e>> \in Seq({a, b, c, e}) /\ Len(<<a, b, c, e>>) >= 1
      OBVIOUS
    <3> QED
      BY <3>1, <3>2, <3>3, Zenon DEF Sniff!V1Signature, Sniff!V2Signature
  <2>2. h # AddressLine
    BY <1>3, <1>6
  <2>3. ~ LineForm(h) /\ ~ EndlessForm(h) /\ ~ BinaryForm(h) /\ ~ RefusedForm(h)
    BY <1>2, <1>6 DEF LineForm, EndlessForm, BinaryForm, RefusedForm
  <2> QED
    BY <1>1, <1>4, <1>5, <2>1, <2>2, <2>3, Zenon
<1>7. CASE n >= 1
  <2>1. h # <<>>
    BY <1>2, <1>7
  <2>2. /\ Sniff!IsPrefix(Sniff!V1Signature, h)
              <=> n >= 4 /\ h[1] = "P" /\ h[2] = "R" /\ h[3] = "O" /\ h[4] = "X"
        /\ Sniff!IsPrefix(Sniff!V2Signature, h) <=> n >= 3 /\ h[1] = "cr" /\ h[2] = "lf" /\ h[3] = "Q"
    BY <1>2, <1>7, Letters
  <2>3. n >= 2 => (Sniff!IsSuffix(<<"cr", "lf">>, h) <=> h[n - 1] = "cr" /\ h[n] = "lf")
    BY <1>2, SuffixIs
  <2>4. ASSUME LineForm(h)
        PROVE  Sniff!Ends /\ (Sniff!HasAddresses <=> h = AddressLine)
    <3>1. /\ n >= 4 /\ n >= 2 /\ h[1] = "P" /\ h[2] = "R" /\ h[3] = "O" /\ h[4] = "X"
          /\ h[n - 1] = "cr" /\ h[n] = "lf"
      BY <1>2, <2>4 DEF LineForm
    <3>2. Sniff!IsSuffix(<<"cr", "lf">>, h) /\ Sniff!IsPrefix(Sniff!V1Signature, h)
      BY <2>2, <2>3, <3>1, Zenon
    <3>3. ~ Sniff!IsPrefix(Sniff!V2Signature, h)
      BY <2>2, <3>1
    <3> QED
      BY <1>4, <1>5, <3>2, <3>3, Zenon
  <2>5. ASSUME EndlessForm(h)
        PROVE  ~ Sniff!Ends /\ ~ Sniff!HasAddresses
    <3>1. /\ n >= 4 /\ n >= 2 /\ h[1] = "P" /\ h[2] = "R" /\ h[3] = "O" /\ h[4] = "X"
          /\ \A i \in 1..n : h[i] # "cr"
      BY <1>2, <2>5 DEF EndlessForm
    <3>2. n - 1 \in 1..n /\ (n = 7 => 6 \in 1..n)
      BY <3>1
    <3>3. ~ Sniff!IsSuffix(<<"cr", "lf">>, h)
      BY <2>3, <3>1, <3>2, Zenon
    <3>4. ~ Sniff!IsPrefix(Sniff!V2Signature, h)
      BY <2>2, <3>1
    <3>5. h # AddressLine
      BY <1>3, <3>1, <3>2, Zenon
    <3> QED
      BY <1>4, <1>5, <3>3, <3>4, <3>5, Zenon
  <2>6. ASSUME BinaryForm(h)
        PROVE  Sniff!Ends /\ (Sniff!HasAddresses <=> h[4] = "v2tcp")
    <3>1. /\ n >= 3 /\ h[1] = "cr" /\ h[2] = "lf" /\ h[3] = "Q" /\ h[4] \notin {"v2huge", "v3"}
      BY <1>2, <2>6 DEF BinaryForm
    <3>2. Sniff!IsPrefix(Sniff!V2Signature, h) /\ h # AddressLine
      BY <1>3, <2>2, <3>1
    <3> QED
      BY <1>4, <1>5, <3>1, <3>2, Zenon
  <2>7. ASSUME RefusedForm(h)
        PROVE  ~ Sniff!Ends /\ ~ Sniff!HasAddresses
    <3>1. /\ n >= 3 /\ h[1] = "cr" /\ h[2] = "lf" /\ h[3] = "Q" /\ h[4] \in {"v2huge", "v3"}
      BY <1>2, <2>7 DEF RefusedForm
    <3>2. ~ Sniff!IsPrefix(Sniff!V1Signature, h) /\ h # AddressLine /\ h[4] # "v2tcp"
      BY <1>3, <2>2, <3>1
    <3> QED
      BY <1>4, <1>5, <3>1, <3>2, Zenon
  <2> QED
    BY <1>1, <2>1, <2>4, <2>5, <2>6, <2>7, Zenon
<1> QED
  BY <1>2, <1>6, <1>7

LEMMA AddressOfLine ==
    ASSUME NEW X, NEW h \in Seq(X), LineForm(h), NEW w \in Seq(X), Begins(h, w),
           NEW d \in Seq(X), Begins(d, w), NEW m \in Nat, m = Len(h), m <= Len(d)
    PROVE  NamesTcp(d, m) <=> h = AddressLine
<1>1. m >= 6 /\ h[m - 1] = "cr" /\ h[m] = "lf"
  BY DEF LineForm
<1>2. PICK s \in Seq(X) : s = SubSeq(d, 1, m - 2)
  <2>1. SubSeq(d, 1, m - 2) \in Seq(X)
    BY <1>1
  <2> QED
    BY <2>1, Zenon
<1>3. Len(s) = m - 2 /\ \A i \in 1..(m - 2) : s[i] = d[i]
  BY <1>1, <1>2
<1>4. \A i \in 1..(m - 2) : d[i] = h[i]
  BY <1>1 DEF Begins
<1>5. s[1] = h[1] /\ s[2] = h[2] /\ s[3] = h[3] /\ s[4] = h[4] /\ (m = 7 => s[5] = h[5])
  <2>1. /\ 1 \in 1..(m - 2) /\ 2 \in 1..(m - 2) /\ 3 \in 1..(m - 2) /\ 4 \in 1..(m - 2)
        /\ m = 7 => 5 \in 1..(m - 2)
    BY <1>1
  <2>2. \A i \in 1..(m - 2) : s[i] = h[i]
    BY <1>3, <1>4, Zenon
  <2> QED
    BY <2>1, <2>2
<1>6. s = <<"P", "R", "O", "X", "tcp">>
         <=> m - 2 = 5 /\ s[1] = "P" /\ s[2] = "R" /\ s[3] = "O" /\ s[4] = "X" /\ s[5] = "tcp"
  <2>1. Tuple5(s, "P", "R", "O", "X", "tcp")
    BY Tuple5Is
  <2> QED
    BY <1>3, <2>1, Zenon DEF Tuple5
<1>7. h = AddressLine <=> /\ m = 7 /\ h[1] = "P" /\ h[2] = "R" /\ h[3] = "O" /\ h[4] = "X"
                          /\ h[5] = "tcp" /\ h[6] = "cr" /\ h[7] = "lf"
  <2>1. Tuple7(h, "P", "R", "O", "X", "tcp", "cr", "lf")
    BY Tuple7Is
  <2> QED
    BY <2>1, Zenon DEF Tuple7, AddressLine
<1>8. (m - 2 = 5 <=> m = 7) /\ (m = 7 => h[6] = "cr" /\ h[7] = "lf")
  <2>1. (m - 2 = 5 <=> m = 7) /\ (m = 7 => m - 1 = 6)
    OBVIOUS
  <2>2. CASE m = 7
    <3>1. h[6] = "cr" /\ h[7] = "lf"
      BY <1>1, <2>1, <2>2, Zenon
    <3> QED
      BY <2>1, <3>1, Zenon
  <2> QED
    BY <2>1, <2>2, Zenon
<1>9. s = <<"P", "R", "O", "X", "tcp">> <=> h = AddressLine
  BY <1>5, <1>6, <1>7, <1>8
<1> QED
  BY <1>2, <1>9, AddressLineIs, Zenon DEF NamesTcp

\* What is sent begins with the header, and what has come in with what is sent.
LEMMA SniffSent ==
    ASSUME NEW X, header \in Seq(X), payload \in Seq(X)
    PROVE  /\ Sniff!Sent \in Seq(X)
           /\ Len(Sniff!Sent) = Len(header) + Len(payload)
           /\ Len(header) \in Nat /\ Len(payload) \in Nat
           /\ Begins(header, Sniff!Sent)
           /\ header = <<>> => Sniff!Sent = payload
<1>1. PICK h \in Seq(X) : h = header
  BY Zenon
<1>2. PICK p \in Seq(X) : p = payload
  BY Zenon
<1>3. PICK w \in Seq(X) : w = h \o p
  <2>1. h \o p \in Seq(X)
    BY ConcatProperties
  <2> QED
    BY <2>1, Zenon
<1>4. Sniff!Sent = w
  BY <1>1, <1>2, <1>3, Zenon DEF Sniff!Sent
<1>5. /\ Len(w) = Len(h) + Len(p)
      /\ \A i \in 1..(Len(h) + Len(p)) : w[i] = IF i <= Len(h) THEN h[i] ELSE p[i - Len(h)]
  BY <1>3, ConcatProperties, Zenon
<1>6. Len(h) \in Nat /\ Len(p) \in Nat
  OBVIOUS
<1>7. Begins(h, w)
  BY <1>5, <1>6 DEF Begins
<1>8. h = <<>> => w = p
  BY <1>3, ConcatEmptySeq
<1> QED
  BY <1>1, <1>2, <1>4, <1>5, <1>6, <1>7, <1>8, Zenon

LEMMA ReadIs ==
    ASSUME NEW X, NEW w \in Seq(X), NEW r \in Nat, r <= Len(w)
    PROVE  SubSeq(w, 1, r) \in Seq(X) /\ Len(SubSeq(w, 1, r)) = r /\ Begins(SubSeq(w, 1, r), w)
<1>1. Len(w) \in Nat
  OBVIOUS
<1>2. PICK d : d = SubSeq(w, 1, r)
  OBVIOUS
<1>3. d \in Seq(X) /\ Len(d) = r /\ \A i \in 1..r : d[i] = w[i]
  BY <1>1, <1>2
<1> QED
  BY <1>2, <1>3 DEF Begins

\* The bytes so far are waited on, are no header, or have one that is stripped, or are given up.
Addressed(d) == ParsedAs(d).address \in BOOLEAN /\ (ParsedAs(d).address <=> Sniff!HasAddresses)

HeaderOutcome(d, r) ==
    \/ /\ WaitsOn(d) /\ (Sniff!Ends => r < Len(header))
       /\ header = <<>> => MayBecomeHeader(d)
    \/ Passed(d) /\ ~ Sniff!Ends /\ ~ Sniff!HasAddresses
    \/ /\ StrippedTo(d, SubSeq(Sniff!Sent, Len(header) + 1, r)) /\ Addressed(d)
       /\ Sniff!Ends /\ r >= Len(header)
    \/ StrippedTo(d, d) /\ Addressed(d) /\ ~ Sniff!Ends
    \/ GivenUp(d) /\ ~ Sniff!Ends /\ header # <<>> /\ header[1] = "cr"

LEMMA HeaderRead ==
    ASSUME NEW X, header \in Seq(X), payload \in Seq(X),
           Sniff!HeaderForm(header), Sniff!ProtocolForm(payload),
           NEW r \in Nat, r >= 1, r <= Len(Sniff!Sent), NEW d, d = SubSeq(Sniff!Sent, 1, r)
    PROVE  HeaderOutcome(d, r)
<1>1. PICK h \in Seq(X) : h = header
  BY Zenon
<1>2. PICK w \in Seq(X) : w = Sniff!Sent
  BY SniffSent, Zenon
<1>3. d \in Seq(X) /\ Len(d) = r /\ Begins(d, w) /\ Len(d) >= 1
  <2>1. d = SubSeq(w, 1, r) /\ r <= Len(w)
    BY <1>2, Zenon
  <2> QED
    BY <2>1, ReadIs
<1>4. Begins(h, w)
  BY <1>1, <1>2, SniffSent, Zenon
<1>5. PICK m \in Nat : m = Len(h)
  OBVIOUS
<1>6. r < m \/ r >= m
  OBVIOUS
<1>7. CASE h = <<>>
  <2>1. Sniff!ProtocolForm(w)
    <3>1. w = payload
      BY <1>1, <1>2, <1>7, SniffSent, Zenon
    <3> QED
      BY <3>1, Zenon
  <2>2. IF MayBecomeHeader(d) THEN WaitsOn(d) ELSE Passed(d)
    BY <1>3, <2>1, NoHeader
  <2>3. ~ Sniff!Ends /\ ~ Sniff!HasAddresses
    BY <1>1, <1>7, EndsIs, Zenon
  <2> QED
    BY <2>2, <2>3, Zenon DEF HeaderOutcome
<1>8. CASE LineForm(h)
  <2>1. Sniff!Ends /\ (Sniff!HasAddresses <=> h = AddressLine) /\ h # <<>>
    <3>1. LineForm(header)
      BY <1>1, <1>8, Zenon
    <3>2. h # <<>>
      BY <1>8 DEF LineForm
    <3> QED
      BY <1>1, <3>1, <3>2, EndsIs, Zenon
  <2>2. IF r < m THEN WaitsOn(d)
        ELSE StrippedTo(d, SubSeq(w, m + 1, r)) /\ ParsedAs(d).address = NamesTcp(d, m)
    <3>1. LineRead(d, w, m, r)
      BY <1>3, <1>4, <1>5, <1>8, InLine
    <3> QED
      BY <3>1, Zenon DEF LineRead
  <2>3. CASE r < m
    BY <1>1, <1>5, <2>1, <2>2, <2>3, Zenon DEF HeaderOutcome
  <2>4. CASE r >= m
    <3>1. ~ (r < m)
      BY <2>4
    <3>2. NamesTcp(d, m) <=> h = AddressLine
      BY <1>3, <1>4, <1>5, <1>8, <2>4, AddressOfLine
    <3>3. NamesTcp(d, m) \in BOOLEAN
      BY Zenon DEF NamesTcp
    <3>4. Addressed(d)
      BY <2>1, <2>2, <3>1, <3>2, <3>3, Zenon DEF Addressed
    <3> QED
      BY <1>1, <1>2, <1>5, <2>1, <2>2, <2>4, <3>1, <3>4, Zenon DEF HeaderOutcome
  <2> QED
    BY <1>6, <2>3, <2>4
<1>9. CASE EndlessForm(h)
  <2>1. ~ Sniff!Ends /\ ~ Sniff!HasAddresses /\ h # <<>>
    <3>1. EndlessForm(header)
      BY <1>1, <1>9, Zenon
    <3>2. h # <<>>
      BY <1>9 DEF EndlessForm
    <3> QED
      BY <1>1, <3>1, <3>2, EndsIs, Zenon
  <2>2. WaitsOn(d) \/ (StrippedTo(d, d) /\ ParsedAs(d).address = FALSE)
    BY <1>3, <1>4, <1>5, <1>9, InEndless
  <2>3. ParsedAs(d).address = FALSE => Addressed(d)
    BY <2>1, Zenon DEF Addressed
  <2> QED
    BY <1>1, <2>1, <2>2, <2>3, Zenon DEF HeaderOutcome
<1>10. CASE BinaryForm(h)
  <2>1. Sniff!Ends /\ (Sniff!HasAddresses <=> h[4] = "v2tcp") /\ h # <<>>
    <3>1. BinaryForm(header)
      BY <1>1, <1>10, Zenon
    <3>2. h # <<>>
      BY <1>10 DEF BinaryForm
    <3> QED
      BY <1>1, <3>1, <3>2, EndsIs, Zenon
  <2>2. IF r < m THEN WaitsOn(d)
        ELSE /\ StrippedTo(d, SubSeq(w, m + 1, r))
             /\ ParsedAs(d).address = (h[4] = "v2tcp")
    BY <1>3, <1>4, <1>5, <1>10, InBinary
  <2>3. CASE r < m
    BY <1>1, <1>5, <2>1, <2>2, <2>3, Zenon DEF HeaderOutcome
  <2>4. CASE r >= m
    <3>1. ~ (r < m)
      BY <2>4
    <3>2. Addressed(d)
      BY <2>1, <2>2, <3>1, Zenon DEF Addressed
    <3> QED
      BY <1>1, <1>2, <1>5, <2>1, <2>2, <2>4, <3>1, <3>2, Zenon DEF HeaderOutcome
  <2> QED
    BY <1>6, <2>3, <2>4
<1>11. CASE RefusedForm(h)
  <2>1. ~ Sniff!Ends /\ h # <<>> /\ h[1] = "cr"
    <3>1. RefusedForm(header)
      BY <1>1, <1>11, Zenon
    <3>2. h # <<>> /\ h[1] = "cr"
      BY <1>11 DEF RefusedForm
    <3> QED
      BY <1>1, <3>1, <3>2, EndsIs, Zenon
  <2>2. WaitsOn(d) \/ GivenUp(d)
    BY <1>3, <1>4, <1>5, <1>11, InRefused
  <2> QED
    BY <1>1, <2>1, <2>2, Zenon DEF HeaderOutcome
<1>12. Sniff!HeaderForm(h)
  BY <1>1, Zenon
<1> QED
  BY <1>7, <1>8, <1>9, <1>10, <1>11, <1>12, FormOf

-----------------------------------------------------------------------------
(***************************************************************************)
(* What has come in is the header so far, the header, or the header and    *)
(* what the handler was given.                                             *)
(***************************************************************************)
\* A header is waited for: all there is is kept, and the header is not yet there.
AwaitsHeader ==
    /\ phase = "header" /\ trustProxyProtocol /\ handler = "none" /\ proxied = FALSE
    /\ bufferedData = SubSeq(Sniff!Sent, 1, sniffed)
    /\ Sniff!Ends => sniffed < Len(header)
    /\ header = <<>> => MayBecomeHeader(bufferedData)

\* A protocol is waited for: a header, if it was read, has come in to its last byte.
AwaitsProtocol ==
    /\ phase = "protocol" /\ handler = "none" /\ bufferedData = <<>>
    /\ sniffed = Sniff!Stripped
    /\ trustProxyProtocol => Sniff!Ends
    /\ proxied <=> trustProxyProtocol /\ Sniff!HasAddresses

\* The connection was handed on with what came in behind the header.
HandedOn ==
    /\ phase = "done" /\ bufferedData = <<>> /\ sniffed > Sniff!Stripped
    /\ given = SubSeq(Sniff!Sent, Sniff!Stripped + 1, sniffed)
    /\ handler = Sniff!HandlerFor(given)
    /\ proxied <=> trustProxyProtocol /\ Sniff!HasAddresses

\* It was closed, for a header of version 2 that does not end.
HeaderRefused ==
    /\ phase = "done" /\ bufferedData = <<>> /\ handler = "destroyed" /\ ~ Sniff!Ends
    /\ header # <<>> /\ header[1] = "cr"

SniffInv ==
    /\ header \in Headers /\ payload \in Payloads /\ trustProxyProtocol \in BOOLEAN
    /\ sniffed \in 0..Len(Sniff!Sent) /\ proxied \in BOOLEAN
    /\ AwaitsHeader \/ AwaitsProtocol \/ HandedOn \/ HeaderRefused

\* The headers and payloads there are.
LEMMA SentForms ==
    ASSUME header \in Headers, payload \in Payloads
    PROVE  /\ header \in Seq(STRING) /\ payload \in Seq(STRING)
           /\ Sniff!HeaderForm(header) /\ Sniff!ProtocolForm(payload) /\ payload # <<>>
BY SniffData, Zenon DEF Sniff!FirstBytes

LEMMA EndsHasBytes ==
    ASSUME NEW X, header \in Seq(X), Sniff!Ends
    PROVE  Len(header) >= 1
<1>1. header # <<>>
  BY EndsIs, Zenon
<1>2. Len(header) \in Nat \ {0}
  BY <1>1, EmptySeq
<1> QED
  BY <1>2

LEMMA StrippedIs ==
    ASSUME NEW X, header \in Seq(X)
    PROVE  /\ Sniff!Stripped \in Nat /\ Sniff!Stripped <= Len(header)
           /\ trustProxyProtocol /\ Sniff!Ends => Sniff!Stripped = Len(header)
           /\ ~ (trustProxyProtocol /\ Sniff!Ends) => Sniff!Stripped = 0
<1>1. Len(header) \in Nat
  OBVIOUS
<1> QED
  BY <1>1 DEF Sniff!Stripped

LEMMA SniffInitInv ==
    ASSUME Sniff!Init
    PROVE  SniffInv
<1>1. /\ header \in Headers /\ payload \in Payloads /\ trustProxyProtocol \in BOOLEAN
      /\ sniffed = 0 /\ bufferedData = <<>> /\ proxied = FALSE /\ handler = "none"
      /\ phase = IF trustProxyProtocol THEN "header" ELSE "protocol"
  BY DEF Sniff!Init
<1>2. header \in Seq(STRING) /\ payload \in Seq(STRING)
  BY <1>1, SentForms
<1>3. sniffed \in 0..Len(Sniff!Sent)
  <2>1. Len(Sniff!Sent) = Len(header) + Len(payload) /\ Len(header) \in Nat /\ Len(payload) \in Nat
    BY <1>2, SniffSent, Zenon
  <2> QED
    BY <1>1, <2>1
<1>4. CASE trustProxyProtocol
  <2>1. SubSeq(Sniff!Sent, 1, 0) = <<>>
    <3>1. Sniff!Sent \in Seq(STRING)
      BY <1>2, SniffSent, Zenon
    <3> QED
      BY <3>1, SubSeqEmpty
  <2>2. Sniff!Ends => sniffed < Len(header)
    <3>1. Sniff!Ends => Len(header) >= 1
      BY <1>2, EndsHasBytes
    <3>2. Len(header) \in Nat
      BY <1>2
    <3> QED
      BY <1>1, <3>1, <3>2
  <2>3. MayBecomeHeader(<<>>)
    BY DEF MayBecomeHeader, Sniff!IsStrictPrefix, Sniff!IsPrefix, Sniff!V1Signature
  <2>4. AwaitsHeader
    BY <1>1, <1>4, <2>1, <2>2, <2>3 DEF AwaitsHeader
  <2> QED
    BY <1>1, <1>3, <2>4 DEF SniffInv
<1>5. CASE ~ trustProxyProtocol
  <2>1. Sniff!Stripped = 0
    BY <1>5 DEF Sniff!Stripped
  <2>2. AwaitsProtocol
    BY <1>1, <1>5, <2>1 DEF AwaitsProtocol
  <2> QED
    BY <1>1, <1>3, <2>2 DEF SniffInv
<1> QED
  BY <1>4, <1>5

\* What a step does not change.
LEMMA SniffStatic ==
    ASSUME UNCHANGED <<header, payload, trustProxyProtocol>>
    PROVE  /\ Sniff!Sent' = Sniff!Sent /\ Sniff!Stripped' = Sniff!Stripped
           /\ Sniff!Ends' <=> Sniff!Ends
           /\ Sniff!HasAddresses' <=> Sniff!HasAddresses
BY DEF Sniff!Sent, Sniff!Stripped, Sniff!Ends, Sniff!HasAddresses

\* A connection is handed on with the bytes behind the header, unless there are none yet.
LEMMA ProtocolDataInv ==
    ASSUME header \in Headers, payload \in Payloads, trustProxyProtocol \in BOOLEAN,
           UNCHANGED <<header, payload, trustProxyProtocol>>,
           sniffed' \in 0..Len(Sniff!Sent), sniffed' >= Sniff!Stripped,
           handler = "none", bufferedData' = <<>>, proxied' \in BOOLEAN,
           proxied' <=> trustProxyProtocol /\ Sniff!HasAddresses,
           sniffed' = Sniff!Stripped => trustProxyProtocol /\ Sniff!Ends,
           Sniff!ProcessProtocolData(SubSeq(Sniff!Sent, Sniff!Stripped + 1, sniffed'))
    PROVE  SniffInv'
<1> DEFINE rest == SubSeq(Sniff!Sent, Sniff!Stripped + 1, sniffed')
<1>1. /\ Sniff!Sent' = Sniff!Sent /\ Sniff!Stripped' = Sniff!Stripped
      /\ Sniff!Ends' <=> Sniff!Ends
      /\ Sniff!HasAddresses' <=> Sniff!HasAddresses
  BY SniffStatic
<1>2. PICK s \in Nat : s = Sniff!Stripped
  BY SentForms, StrippedIs, Zenon
<1>3. PICK r \in Nat : r = sniffed'
  <2>1. Len(Sniff!Sent) \in Nat
    <3>1. Sniff!Sent \in Seq(STRING)
      BY SentForms, SniffSent, Zenon
    <3> QED
      BY <3>1
  <2> QED
    BY <2>1
<1>4. PICK w \in Seq(STRING) : w = Sniff!Sent
  BY SentForms, SniffSent, Zenon
<1>5. r <= Len(w) /\ r >= s
  BY <1>2, <1>3, <1>4
<1>6. CASE r = s
  <2>1. rest = <<>>
    <3>1. SubSeq(w, s + 1, r) = <<>>
      BY <1>5, <1>6, SubSeqEmpty
    <3> QED
      BY <1>2, <1>3, <1>4, <3>1, Zenon
  <2>2. phase' = "protocol" /\ handler' = "none"
    BY <2>1 DEF Sniff!ProcessProtocolData
  <2>3. trustProxyProtocol /\ Sniff!Ends
    BY <1>2, <1>3, <1>6
  <2>4. AwaitsProtocol'
    BY <1>1, <1>2, <1>3, <1>6, <2>2, <2>3, Zenon DEF AwaitsProtocol
  <2> QED
    BY <1>1, <2>4, Zenon DEF SniffInv
<1>7. CASE r # s
  <2>1. r > s
    BY <1>5, <1>7
  <2>2. rest # <<>>
    <3>1. Len(SubSeq(w, s + 1, r)) = r - s
      BY <1>5, <2>1
    <3>2. SubSeq(w, s + 1, r) # <<>>
      <4>1. r - s # 0 /\ Len(<<>>) = 0
        BY <2>1
      <4> QED
        BY <3>1, <4>1, Zenon
    <3> QED
      BY <1>2, <1>3, <1>4, <3>2, Zenon
  <2>3. phase' = "done" /\ handler' = Sniff!HandlerFor(rest) /\ given' = rest
    BY <2>2, Zenon DEF Sniff!ProcessProtocolData
  <2>4. /\ given' = SubSeq(Sniff!Sent', Sniff!Stripped' + 1, sniffed')
        /\ handler' = Sniff!HandlerFor(given)'
    <3>1. handler' = Sniff!HandlerFor(given')
      BY <2>3, Zenon
    <3>2. given' = SubSeq(Sniff!Sent', Sniff!Stripped' + 1, sniffed')
      BY <1>1, <2>3, Zenon
    <3>3. Sniff!HandlerFor(given') = Sniff!HandlerFor(given)'
      BY DEF Sniff!HandlerFor, Sniff!IsTLS, Sniff!IsHTTP2, Sniff!CouldBeHttp, Sniff!Alike,
             Sniff!IsPrefix, Sniff!Preface, Sniff!MethodPrefixes
    <3> QED
      BY <3>1, <3>2, <3>3, Zenon
  <2>5. sniffed' > Sniff!Stripped'
    BY <1>1, <1>2, <1>3, <2>1, Zenon
  <2>6. HandedOn'
    BY <1>1, <2>3, <2>4, <2>5, Zenon DEF HandedOn
  <2> QED
    BY <1>1, <2>6, Zenon DEF SniffInv
<1> QED
  BY <1>6, <1>7

LEMMA HeaderStepInv ==
    ASSUME header \in Headers, payload \in Payloads, trustProxyProtocol \in BOOLEAN,
           UNCHANGED <<header, payload, trustProxyProtocol>>,
           AwaitsHeader, sniffed' \in 1..Len(Sniff!Sent),
           Sniff!ParseProxyProtocolHeader(SubSeq(Sniff!Sent, 1, sniffed'))
    PROVE  SniffInv'
<1>1. /\ Sniff!Sent' = Sniff!Sent /\ Sniff!Stripped' = Sniff!Stripped
      /\ Sniff!Ends' <=> Sniff!Ends
      /\ Sniff!HasAddresses' <=> Sniff!HasAddresses
  BY SniffStatic
<1>2. /\ header \in Seq(STRING) /\ payload \in Seq(STRING)
      /\ Sniff!HeaderForm(header) /\ Sniff!ProtocolForm(payload)
  BY SentForms
<1>3. PICK w \in Seq(STRING) : w = Sniff!Sent
  BY <1>2, SniffSent, Zenon
<1>4. PICK r \in Nat : r = sniffed' /\ r >= 1 /\ r <= Len(w)
  <2>1. Len(w) \in Nat
    OBVIOUS
  <2> QED
    BY <1>3, <2>1
<1>5. PICK d : d = SubSeq(w, 1, r)
  OBVIOUS
<1>6. d \in Seq(STRING) /\ Len(d) = r
  BY <1>4, <1>5, ReadIs
<1>7. HeaderOutcome(d, r)
  <2>1. d = SubSeq(Sniff!Sent, 1, r) /\ r <= Len(Sniff!Sent)
    BY <1>3, <1>4, <1>5, Zenon
  <2> QED
    BY <1>2, <1>4, <2>1, HeaderRead
<1>8. trustProxyProtocol /\ handler = "none" /\ phase = "header" /\ proxied = FALSE
  BY DEF AwaitsHeader
<1>9. /\ Sniff!Stripped \in Nat
      /\ Sniff!Ends => Sniff!Stripped = Len(header)
      /\ ~ Sniff!Ends => Sniff!Stripped = 0
  BY <1>2, <1>8, StrippedIs, Zenon
<1>10. Sniff!ParseProxyProtocolHeader(d)
  BY <1>3, <1>4, <1>5, Zenon
<1>11. sniffed' \in 0..Len(Sniff!Sent)
  BY <1>3, <1>4
<1>12. CASE /\ WaitsOn(d) /\ (Sniff!Ends => r < Len(header))
            /\ header = <<>> => MayBecomeHeader(d)
  <2>1. bufferedData' = d /\ UNCHANGED <<phase, proxied, handler, given>>
    <3>1. CASE Sniff!Detect(d) = "incomplete"
      BY <1>10, <3>1 DEF Sniff!ParseProxyProtocolHeader
    <3>2. CASE Sniff!Detect(d) \in {"v1", "v2"} /\ ~ ParsedAs(d).complete /\ Len(d) <= HeaderCap
      <4>1. ~ (Len(d) > HeaderCap)
        BY <1>6, <3>2, SniffData DEF Sniff!Lengths
      <4>2. Sniff!Detect(d) # "none" /\ Sniff!Detect(d) # "incomplete"
        BY <3>2
      <4> QED
        BY <1>10, <3>2, <4>1, <4>2, Zenon DEF Sniff!ParseProxyProtocolHeader, ParsedAs
    <3> QED
      BY <1>12, <3>1, <3>2 DEF WaitsOn
  <2>2. bufferedData' = SubSeq(Sniff!Sent', 1, sniffed')
    BY <1>1, <1>3, <1>4, <1>5, <2>1, Zenon
  <2>3. Sniff!Ends' => sniffed' < Len(header')
    BY <1>1, <1>4, <1>12, Zenon
  <2>4. header' = <<>> => MayBecomeHeader(bufferedData)'
    <3>1. header' = <<>> => MayBecomeHeader(bufferedData')
      BY <1>12, <2>1, Zenon
    <3> QED
      BY <3>1 DEF MayBecomeHeader, Sniff!IsStrictPrefix, Sniff!IsPrefix, Sniff!V1Signature, Sniff!V2Signature
  <2>5. AwaitsHeader'
    BY <1>8, <2>1, <2>2, <2>3, <2>4, Zenon DEF AwaitsHeader
  <2> QED
    BY <1>1, <1>8, <1>11, <2>1, <2>5 DEF SniffInv
<1>13. CASE Passed(d) /\ ~ Sniff!Ends /\ ~ Sniff!HasAddresses
  <2>1. bufferedData' = <<>> /\ Sniff!ProcessProtocolData(d) /\ proxied' = proxied
    BY <1>10, <1>13 DEF Sniff!ParseProxyProtocolHeader, Passed
  <2>2. Sniff!Stripped = 0 /\ 0 + 1 = 1
    BY <1>9, <1>13
  <2>3. Sniff!ProcessProtocolData(SubSeq(Sniff!Sent, Sniff!Stripped + 1, sniffed'))
    BY <1>3, <1>4, <1>5, <2>1, <2>2, Zenon
  <2>4. sniffed' >= Sniff!Stripped /\ sniffed' # Sniff!Stripped
    BY <1>4, <2>2
  <2> QED
    BY <1>8, <1>11, <1>13, <2>1, <2>3, <2>4, ProtocolDataInv
<1>14. CASE /\ StrippedTo(d, SubSeq(Sniff!Sent, Len(header) + 1, r)) /\ Addressed(d)
            /\ Sniff!Ends /\ r >= Len(header)
  <2>1. /\ bufferedData' = <<>> /\ proxied' = ParsedAs(d).address
        /\ Sniff!ProcessProtocolData(SubSeq(Sniff!Sent, Len(header) + 1, r))
    <3>1. Sniff!Detect(d) \in {"v1", "v2"} /\ ParsedAs(d).complete
          /\ ParsedAs(d).remaining = SubSeq(Sniff!Sent, Len(header) + 1, r)
      BY <1>14, Zenon DEF StrippedTo
    <3>2. Sniff!Detect(d) # "none" /\ Sniff!Detect(d) # "incomplete"
      BY <3>1
    <3> QED
      BY <1>10, <3>1, <3>2, Zenon DEF Sniff!ParseProxyProtocolHeader, Sniff!StripHeader, ParsedAs
  <2>2. Sniff!Stripped = Len(header)
    BY <1>9, <1>14
  <2>3. Sniff!ProcessProtocolData(SubSeq(Sniff!Sent, Sniff!Stripped + 1, sniffed'))
    BY <1>4, <2>1, <2>2, Zenon
  <2>4. sniffed' >= Sniff!Stripped
    BY <1>4, <1>14, <2>2, Zenon
  <2>5. proxied' \in BOOLEAN /\ (proxied' <=> trustProxyProtocol /\ Sniff!HasAddresses)
    BY <1>8, <1>14, <2>1, Zenon DEF Addressed
  <2> QED
    BY <1>8, <1>11, <1>14, <2>1, <2>3, <2>4, <2>5, ProtocolDataInv
<1>15. CASE StrippedTo(d, d) /\ Addressed(d) /\ ~ Sniff!Ends
  <2>1. /\ bufferedData' = <<>> /\ proxied' = ParsedAs(d).address
        /\ Sniff!ProcessProtocolData(d)
    <3>1. Sniff!Detect(d) \in {"v1", "v2"} /\ ParsedAs(d).complete /\ ParsedAs(d).remaining = d
      BY <1>15, Zenon DEF StrippedTo
    <3>2. Sniff!Detect(d) # "none" /\ Sniff!Detect(d) # "incomplete"
      BY <3>1
    <3> QED
      BY <1>10, <3>1, <3>2, Zenon DEF Sniff!ParseProxyProtocolHeader, Sniff!StripHeader, ParsedAs
  <2>2. Sniff!Stripped = 0 /\ 0 + 1 = 1
    BY <1>9, <1>15
  <2>3. Sniff!ProcessProtocolData(SubSeq(Sniff!Sent, Sniff!Stripped + 1, sniffed'))
    BY <1>3, <1>4, <1>5, <2>1, <2>2, Zenon
  <2>4. sniffed' >= Sniff!Stripped /\ sniffed' # Sniff!Stripped
    BY <1>4, <2>2
  <2>5. proxied' \in BOOLEAN /\ (proxied' <=> trustProxyProtocol /\ Sniff!HasAddresses)
    BY <1>8, <1>15, <2>1, Zenon DEF Addressed
  <2> QED
    BY <1>8, <1>11, <1>15, <2>1, <2>3, <2>4, <2>5, ProtocolDataInv
<1>16. CASE GivenUp(d) /\ ~ Sniff!Ends /\ header # <<>> /\ header[1] = "cr"
  <2>1. bufferedData' = <<>> /\ phase' = "done" /\ handler' = "destroyed" /\ proxied' = proxied
    <3>1. Sniff!Detect(d) \in {"v1", "v2"} /\ ~ ParsedAs(d).complete /\ Len(d) > HeaderCap
      BY <1>16, Zenon DEF GivenUp
    <3>2. Sniff!Detect(d) # "none" /\ Sniff!Detect(d) # "incomplete" /\ ~ (Len(d) <= HeaderCap)
      BY <1>6, <3>1, SniffData DEF Sniff!Lengths
    <3> QED
      BY <1>10, <3>1, <3>2, Zenon DEF Sniff!ParseProxyProtocolHeader, ParsedAs
  <2>2. HeaderRefused'
    BY <1>1, <1>16, <2>1, Zenon DEF HeaderRefused
  <2> QED
    BY <1>1, <1>8, <1>11, <2>1, <2>2 DEF SniffInv
<1> QED
  BY <1>7, <1>12, <1>13, <1>14, <1>15, <1>16, Zenon DEF HeaderOutcome

LEMMA SniffNextInv ==
    ASSUME SniffInv, Sniff!Next
    PROVE  SniffInv'
<1>1. PICK n \in 1..Len(Sniff!Sent) : Sniff!Readable(n)
  BY DEF Sniff!Next
<1>2. /\ header \in Headers /\ payload \in Payloads /\ trustProxyProtocol \in BOOLEAN
      /\ sniffed \in 0..Len(Sniff!Sent) /\ proxied \in BOOLEAN
  BY DEF SniffInv
<1>3. /\ phase # "done" /\ sniffed + n <= Len(Sniff!Sent) /\ sniffed' = sniffed + n
      /\ UNCHANGED <<header, payload, trustProxyProtocol>>
  BY <1>1 DEF Sniff!Readable
<1>4. PICK w \in Seq(STRING) : w = Sniff!Sent
  BY <1>2, SentForms, SniffSent, Zenon
<1>5. PICK l \in Nat : l = Len(w)
  OBVIOUS
<1>6. sniffed \in Nat /\ n \in Nat /\ n >= 1 /\ sniffed' \in 1..l /\ sniffed' \in 0..l
  BY <1>2, <1>3, <1>4, <1>5
<1>7. CASE AwaitsHeader
  <2>1. Sniff!ParseProxyProtocolHeader(bufferedData \o SubSeq(Sniff!Sent, sniffed + 1, sniffed + n))
    BY <1>1, <1>7, Zenon DEF Sniff!Readable, Sniff!WithBuffered, AwaitsHeader
  <2>2. SubSeq(w, 1, sniffed) \o SubSeq(w, sniffed + 1, sniffed + n) = SubSeq(w, 1, sniffed + n)
    <3>1. PICK a, b : a = sniffed /\ b = sniffed + n
      OBVIOUS
    <3>2. a \in Nat /\ b \in Nat /\ a <= b /\ b <= l
      BY <1>3, <1>4, <1>5, <1>6, <3>1
    <3>3. SubSeq(w, 1, a) \o SubSeq(w, a + 1, b) = SubSeq(w, 1, b)
      BY <1>5, <3>2, ConcatAdjacentSubSeq
    <3> QED
      BY <3>1, <3>3, Zenon
  <2>3. Sniff!ParseProxyProtocolHeader(SubSeq(Sniff!Sent, 1, sniffed'))
    BY <1>3, <1>4, <1>7, <2>1, <2>2, Zenon DEF AwaitsHeader
  <2>4. sniffed' \in 1..Len(Sniff!Sent)
    BY <1>4, <1>5, <1>6, Zenon
  <2> QED
    BY <1>2, <1>3, <1>7, <2>3, <2>4, HeaderStepInv
<1>8. CASE AwaitsProtocol
  <2>1. /\ Sniff!ProcessProtocolData(SubSeq(Sniff!Sent, sniffed + 1, sniffed + n))
        /\ UNCHANGED <<bufferedData, proxied>>
    BY <1>1, <1>8, Zenon DEF Sniff!Readable, AwaitsProtocol
  <2>2. Sniff!ProcessProtocolData(SubSeq(Sniff!Sent, Sniff!Stripped + 1, sniffed'))
    BY <1>3, <1>8, <2>1, Zenon DEF AwaitsProtocol
  <2>3. sniffed' >= Sniff!Stripped /\ sniffed' # Sniff!Stripped
    BY <1>3, <1>6, <1>8 DEF AwaitsProtocol
  <2>4. sniffed' \in 0..Len(Sniff!Sent)
    BY <1>4, <1>5, <1>6, Zenon
  <2>5. handler = "none" /\ bufferedData = <<>> /\ (proxied <=> trustProxyProtocol /\ Sniff!HasAddresses)
    BY <1>8 DEF AwaitsProtocol
  <2> QED
    BY <1>2, <1>3, <2>1, <2>2, <2>3, <2>4, <2>5, ProtocolDataInv
<1> QED
  BY <1>3, <1>7, <1>8 DEF SniffInv, HandedOn, HeaderRefused

\* SniffInv is an invariant.
THEOREM SniffInvariant == ConnectionSpec => []SniffInv
<1>1. ConnectionInit => SniffInv
  BY SniffInitInv DEF ConnectionInit
<1>2. ASSUME SniffInv, [ConnectionNext]_connectionVars
      PROVE  SniffInv'
  <2>1. ASSUME UNCHANGED sniffVars PROVE SniffInv'
    <3>1. UNCHANGED <<header, payload, trustProxyProtocol, sniffed, phase, bufferedData, proxied, handler, given>>
      BY <2>1 DEF sniffVars
    <3> QED
      BY <1>2, <3>1 DEF SniffInv, AwaitsHeader, AwaitsProtocol, HandedOn, HeaderRefused, Sniff!Sent,
                        Sniff!Ends, Sniff!Stripped, Sniff!HasAddresses, MayBecomeHeader
  <2>2. CASE InSniff
    BY <1>2, <2>2, SniffNextInv DEF InSniff
  <2>3. CASE InRaw \/ InFrames \/ UNCHANGED connectionVars
    BY <2>1, <2>3 DEF InRaw, InFrames, connectionVars
  <2> QED
    BY <1>2, <2>2, <2>3 DEF ConnectionNext
<1> QED
  BY <1>1, <1>2, PTL DEF ConnectionSpec

\* However the bytes are cut into segments, a handler is given all that came in behind the header,
\* and nothing else, and knows the addresses of the header if it has some.
THEOREM NothingLost == ConnectionSpec => []NothingLostOrAdded
<1>1. SniffInv => NothingLostOrAdded
  BY DEF SniffInv, AwaitsHeader, AwaitsProtocol, HandedOn, HeaderRefused,
         NothingLostOrAdded, Sniff!NothingLostOrAdded
<1> QED
  BY <1>1, SniffInvariant, PTL

\* Nobody waits for more once the header and something behind it have come in, unless that may
\* yet turn out to be a header.
THEOREM InTime == ConnectionSpec => []DecidedInTime
<1>1. ASSUME SniffInv PROVE DecidedInTime
  <2>1. /\ header \in Seq(STRING) /\ sniffed \in 0..Len(Sniff!Sent) /\ Len(Sniff!Sent) \in Nat
        /\ Len(header) \in Nat /\ Sniff!Stripped \in Nat /\ Sniff!Stripped <= Len(header)
    <3>1. header \in Seq(STRING) /\ payload \in Seq(STRING)
      BY <1>1, SentForms DEF SniffInv
    <3>2. Sniff!Sent \in Seq(STRING)
      BY <3>1, SniffSent, Zenon
    <3> QED
      BY <1>1, <3>1, <3>2, StrippedIs DEF SniffInv
  <2>2. CASE AwaitsHeader
    BY <2>1, <2>2 DEF AwaitsHeader, MayBecomeHeader, DecidedInTime, Sniff!DecidedInTime
  <2>3. CASE AwaitsProtocol
    BY <2>1, <2>3 DEF AwaitsProtocol, DecidedInTime, Sniff!DecidedInTime
  <2>4. CASE HandedOn \/ HeaderRefused
    BY <2>4 DEF HandedOn, HeaderRefused, DecidedInTime, Sniff!DecidedInTime
  <2> QED
    BY <1>1, <2>2, <2>3, <2>4 DEF SniffInv
<1> QED
  BY <1>1, SniffInvariant, PTL

\* The handler is the one the whole of the first bytes would get, unless no more had come in than
\* what the HTTP/2 preface or a method also begins with.
THEOREM WholeHandled == ConnectionSpec => []HandlerOfWhole
<1>1. ASSUME SniffInv, phase = "done"
      PROVE  \/ handler = Sniff!HandlerFor(Sniff!From(Sniff!Sent, Sniff!Stripped + 1))
             \/ handler = "http2" /\ Sniff!IsStrictPrefix(given, Sniff!Preface)
             \/ /\ handler = "http"
                /\ Sniff!HandlerFor(Sniff!From(Sniff!Sent, Sniff!Stripped + 1)) = "destroyed"
                /\ \E method \in Sniff!MethodPrefixes : Sniff!IsStrictPrefix(given, method)
  <2>1. /\ header \in Headers /\ payload \in Payloads /\ trustProxyProtocol \in BOOLEAN
        /\ sniffed \in 0..Len(Sniff!Sent)
    BY <1>1 DEF SniffInv
  <2>2. PICK w \in Seq(STRING) : w = Sniff!Sent
    BY <2>1, SentForms, SniffSent, Zenon
  <2>3. PICK s \in Nat : s = Sniff!Stripped
    BY <2>1, SentForms, StrippedIs, Zenon
  <2>4. Len(w) \in Nat
    OBVIOUS
  <2>5. CASE HandedOn
    <3>1. PICK r \in Nat : r = sniffed /\ r <= Len(w) /\ r > s
      BY <2>1, <2>2, <2>3, <2>4, <2>5 DEF HandedOn
    <3>2. PICK b : b = SubSeq(w, s + 1, Len(w))
      OBVIOUS
    <3>3. PICK d : d = SubSeq(w, s + 1, r)
      OBVIOUS
    <3>4. given = d /\ handler = Sniff!HandlerFor(d) /\ b = Sniff!From(Sniff!Sent, Sniff!Stripped + 1)
      BY <2>2, <2>3, <2>5, <3>1, <3>2, <3>3, Zenon DEF HandedOn, Sniff!From
    <3>5. b \in Seq(STRING) /\ Len(b) = Len(w) - s /\ \A i \in 1..(Len(w) - s) : b[i] = w[s + i]
      BY <2>4, <3>1, <3>2
    <3>6. d \in Seq(STRING) /\ Len(d) = r - s /\ \A i \in 1..(r - s) : d[i] = w[s + i]
      BY <2>4, <3>1, <3>3
    <3>7. Begins(d, b) /\ Len(d) >= 1
      BY <2>4, <3>1, <3>5, <3>6 DEF Begins
    <3>8. Undecided(d, b)
      BY <3>5, <3>6, <3>7, HandlerOfBeginning
    <3> QED
      BY <3>4, <3>8, Zenon DEF Undecided
  <2>6. CASE HeaderRefused
    <3>1. s = 0
      BY <2>1, <2>3, <2>6, SentForms, StrippedIs, Zenon DEF HeaderRefused
    <3>2. Sniff!From(Sniff!Sent, Sniff!Stripped + 1) = w
      <4>1. SubSeq(w, 1, Len(w)) = w
        BY SubSeqFull
      <4>2. s + 1 = 1
        BY <3>1
      <4> QED
        BY <2>2, <2>3, <4>1, <4>2, Zenon DEF Sniff!From
    <3>3. Len(w) >= 1 /\ w[1] = "cr"
      <4>1. PICK h \in Seq(STRING) : h = header
        BY <2>1, SentForms, Zenon
      <4>2. Begins(h, w)
        BY <2>1, <2>2, <4>1, SentForms, SniffSent, Zenon
      <4>3. h # <<>> /\ h[1] = "cr"
        BY <2>6, <4>1 DEF HeaderRefused
      <4>4. Len(h) >= 1 /\ Len(h) \in Nat
        BY <4>3, EmptySeq
      <4> QED
        BY <2>4, <4>2, <4>3, <4>4 DEF Begins
    <3>4. Sniff!HandlerFor(w) = "destroyed"
      BY <3>3, BinaryIsNobodys
    <3> QED
      BY <2>6, <3>2, <3>4, Zenon DEF HeaderRefused
  <2> QED
    BY <1>1, <2>5, <2>6 DEF SniffInv, AwaitsHeader, AwaitsProtocol
<1>2. SniffInv => HandlerOfWhole
  BY <1>1, Zenon DEF HandlerOfWhole, Sniff!HandlerOfWhole
<1> QED
  BY <1>2, SniffInvariant, PTL

\* Every state has the shape ConnectionTypeOK.
THEOREM TypeCorrect == ConnectionSpec => []ConnectionTypeOK
<1>1. ConnectionSpec => [](layer \in {"sniff", "raw", "frames"})
  <2>1. ConnectionInit => layer \in {"sniff", "raw", "frames"}
    BY DEF ConnectionInit
  <2>2. ASSUME layer \in {"sniff", "raw", "frames"}, [ConnectionNext]_connectionVars
        PROVE  (layer \in {"sniff", "raw", "frames"})'
    BY <2>2 DEF ConnectionNext, InSniff, InRaw, InFrames, connectionVars
  <2> QED
    BY <2>1, <2>2, PTL DEF ConnectionSpec
<1>2. ASSUME SniffInv PROVE Sniff!TypeOK
  <2>1. /\ header \in Headers /\ payload \in Payloads /\ trustProxyProtocol \in BOOLEAN
        /\ sniffed \in 0..Len(Sniff!Sent) /\ proxied \in BOOLEAN
    BY <1>2 DEF SniffInv
  <2>2. PICK w \in Seq(STRING) : w = Sniff!Sent
    BY <2>1, SentForms, SniffSent, Zenon
  <2>3. Sniff!IsPrefix(bufferedData, Sniff!Sent)
    <3>1. CASE bufferedData = <<>>
      <4>1. PICK d \in Seq(STRING) : d = <<>>
        BY EmptySeq, Zenon
      <4>2. Len(d) = 0 /\ Len(w) \in Nat
        BY <4>1
      <4>3. SameTo(d, w, Len(d)) /\ Len(d) <= Len(w)
        BY <4>2 DEF SameTo
      <4>4. Sniff!IsPrefix(d, w)
        BY <4>3, PrefixIs
      <4> QED
        BY <2>2, <3>1, <4>1, <4>4, Zenon
    <3>2. CASE bufferedData = SubSeq(Sniff!Sent, 1, sniffed)
      <4>1. sniffed \in Nat /\ sniffed <= Len(w)
        <5>1. Len(w) \in Nat
          OBVIOUS
        <5> QED
          BY <2>1, <2>2, <5>1
      <4>2. PICK d \in Seq(STRING) : d = SubSeq(w, 1, sniffed)
        BY <4>1, ReadIs, Zenon
      <4>3. Begins(d, w)
        BY <4>1, <4>2, ReadIs, Zenon
      <4>4. Sniff!IsPrefix(d, w)
        BY <4>3, PrefixIs DEF Begins, SameTo
      <4> QED
        BY <2>2, <3>2, <4>2, <4>4, Zenon
    <3> QED
      BY <1>2, <3>1, <3>2 DEF SniffInv, AwaitsHeader, AwaitsProtocol, HandedOn, HeaderRefused
  <2>4. Sniff!HandlerFor(given) \in {"tls", "http", "http2", "destroyed"}
    BY DEF Sniff!HandlerFor
  <2> QED
    BY <1>2, <2>1, <2>3, <2>4
       DEF SniffInv, AwaitsHeader, AwaitsProtocol, HandedOn, HeaderRefused, Sniff!TypeOK
<1>3. RawInv => Raw!TypeOK
  BY DEF RawInv
<1>4. FramesInv => TypeOK
  BY DEF FramesInv
<1> QED
  BY <1>1, <1>2, <1>3, <1>4, SniffInvariant, RawInvariant, FramesInvariant, PTL DEF ConnectionTypeOK

=============================================================================
