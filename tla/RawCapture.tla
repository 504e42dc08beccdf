------------------------------ MODULE RawCapture ------------------------------
(***************************************************************************)
(* The raw data of one HTTP/1 connection: process-connection.ts collects   *)
(* every byte that comes in, http-handler.ts counts the requests in hand   *)
(* and starts the collection anew after each, and the echo endpoint        *)
(* (endpoints/http/echo.ts) answers with what has been collected.          *)
(* The parser of Node.js is external: it reports a request when its head   *)
(* has come in, also while others are in hand.                             *)
(*                                                                         *)
(* A byte stands for its position in what the client sends.  Promises and  *)
(* process.nextTick are settled before the next segment is looked at.      *)
(***************************************************************************)
EXTENDS Naturals, Sequences, FiniteSets

CONSTANTS
    Wires,        \* what the client may send
    Undefined     \* receivedData while nothing is collected

Kinds == {"echo", "other", "early"}

\* A request: where it is headed, and the bytes of its head and of its body.
Request == [kind: Kinds, head: Nat \ {0}, body: Nat]

\* What is assumed of the constants (Connection).
RequestsOnWire == \A w \in Wires : w \in Seq(Request)
UndefinedIsNoData == Undefined \notin Seq(Nat)

VARIABLES
    wire,              \* the requests the client sends
    patient,           \* it sends a request only when the one before it has been answered
    received,          \* how many bytes have come in
    receivedData,      \* those that have been collected
    requestsInBatch,
    pipelining,
    handler,           \* how far the handler of each request has got
    echoed,            \* the data in the answer of an echo, or Undefined if there is none
    overlapped         \* ghost: requests that were in hand, unanswered, along with another

vars == <<wire, patient, received, receivedData, requestsInBatch, pipelining, handler,
          echoed, overlapped>>

Requests == DOMAIN wire

InHand == {r \in Requests : handler[r] \notin {"none", "done"}}

\* The shape of the state: the counter counts the requests in hand.
TypeOK ==
    /\ wire \in Wires
    /\ patient \in BOOLEAN
    /\ received \in Nat
    /\ receivedData \in Seq(Nat) \cup {Undefined}
    /\ requestsInBatch = Cardinality(InHand)
    /\ pipelining \in BOOLEAN
    /\ pipelining => InHand # {}
    /\ handler \in [Requests -> {"none", "running", "deferring", "buffering", "returning", "done"}]
    /\ echoed \in [Requests -> Seq(Nat) \cup {Undefined}]
    /\ overlapped \subseteq Requests

\* The last byte of a request, and of its head.
Size(r) == wire[r].head + wire[r].body
EndOf[r \in 0..Len(wire)] == IF r = 0 THEN 0 ELSE EndOf[r - 1] + Size(r)
HeadEnd(r) == EndOf[r - 1] + wire[r].head

Init ==
    /\ wire \in Wires
    /\ patient \in BOOLEAN
    /\ received = 0
    /\ receivedData = <<>>
    /\ requestsInBatch = 0
    /\ pipelining = FALSE
    /\ handler = [r \in Requests |-> "none"]
    /\ echoed = [r \in Requests |-> Undefined]
    /\ overlapped = {}

-----------------------------------------------------------------------------
\* Nothing is left to do before the next event.
Settled ==
    \A r \in Requests :
        /\ handler[r] \notin {"deferring", "returning"}
        /\ handler[r] = "buffering" => received < EndOf[r]

\* A patient client completes a request, and sends the next after it has been answered.
ClientSends(n) ==
    /\ received + n <= EndOf[Len(wire)]
    /\ patient => \A r \in Requests : EndOf[r - 1] < received + n =>
                      \A q \in 1..(r - 1) : handler[q] = "done" /\ EndOf[q] <= received

\* What a request is first: an echo may stand at the end of a chain of endpoints; one that is
\* answered before an endpoint is chosen (the docs page, a redirect, a preflight request,
\* an unknown path) leaves the capture on.
FirstStep(r) ==
    CASE wire[r].kind = "echo" -> {"deferring", "running"}
      [] wire[r].kind = "other" -> {"running"}
      [] wire[r].kind = "early" -> {"returning"}

\* The segment is collected, unless this stops the capture.
Collect(n, new) ==
    receivedData' = IF receivedData = Undefined \/ \E r \in new : wire[r].kind = "other"
                    THEN Undefined
                    ELSE receivedData \o [p \in 1..n |-> received + p]

\* A segment comes in, with the heads of some requests.
Receive(n) ==
    /\ Settled /\ ClientSends(n)
    /\ received' = received + n
    /\ LET new == {r \in Requests : received < HeadEnd(r) /\ HeadEnd(r) <= received + n}
           undecided == {r \in InHand : handler[r] # "buffering"}
       IN  /\ Collect(n, new)
           /\ requestsInBatch' = requestsInBatch + Cardinality(new)
           /\ pipelining' = (pipelining \/ (new # {} /\ requestsInBatch' > 1))
           /\ \E first \in [new -> {"deferring", "running", "returning"}] :
                 /\ \A r \in new : first[r] \in FirstStep(r)
                 /\ handler' = [r \in Requests |-> IF r \in new THEN first[r] ELSE handler[r]]
           /\ overlapped' = overlapped \cup
                  IF new # {} /\ requestsInBatch' > 1 THEN new \cup undecided ELSE {}
    /\ UNCHANGED <<wire, patient, echoed>>

Move(r, to) == handler' = [handler EXCEPT ![r] = to]

\* The endpoints before the echo have done their part.
StartEcho(r) ==
    /\ Settled
    /\ wire[r].kind = "echo" /\ handler[r] = "running"
    /\ Move(r, "deferring")
    /\ UNCHANGED <<wire, patient, received, receivedData, requestsInBatch, pipelining, echoed,
                   overlapped>>

\* After process.nextTick: pipelined requests are refused, others wait for their body.
CheckPipelining(r) ==
    /\ handler[r] = "deferring"
    /\ Move(r, IF pipelining THEN "returning" ELSE "buffering")
    /\ UNCHANGED <<wire, patient, received, receivedData, requestsInBatch, pipelining, echoed,
                   overlapped>>

Ticking == \E r \in Requests : handler[r] = "deferring"

\* The body has been read: the answer is what has been collected.
Answer(r) ==
    /\ handler[r] = "buffering" /\ EndOf[r] <= received /\ ~Ticking
    /\ echoed' = [echoed EXCEPT ![r] = IF receivedData = Undefined THEN <<>> ELSE receivedData]
    /\ Move(r, "returning")
    /\ UNCHANGED <<wire, patient, received, receivedData, requestsInBatch, pipelining, overlapped>>

\* Mutant: pipelining is forgotten with the first of the requests.
MutantReset == /\ receivedData' = <<>>
               /\ requestsInBatch' = requestsInBatch - 1
               /\ pipelining' = FALSE

\* Mutant: a capture that was stopped is not started again.
MutantResetKeeps == /\ UNCHANGED receivedData
                    /\ requestsInBatch' = requestsInBatch - 1
                    /\ pipelining' = (pipelining /\ requestsInBatch' # 0)

\* The finally block.
Reset == /\ receivedData' = <<>>
         /\ requestsInBatch' = requestsInBatch - 1
         /\ pipelining' = (pipelining /\ requestsInBatch' # 0)

\* The handler returns, or throws: at once, or whenever other endpoints have done.
Return(r) ==
    /\ \/ handler[r] = "returning" /\ ~Ticking
       \/ handler[r] = "running" /\ Settled
    /\ Reset
    /\ Move(r, "done")
    /\ UNCHANGED <<wire, patient, received, echoed, overlapped>>

Next ==
    \/ \E n \in 1..EndOf[Len(wire)] : Receive(n)
    \/ \E r \in Requests : StartEcho(r) \/ CheckPipelining(r) \/ Answer(r) \/ Return(r)

Spec == Init /\ [][Next]_vars

-----------------------------------------------------------------------------
OwnBytes(r) == [p \in 1..(EndOf[r] - EndOf[r - 1]) |-> EndOf[r - 1] + p]

\* An echo that another request overlapped before it was decided is refused, whatever
\* finishes in the meantime (http-handler.ts:268-271, 292-295, echo.ts:146-152).
PipelinedRefused == \A r \in overlapped : echoed[r] = Undefined

\* The answer for a patient client ends with the request itself, however it was cut into
\* segments and whatever other endpoints did with the capture before
\* (http-handler.ts:27, 291, process-connection.ts:348-353).
OwnBytesEchoed ==
    patient => \A r \in Requests : echoed[r] # Undefined =>
        LET own == OwnBytes(r) all == echoed[r] IN
        Len(own) <= Len(all) /\ SubSeq(all, Len(all) - Len(own) + 1, Len(all)) = own

(***************************************************************************)
(* What the documentation of an endpoint says, and the code does not do.   *)
(***************************************************************************)

\* echo.ts:169: "Echoes back the raw HTTP request data": for a patient client, nothing else.
RequestEchoed ==
    patient => \A r \in Requests : echoed[r] # Undefined => echoed[r] = OwnBytes(r)

=============================================================================
