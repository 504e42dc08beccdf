----------------------------- MODULE FrameCapture -----------------------------
(***************************************************************************)
(* The frames of one HTTP/2 connection: DataCapturingStream                *)
(* (process-connection.ts) takes them from the bytes it passes on to the   *)
(* http2 module, and keeps them for the echo endpoint (endpoints/http/     *)
(* echo.ts) of each stream; http-handler.ts stops this for the others.     *)
(* The http2 module is external: it sees the same bytes, and reports       *)
(* requests and their end some time after the frames that make them.       *)
(*                                                                         *)
(* A byte stands for its position in what the client sends; a frame for    *)
(* its position among the frames.                                          *)
(***************************************************************************)
EXTENDS Naturals, Sequences

CONSTANTS
    Stream,        \* the numbers of the client's streams
    Wires,         \* what the client may send after the preface
    HeaderSize,    \* FRAME_HEADER_SIZE
    PrefaceSize    \* length of HTTP2_PREFACE

Connection == 0

\* A frame: the stream it is on, whether it ends or resets that stream, and its bytes.
Frame == [on: Stream \cup {Connection}, ends: BOOLEAN, resets: BOOLEAN, size: Nat]

ASSUME StreamNumbers == Stream \subseteq Nat \ {Connection}
ASSUME Sizes == HeaderSize \in Nat \ {0} /\ PrefaceSize \in Nat \ {0}
ASSUME WholeFrames == \A w \in Wires :
    w \in Seq(Frame) /\ \A i \in DOMAIN w : w[i].size >= HeaderSize

VARIABLES
    wire,           \* the frames the client sends
    received,       \* how many bytes have come in
    partialData,    \* bytes kept for when the rest of their frame comes in
    globalFrames,
    streams,        \* the StreamState of each stream; one that has none is as if it were new
    due,            \* for each stream, what setImmediate will hand to its callback
    request,        \* what has become of the request on each stream
    written,        \* the frames in the response of each stream
    closed          \* the connection has closed

vars == <<wire, received, partialData, globalFrames, streams, due, request, written, closed>>

NewState == [callback |-> FALSE, buffer |-> <<>>, stopped |-> FALSE]

\* The shape of the state: a stream has a callback just while its echo is at work.
TypeOK ==
    /\ wire \in Wires
    /\ received \in Nat
    /\ partialData \in Seq(Nat)
    /\ globalFrames \in Seq(DOMAIN wire)
    /\ \A s \in Stream :
          /\ streams[s].buffer \in Seq(DOMAIN wire)
          /\ streams[s].callback <=> request[s] = "echoing"
          /\ streams[s].stopped => request[s] = "other"
          /\ due[s] \in Seq(DOMAIN wire)
          /\ written[s] \in Seq(DOMAIN wire)
    /\ request \in [Stream -> {"none", "dispatched", "echoing", "ended", "other", "early", "failed"}]
    /\ closed \in BOOLEAN

\* The last byte of the first n frames, the preface before them.
EndOf[n \in 0..Len(wire)] == IF n = 0 THEN PrefaceSize ELSE EndOf[n - 1] + wire[n].size

\* The frames that have come in whole.
Whole == {i \in DOMAIN wire : EndOf[i] <= received}

Init ==
    /\ wire \in Wires
    /\ received = 0
    /\ partialData = <<>>
    /\ globalFrames = <<>>
    /\ streams = [s \in Stream |-> NewState]
    /\ due = [s \in Stream |-> <<>>]
    /\ request = [s \in Stream |-> "none"]
    /\ written = [s \in Stream |-> <<>>]
    /\ closed = FALSE

\* Those of the frames that are in S, in their order.
Those(frames, S) ==
    LET first[n \in 0..Len(frames)] ==
            IF n = 0 THEN <<>>
            ELSE IF frames[n] \in S THEN Append(first[n - 1], frames[n]) ELSE first[n - 1]
    IN  first[Len(frames)]

On(frames, s) == Those(frames, {i \in DOMAIN wire : wire[i].on = s})

-----------------------------------------------------------------------------
(***************************************************************************)
(* processIncomingData                                                     *)
(***************************************************************************)

\* Where the frames begin: behind the preface, if this is the first to come in.
FirstOffset(data) ==
    IF /\ globalFrames = <<>>
       /\ Len(data) >= PrefaceSize
       /\ \A p \in 1..PrefaceSize : data[p] = p
    THEN PrefaceSize ELSE 0

\* Mutant: a frame that has its header counts as whole.
MutantReadable(data, offset, i) ==
    /\ offset + HeaderSize <= Len(data)
    /\ data[offset + 1] = EndOf[i - 1] + 1

\* The next whole frame, if any; the preface, read as a header, announces a frame of 5 MB.
Readable(data, offset, i) ==
    /\ offset + HeaderSize <= Len(data)
    /\ data[offset + 1] = EndOf[i - 1] + 1
    /\ offset + wire[i].size <= Len(data)

\* The frames in data, and where the first that is not whole begins.
Parse(data) ==
    LET from[offset \in Nat] ==
            IF \E i \in DOMAIN wire : Readable(data, offset, i)
            THEN LET i == CHOOSE i \in DOMAIN wire : Readable(data, offset, i)
                     rest == from[offset + wire[i].size]
                 IN  [frames |-> <<i>> \o rest.frames, end |-> rest.end]
            ELSE [frames |-> <<>>, end |-> offset]
    IN  from[FirstOffset(data)]

\* routeFrame, for each of the frames: those of the connection go to every callback.
RouteFrames(frames) ==
    /\ globalFrames' = globalFrames \o On(frames, Connection)
    /\ due' = [s \in Stream |->
                  IF streams[s].callback
                  THEN due[s] \o Those(frames, {i \in DOMAIN wire : wire[i].on \in {s, Connection}})
                  ELSE due[s]]
    /\ streams' = [s \in Stream |->
                      LET state == streams[s] own == On(frames, s) IN
                      IF own = <<>> \/ state.callback \/ state.stopped THEN state
                      ELSE [state EXCEPT !.buffer = @ \o own]]

\* A segment of n bytes comes in; the first one is initialData.
Receive(n) ==
    /\ ~closed /\ received + n <= EndOf[Len(wire)]
    /\ LET data == partialData \o [p \in 1..n |-> received + p]
           parsed == Parse(data)
       IN  /\ RouteFrames(parsed.frames)
           /\ partialData' = SubSeq(data, parsed.end + 1, Len(data))
    /\ received' = received + n
    /\ UNCHANGED <<wire, request, written, closed>>

Close ==
    /\ ~closed /\ closed' = TRUE
    /\ UNCHANGED <<wire, received, partialData, globalFrames, streams, due, request, written>>

-----------------------------------------------------------------------------
(***************************************************************************)
(* Requests                                                                *)
(***************************************************************************)
Move(s, to) == request' = [request EXCEPT ![s] = to]

Requested(s) == request[s] = "none" /\ \E i \in Whole : wire[i].on = s

\* The http2 module may have given the stream up.
Gone(s) == closed \/ \E i \in Whole : wire[i].on = s /\ wire[i].resets

\* Mutant: frames that come in later are buffered again.
MutantStopCapturingStream(s) == streams' = [streams EXCEPT ![s] = NewState]

StopCapturingStream(s) == streams' = [streams EXCEPT ![s] = [NewState EXCEPT !.stopped = TRUE]]

\* The endpoint is the echo, perhaps at the end of a chain of others.
DispatchEcho(s) ==
    /\ Requested(s)
    /\ Move(s, "dispatched")
    /\ UNCHANGED <<wire, received, partialData, globalFrames, streams, due, written, closed>>

\* It is another; a stream that was given up has no session to find the capture by.
DispatchOther(s) ==
    /\ Requested(s)
    /\ Move(s, "other")
    /\ StopCapturingStream(s) \/ (Gone(s) /\ UNCHANGED streams)
    /\ UNCHANGED <<wire, received, partialData, globalFrames, due, written, closed>>

\* The request is answered before an endpoint is chosen: the docs page, a redirect,
\* a preflight request, an unknown path.
AnswerEarly(s) ==
    /\ Requested(s)
    /\ Move(s, "early")
    /\ UNCHANGED <<wire, received, partialData, globalFrames, streams, due, written, closed>>

AddStreamCallback(s) ==
    streams' = [streams EXCEPT ![s] = [NewState EXCEPT !.callback = TRUE]]

\* The echo writes what has come in so far, the frames of the connection first.
StartEcho(s) ==
    /\ request[s] = "dispatched"
    /\ AddStreamCallback(s)
    /\ written' = [written EXCEPT ![s] = globalFrames \o streams[s].buffer]
    /\ Move(s, "echoing")
    /\ UNCHANGED <<wire, received, partialData, globalFrames, due, closed>>

\* The stream has been given up: no capture is found, and the 500 cannot be sent either.
EchoTooLate(s) ==
    /\ request[s] = "dispatched" /\ Gone(s)
    /\ Move(s, "failed")
    /\ UNCHANGED <<wire, received, partialData, globalFrames, streams, due, written, closed>>

\* The callback of setImmediate: nothing can be written once the response has ended.
WriteDue(s) ==
    /\ due[s] # <<>>
    /\ due' = [due EXCEPT ![s] = Tail(@)]
    /\ written' = IF request[s] = "echoing" THEN [written EXCEPT ![s] = Append(@, Head(due[s]))]
                  ELSE written
    /\ UNCHANGED <<wire, received, partialData, globalFrames, streams, request, closed>>

\* Mutant: the callback stays in place.
MutantRemoveStreamCallback(s) == UNCHANGED streams

RemoveStreamCallback(s) == streams' = [streams EXCEPT ![s] = NewState]

\* 'end' or 'error' of the request.
EndEcho(s) ==
    /\ request[s] = "echoing"
    /\ Gone(s) \/ \E i \in Whole : wire[i].on = s /\ wire[i].ends
    /\ RemoveStreamCallback(s)
    /\ Move(s, "ended")
    /\ UNCHANGED <<wire, received, partialData, globalFrames, due, written, closed>>

Next ==
    \/ \E n \in 1..EndOf[Len(wire)] : Receive(n)
    \/ \E s \in Stream :
          \/ DispatchEcho(s) \/ DispatchOther(s) \/ AnswerEarly(s)
          \/ StartEcho(s) \/ EchoTooLate(s) \/ WriteDue(s) \/ EndEcho(s)
    \/ Close

Spec == Init /\ [][Next]_vars

-----------------------------------------------------------------------------
\* The frames on s that have come in whole, in their order.
Sent(s) == Those([i \in 1..Len(wire) |-> i], {i \in Whole : wire[i].on = s})

\* However the bytes are cut into segments, and whenever the echo of a stream starts: until it
\* ends, each frame of the stream is in its response, about to be written or buffered, once, and
\* in the order sent; so is each frame of the connection (process-connection.ts:75-165).
EachFrameOnceInOrder ==
    \A s \in Stream :
        /\ request[s] \in {"none", "dispatched", "early", "echoing"} =>
              On(written[s], s) \o On(due[s], s) \o streams[s].buffer = Sent(s)
        /\ request[s] = "echoing" =>
              On(written[s], Connection) \o On(due[s], Connection) = Sent(Connection)

\* What is not echoed is not kept: the capture of a stream that has gone to another endpoint
\* holds nothing, whatever comes in after (http-handler.ts:246-248).
OthersHoldNothing ==
    \A s \in Stream : request[s] = "other" /\ ~Gone(s) => streams[s].buffer = <<>>

(***************************************************************************)
(* What the documentation of an endpoint says, and the code does not do.   *)
(***************************************************************************)

\* echo.ts:169: "Echoes back the raw HTTP request data.  For HTTP/2, returns parsed frame data
\* as JSON lines": of a request that was sent to its end, all of it.
WholeRequestEchoed ==
    \A s \in Stream : request[s] = "ended" /\ ~Gone(s) =>
        \A i \in Whole : wire[i].on = s /\ wire[i].ends =>
            \A j \in 1..i : wire[j].on = s => \E k \in DOMAIN written[s] : written[s][k] = j

=============================================================================
