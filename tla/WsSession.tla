------------------------------- MODULE WsSession -------------------------------
(***************************************************************************)
(* A WebSocket session, from the upgrade request on (ws-handler.ts,        *)
(* endpoints/ws/*.ts).  The ws library is external: it keeps readyState,   *)
(* answers close frames, drops a message nobody listens for, and closes    *)
(* the socket some time after it has sent a close frame.  Its close()      *)
(* throws if it is given a code that may not be sent, but is then closing  *)
(* already.                                                                *)
(***************************************************************************)
EXTENDS EndpointChain

CONSTANTS
    WsPaths,        \* what a client may ask for
    MaxMessages,    \* bound: messages of the client
    MaxRepeats      \* bound: messages of intervals

WsPassing ==
    {"delay", "message", "repeat",
     "garbled",          \* a message that is no URI component, which its handler throws for
     "subprotocol",      \* or no-subprotocol
     "misnamed"}         \* a subprotocol whose name is no URI component
WsEndpoints == {"echo", "close", "reset", "badclose"}     \* badclose: of a code not to be sent

ASSUME WsAsked == WsPaths \subseteq PathsOf(WsPassing, WsEndpoints)
ASSUME WsBounds == MaxMessages \in Nat /\ MaxRepeats \in Nat

VARIABLES
    wsPath,
    wsHost,          \* the host of the request
    response,        \* to the upgrade: 0, 101, an error or Uncaught
    readyState,
    wsHandler,       \* how far the chain has got
    wsBegun,         \* how many of its endpoints have begun
    listening,       \* echo has its listener
    intervals,       \* the endpoints whose interval is set
    messages,        \* how many the client has sent
    wsSent,          \* what the server has sent
    socket           \* "open", "ending" if it will close, "destroyed"

wsVars == <<wsPath, wsHost, response, readyState, wsHandler, wsBegun, listening, intervals,
            messages, wsSent, socket>>

\* What is sent: the message of an endpoint, once or again and again; an echo; a close frame.
Text(i) == <<"message", i>>
Repeated(i) == <<"repeat", i>>
Echo(m) == <<"echo", m>>
CloseFrame(code) == <<"close", code>>

\* The codes of close frames: that of the path, 1011, and that the client sent.
OwnCode == 1000
InternalError == 1011
ClientCode == 1001

\* A host can be none, or one that validateEndpointParts refuses.
Hosting == {"valid", "invalid", "none"}

\* No response: what was thrown leaves the listener of 'upgrade', and nothing catches it.
Uncaught == 1

\* The shape of the state.
WsTypeOK ==
    /\ wsPath \in WsPaths
    /\ wsHost \in Hosting
    /\ response \in {0, 101, 400, 404, 500, Uncaught}
    /\ readyState \in {"none", "open", "closing", "closed"}
    /\ wsHandler \in {"none", "running", "delaying", "failing", "returned"}
    /\ wsBegun \in 0..Len(wsPath)
    /\ listening \in BOOLEAN
    /\ intervals \subseteq DOMAIN wsPath
    /\ messages \in 0..MaxMessages
    /\ \A i \in DOMAIN wsSent : wsSent[i][1] \in {"message", "repeat", "echo", "close"}
    /\ socket \in {"open", "ending", "destroyed"}

WsInit ==
    /\ wsPath \in WsPaths
    /\ wsHost \in Hosting
    /\ response = 0
    /\ readyState = "none"
    /\ wsHandler = "none"
    /\ wsBegun = 0
    /\ listening = FALSE
    /\ intervals = {}
    /\ messages = 0
    /\ wsSent = <<>>
    /\ socket = "open"

-----------------------------------------------------------------------------
SendFrame(frame) == wsSent' = Append(wsSent, frame)

\* A handler runs until it awaits a timer before anything else happens.
WsIdle == wsHandler \notin {"running", "failing"}

(***************************************************************************)
(* handleWebSocketUpgrade.                                                 *)
(***************************************************************************)
Protocols == {i \in DOMAIN wsPath : wsPath[i] \in {"subprotocol", "misnamed"}}

UpgradeStatus ==
    IF wsHost = "none" THEN Uncaught
    ELSE IF wsHost = "invalid" THEN 400
    ELSE IF ResolveEndpointChain(wsPath) # 200 THEN ResolveEndpointChain(wsPath)
    ELSE IF \E i, j \in Protocols : i # j THEN 400
    ELSE IF \E i \in Protocols : wsPath[i] = "misnamed" THEN Uncaught
    ELSE 101

\* Refused, or the process ends and the socket with it.
RejectUpgrade ==
    /\ response = 0 /\ UpgradeStatus # 101
    /\ response' = UpgradeStatus
    /\ socket' = "destroyed"
    /\ UNCHANGED <<wsPath, wsHost, readyState, wsHandler, wsBegun, listening, intervals, messages, wsSent>>

Upgrade ==
    /\ response = 0 /\ UpgradeStatus = 101
    /\ response' = 101
    /\ readyState' = "open"
    /\ wsHandler' = "running"
    /\ UNCHANGED <<wsPath, wsHost, wsBegun, listening, intervals, messages, wsSent, socket>>

Stops == readyState # "open" \/ wsBegun = Len(wsPath)

\* The loop ends.
EndChain ==
    /\ wsHandler = "running" /\ Stops
    /\ wsHandler' = "returned"
    /\ UNCHANGED <<wsPath, wsHost, response, readyState, wsBegun, listening, intervals, messages, wsSent, socket>>

\* The next endpoint, of some kind, has begun.
Begin(kind) ==
    /\ wsHandler = "running" /\ ~Stops
    /\ wsPath[wsBegun + 1] = kind
    /\ wsBegun' = wsBegun + 1

WsDelay ==
    /\ Begin("delay")
    /\ wsHandler' = "delaying"
    /\ UNCHANGED <<wsPath, wsHost, response, readyState, listening, intervals, messages, wsSent, socket>>

AfterWsDelay ==
    /\ wsHandler = "delaying"
    /\ wsHandler' = "running"
    /\ UNCHANGED <<wsPath, wsHost, response, readyState, wsBegun, listening, intervals, messages, wsSent, socket>>

Message ==
    /\ Begin("message")
    /\ IF readyState = "open" THEN SendFrame(Text(wsBegun')) ELSE UNCHANGED wsSent
    /\ UNCHANGED <<wsPath, wsHost, response, readyState, wsHandler, listening, intervals, messages, socket>>

Garbled ==
    /\ Begin("garbled")
    /\ wsHandler' = "failing"
    /\ UNCHANGED <<wsPath, wsHost, response, readyState, listening, intervals, messages, wsSent, socket>>

Subprotocol ==
    /\ Begin("subprotocol")
    /\ UNCHANGED <<wsPath, wsHost, response, readyState, wsHandler, listening, intervals, messages, wsSent, socket>>

Repeat ==
    /\ Begin("repeat")
    /\ intervals' = intervals \cup {wsBegun'}
    /\ UNCHANGED <<wsPath, wsHost, response, readyState, wsHandler, listening, messages, wsSent, socket>>

StartListening ==
    /\ Begin("echo")
    /\ listening' = TRUE
    /\ UNCHANGED <<wsPath, wsHost, response, readyState, wsHandler, intervals, messages, wsSent, socket>>

\* What ws.close does in an open session.
Close(code) ==
    /\ readyState' = "closing"
    /\ SendFrame(CloseFrame(code))
    /\ socket' = "ending"

CloseSession ==
    /\ Begin("close")
    /\ Close(OwnCode)
    /\ UNCHANGED <<wsPath, wsHost, response, wsHandler, listening, intervals, messages>>

CloseFails ==
    /\ Begin("badclose")
    /\ readyState' = "closing"
    /\ wsHandler' = "failing"
    /\ UNCHANGED <<wsPath, wsHost, response, listening, intervals, messages, wsSent, socket>>

ResetSession ==
    /\ Begin("reset")
    /\ socket' = "destroyed"
    /\ UNCHANGED <<wsPath, wsHost, response, readyState, wsHandler, listening, intervals, messages, wsSent>>

\* Mutant: readyState is not looked at.
MutantWsCatch ==
    /\ wsHandler = "failing"
    /\ wsHandler' = "returned"
    /\ Close(InternalError)
    /\ UNCHANGED <<wsPath, wsHost, response, wsBegun, listening, intervals, messages>>

WsCatch ==
    /\ wsHandler = "failing"
    /\ wsHandler' = "returned"
    /\ IF readyState = "open" THEN Close(InternalError)
       ELSE UNCHANGED <<readyState, wsSent, socket>>
    /\ UNCHANGED <<wsPath, wsHost, response, wsBegun, listening, intervals, messages>>

Chain ==
    \/ EndChain \/ WsDelay \/ AfterWsDelay \/ Message \/ Garbled \/ Subprotocol \/ Repeat
    \/ StartListening \/ CloseSession \/ CloseFails \/ ResetSession \/ WsCatch

(***************************************************************************)
(* Events: intervals, the client, the socket.                              *)
(***************************************************************************)

\* Mutant: an interval goes on when the session has closed.
MutantTick(i) ==
    /\ WsIdle /\ i \in intervals
    /\ UNCHANGED intervals
    /\ IF readyState = "open" THEN Len(wsSent) < MaxRepeats /\ SendFrame(Repeated(i)) ELSE UNCHANGED wsSent
    /\ UNCHANGED <<wsPath, wsHost, response, readyState, wsHandler, wsBegun, listening, messages, socket>>

Tick(i) ==
    /\ WsIdle /\ i \in intervals
    /\ \/ /\ readyState = "open" /\ Len(wsSent) < MaxRepeats
          /\ SendFrame(Repeated(i))
          /\ UNCHANGED intervals
       \/ /\ readyState # "open"
          /\ intervals' = intervals \ {i}
          /\ UNCHANGED wsSent
    /\ UNCHANGED <<wsPath, wsHost, response, readyState, wsHandler, wsBegun, listening, messages, socket>>

\* Messages are read also while the session is closing.
ReceiveMessage ==
    /\ WsIdle /\ readyState \in {"open", "closing"} /\ socket # "destroyed"
    /\ messages < MaxMessages
    /\ messages' = messages + 1
    /\ IF listening /\ readyState = "open" THEN SendFrame(Echo(messages')) ELSE UNCHANGED wsSent
    /\ UNCHANGED <<wsPath, wsHost, response, readyState, wsHandler, wsBegun, listening, intervals, socket>>

\* The client sends a close frame, which is answered.
ReceiveClose ==
    /\ WsIdle /\ readyState = "open" /\ socket = "open"
    /\ Close(ClientCode)
    /\ UNCHANGED <<wsPath, wsHost, response, wsHandler, wsBegun, listening, intervals, messages>>

\* The socket closes after a close frame, or because the client has gone.
SocketCloses ==
    /\ WsIdle /\ response = 101 /\ socket # "destroyed"
    /\ socket' = "destroyed"
    /\ UNCHANGED <<wsPath, wsHost, response, readyState, wsHandler, wsBegun, listening, intervals, messages, wsSent>>

\* The session's 'close' event.
EmitClose ==
    /\ WsIdle /\ response = 101 /\ socket = "destroyed" /\ readyState # "closed"
    /\ readyState' = "closed"
    /\ intervals' = {}
    /\ UNCHANGED <<wsPath, wsHost, response, wsHandler, wsBegun, listening, messages, wsSent, socket>>

WsNext ==
    \/ RejectUpgrade \/ Upgrade \/ Chain
    \/ \E i \in DOMAIN wsPath : Tick(i)
    \/ ReceiveMessage \/ ReceiveClose \/ SocketCloses \/ EmitClose

-----------------------------------------------------------------------------
SentOf(kinds) == SelectSeq(wsSent, LAMBDA frame : frame[1] \in kinds)

\* When a session is no longer open, for whatever reason and wherever its chain is, no endpoint
\* begins and nothing is sent (ws-handler.ts:105, 113, endpoints/ws/repeat.ts:44, echo.ts:8).
QuietAfterClose ==
    [][readyState # "open" /\ response = 101 =>
          wsBegun' = wsBegun /\ wsSent' = wsSent /\ intervals' \subseteq intervals]_wsVars

\* An interval does not outlive its session, not even one that stays half closed
\* (endpoints/ws/repeat.ts:43-51).
IntervalsEnd == readyState \in {"closing", "closed"} ~> intervals = {}

(***************************************************************************)
(* What the documentation of an endpoint says, and the code does not do.   *)
(***************************************************************************)

\* close.ts:26: "Closes the WebSocket connection with the specified close code (1000-4999)".
ClosedAsSpecified ==
    wsHandler = "returned" /\ wsBegun > 0 /\ wsPath[wsBegun] \in {"close", "badclose"} =>
        SentOf({"close"}) # <<>>

=============================================================================
