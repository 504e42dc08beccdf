-------------------------------- MODULE Requests -------------------------------
(***************************************************************************)
(* A connection from the handshake on: a client asks for a host, follows   *)
(* where it is sent, and is served or refused (HostRouting); or there is a *)
(* connection, and the handlers of createHttp1Handler and createHttp2-     *)
(* Handler run the endpoints of its requests (HttpDispatch) or, if the     *)
(* HTTP/1 server reports an upgrade, of its WebSocket session (WsSession). *)
(* Neither of the parts has state that another part looks at but what it   *)
(* is given at first, so that each is looked at by itself.                 *)
(***************************************************************************)
EXTENDS HostRouting, HttpDispatch, WsSession

VARIABLES event      \* "host", "request" or "upgrade"

vars == <<event, routeVars, httpVars, wsVars>>

\* The shape of the state.
TypeOK ==
    /\ event \in {"host", "request", "upgrade"}
    /\ RouteTypeOK
    /\ HttpTypeOK
    /\ WsTypeOK

\* What is asked for in an event that does not happen does not matter.
OneOf(S) == CHOOSE x \in S : TRUE
NoHost ==
    /\ usingPublicCA = TRUE /\ offered = {"h2"} /\ first = <<>>
    /\ url = [protocol |-> "http", host |-> <<>>]
NoRequest == version = 1 /\ asked = [r \in Request |-> OneOf(HttpPaths)]
NoUpgrade == wsHost = "invalid" /\ wsPath = OneOf(WsPaths)

OnHost == event = "host" /\ RouteNext /\ UNCHANGED <<event, httpVars, wsVars>>
OnRequest == event = "request" /\ HttpNext /\ UNCHANGED <<event, routeVars, wsVars>>
OnUpgrade == event = "upgrade" /\ WsNext /\ UNCHANGED <<event, routeVars, httpVars>>

Init ==
    \/ event = "host" /\ NoRequest /\ NoUpgrade /\ RouteInit /\ HttpInit /\ WsInit
    \/ event = "request" /\ NoHost /\ NoUpgrade /\ RouteInit /\ HttpInit /\ WsInit
    \/ event = "upgrade" /\ NoHost /\ NoRequest /\ RouteInit /\ HttpInit /\ WsInit

Next == OnHost \/ OnRequest \/ OnUpgrade

Spec == Init /\ [][Next]_vars

\* Node.js runs what is due, fires timers, and closes a socket after a close frame.
Fairness ==
    /\ \A r \in Request :
          WF_vars(event = "request" /\ HandlerStep(r) /\ UNCHANGED <<event, routeVars, wsVars>>)
    /\ WF_vars(event = "upgrade" /\ (Chain \/ EmitClose) /\ UNCHANGED <<event, routeVars, httpVars>>)
    /\ \A i \in 1..(MaxChainDepth + 1) :
          WF_vars(event = "upgrade" /\ Tick(i) /\ UNCHANGED <<event, routeVars, httpVars>>)
    /\ WF_vars(event = "upgrade" /\ socket = "ending" /\ SocketCloses
               /\ UNCHANGED <<event, routeVars, httpVars>>)

FairSpec == Spec /\ Fairness
=============================================================================
