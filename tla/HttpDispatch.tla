----------------------------- MODULE HttpDispatch ------------------------------
(***************************************************************************)
(* The requests of one connection, from handleRequest's chain of endpoints *)
(* on (http-handler.ts; HostRouting has what comes before), with those     *)
(* endpoints that differ in what they do to the chain, the response and    *)
(* the connection.  Requests are pipelined on HTTP/1 and multiplexed on    *)
(* HTTP/2; the handlers of all of them run at once.                        *)
(*                                                                         *)
(* The http and http2 modules are external: they report requests, send     *)
(* pipelined responses in order, and fail reads of a request that has      *)
(* gone.  A handler runs until it awaits a timer or the request's body     *)
(* before anything else happens.                                           *)
(***************************************************************************)
EXTENDS EndpointChain

CONSTANTS
    Request,        \* 1..n
    HttpPaths       \* what a client may ask for

HttpPassing == {"delay", "info"}
HttpEndpoints ==
    {"early",       \* no endpoint: the docs page, a preflight request, an ACME challenge
     "answer",      \* /status, /json, ...: answer at once
     "body",        \* /anything, /get, ...: answer when the body has come in
     "trailers",    \* the same, but wait for events of the request, in vain if it has gone
     "echo",        \* on HTTP/2, the head comes at once and the end with that of the body
     "fails",       \* throw before the head: /status/99, a certificate that cannot be had
     "misread",     \* throw a StatusError: /stream, where it does not begin the path but reads it
     "breaks",      \* throw after the head: /stream-bytes with a chunk size that is no number
     "close", "reset"}

ASSUME Numbered == Request \subseteq Nat \ {0}
ASSUME HttpAsked ==
    \A p \in HttpPaths :
        /\ p \in PathsOf(HttpPassing, HttpEndpoints)
        /\ p[Len(p)] # "malformed"
        /\ p[Len(p)] = "early" => Len(p) = 1
        /\ p[Len(p)] = "misread" => Len(p) > 1

VARIABLES
    version,      \* of HTTP: 1 or 2
    asked,        \* the path of each request
    whole,        \* the requests whose body has come in
    handler,      \* how far the handler of each request has got
    begun,        \* how many endpoints of its chain have begun
    written,      \* what was written to its response
    got,          \* what of this has been sent
    cut,          \* the requests whose response, or connection, is closed
    shut,         \* those whose socket, on HTTP/2 stream, is ended, so that no more is sent
    doomed,       \* the responses that were destroyed before they had the socket
    left          \* the requests that the client gave up, which only properties look at

httpVars == <<version, asked, whole, handler, begun, written, got, cut, shut, doomed, left>>

\* What is written to a response.
Info(i) == <<"info", i>>      \* a 1xx response, of the i-th endpoint
Final(i) == <<"head", i>>      \* the final status and headers, of the i-th endpoint
Error(code) == <<"error", code>>
End == <<"end", 0>>

Ended(r) == \E i \in DOMAIN written[r] : written[r][i] = End
HeadersSent(r) == \E i \in DOMAIN written[r] : written[r][i][1] \in {"head", "error"}

LastItem(s) == s[Len(s)]
Sent(r) == got[r] # <<>> /\ LastItem(got[r]) = End

\* The shape of the state.
HttpTypeOK ==
    /\ version \in {1, 2}
    /\ asked \in [Request -> HttpPaths]
    /\ whole \subseteq Request
    /\ cut \subseteq Request /\ shut \subseteq Request
    /\ doomed \subseteq Request /\ left \subseteq Request
    /\ handler \in [Request -> {"none", "running", "delaying", "reading", "failing", "hung", "returned"}]
    /\ \A r \in Request :
          /\ begun[r] \in 0..Len(asked[r])
          /\ \A i \in DOMAIN written[r] : written[r][i][1] \in {"info", "head", "error", "end"}
          /\ Len(got[r]) <= Len(written[r])

HttpInit ==
    /\ version \in {1, 2}
    /\ asked \in [Request -> HttpPaths]
    /\ whole = {}
    /\ cut = {} /\ shut = {} /\ doomed = {} /\ left = {}
    /\ handler = [r \in Request |-> "none"]
    /\ begun = [r \in Request |-> 0]
    /\ written = [r \in Request |-> <<>>]
    /\ got = [r \in Request |-> <<>>]

-----------------------------------------------------------------------------
\* Nothing is left to do before the next event.
Idle == \A r \in Request : handler[r] \notin {"running", "failing"}

Move(r, to) == handler' = [handler EXCEPT ![r] = to]
Write(r, items) == written' = [written EXCEPT ![r] = @ \o items]

\* On HTTP/1 a response has the socket when those before it are sent, and its head goes with
\* what follows it.
Queued(r) == version = 1 /\ \E q \in Request : q < r /\ ~Ended(q)
Held(r) == version = 1 /\ written[r] # <<>> /\ LastItem(written[r])[1] = "head"
HasSocket(r) == version = 1 => \A q \in Request : q < r => Sent(q)

\* What is written reaches the client while the response is open.
Send ==
    got' = [r \in Request |->
               IF r \in (cut \cup shut \cup doomed)' \/ Queued(r)' \/ Held(r)' THEN got[r]
               ELSE written'[r]]

Last(r) == begun[r] = Len(asked[r])
Endpoint(r) == asked[r][begun[r]]

\* The responses that end with the socket of r, or just with its stream.
Sharing(r) == IF version = 1 THEN Request ELSE {r}

(***************************************************************************)
(* The client and its connection.                                          *)
(***************************************************************************)
Arrive(r) ==
    /\ Idle /\ handler[r] = "none" /\ r \notin cut
    /\ \A q \in Request : q < r => handler[q] # "none" /\ (version = 1 => q \in whole)
    /\ Move(r, "running")
    /\ UNCHANGED <<version, asked, whole, begun, written, got, cut, shut, doomed, left>>

BodyIn(r) ==
    /\ Idle /\ handler[r] # "none" /\ r \notin whole \cup cut
    /\ whole' = whole \cup {r}
    /\ UNCHANGED <<version, asked, handler, begun, written, got, cut, shut, doomed, left>>

\* The client closes its connection, or on HTTP/2 cancels one request.
Leave(r) ==
    /\ Idle /\ handler[r] # "none" /\ r \notin cut
    /\ \E gone \in {Sharing(r), Request} : cut' = cut \cup gone /\ left' = left \cup gone
    /\ UNCHANGED <<version, asked, whole, handler, begun, written, got, shut, doomed>>

(***************************************************************************)
(* handleRequest.                                                          *)
(***************************************************************************)
AnswerEarly(r) ==
    /\ handler[r] = "running" /\ asked[r] = <<"early">>
    /\ Write(r, <<Final(1), End>>)
    /\ Move(r, "returned")
    /\ UNCHANGED <<version, asked, whole, begun, cut, shut, doomed, left>>
    /\ Send

\* resolveEndpointChain throws.
RefuseChain(r) ==
    /\ handler[r] = "running" /\ begun[r] = 0
    /\ ResolveEndpointChain(asked[r]) # 200
    /\ Move(r, "failing")
    /\ UNCHANGED <<version, asked, whole, begun, written, got, cut, shut, doomed, left>>

Done(r) == Ended(r) \/ Last(r)

\* The loop ends.
Return(r) ==
    /\ handler[r] = "running" /\ begun[r] > 0 /\ Done(r)
    /\ Move(r, "returned")
    /\ UNCHANGED <<version, asked, whole, begun, written, got, cut, shut, doomed, left>>

\* What an endpoint, the i-th, does before it returns, throws or awaits something.
Result(to, out) == [to |-> to, out |-> out]

HandleInfo(i, last) == Result("running", IF last THEN <<Info(i), Final(i), End>> ELSE <<Info(i)>>)
HandleTrailers(r) == Result(IF version = 1 /\ r \in cut THEN "hung" ELSE "reading", <<>>)
HandleEcho(i) == IF version = 2 THEN Result("running", <<Final(i)>>) ELSE Result("reading", <<>>)
HandleStatus(i) == Result("running", <<Final(i), End>>)
HandleStreamBytes(i) == Result("failing", <<Final(i)>>)

HandleResult(r, kind, i, last) ==
    CASE kind = "delay" -> Result("delaying", <<>>)
      [] kind = "info" -> HandleInfo(i, last)
      [] kind = "answer" -> HandleStatus(i)
      [] kind = "body" -> Result("reading", <<>>)
      [] kind = "trailers" -> HandleTrailers(r)
      [] kind = "echo" -> HandleEcho(i)
      [] kind \in {"fails", "misread"} -> Result("failing", <<>>)
      [] kind = "breaks" -> HandleStreamBytes(i)
      [] kind \in {"close", "reset"} -> Result("running", <<>>)

\* The requests whose connection an endpoint resets, and those whose socket it ends: what was
\* written before is sent and requests are still read, but nothing more is sent.
CutBy(kind) == IF kind = "reset" THEN Request ELSE {}
ShutBy(r, kind) == IF kind = "close" THEN Sharing(r) ELSE {}

\* The next endpoint of the chain.
Handle(r) ==
    /\ handler[r] = "running" /\ ~Done(r)
    /\ asked[r] # <<"early">> /\ ResolveEndpointChain(asked[r]) = 200
    /\ begun' = [begun EXCEPT ![r] = @ + 1]
    /\ LET i == begun[r] + 1
           result == HandleResult(r, asked[r][i], i, i = Len(asked[r]))
       IN  /\ Move(r, result.to)
           /\ Write(r, result.out)
           /\ cut' = cut \cup CutBy(asked[r][i])
           /\ shut' = shut \cup ShutBy(r, asked[r][i])
    /\ UNCHANGED <<version, asked, whole, doomed, left>>
    /\ Send

\* Mutant: the delay endpoint answers also if others follow.
MutantAfterDelay(r) ==
    /\ Idle /\ handler[r] = "delaying"
    /\ Move(r, "reading")
    /\ UNCHANGED <<version, asked, whole, begun, written, got, cut, shut, doomed, left>>

\* The timer: the next endpoint goes on, or else this one answers as /anything does.
AfterDelay(r) ==
    /\ Idle /\ handler[r] = "delaying"
    /\ Move(r, IF Last(r) THEN "reading" ELSE "running")
    /\ UNCHANGED <<version, asked, whole, begun, written, got, cut, shut, doomed, left>>

\* The body has come in.
AnswerBody(r) ==
    /\ Idle /\ handler[r] = "reading" /\ r \in whole \ cut
    /\ Write(r, <<Final(begun[r]), End>>)
    /\ Move(r, "running")
    /\ UNCHANGED <<version, asked, whole, begun, cut, shut, doomed, left>>
    /\ Send

\* The request has gone: reading it fails.  (On HTTP/2 it may end instead, and the answer is
\* written to a stream that has closed, with the same effect.)
ReadFails(r) ==
    /\ Idle /\ handler[r] = "reading" /\ r \in cut
    /\ Move(r, "failing")
    /\ UNCHANGED <<version, asked, whole, begun, written, got, cut, shut, doomed, left>>

\* The listeners of echo on HTTP/2.
EndEcho(r) ==
    /\ Idle /\ handler[r] = "returned" /\ version = 2
    /\ begun[r] > 0 /\ Endpoint(r) = "echo" /\ ~Ended(r) /\ r \in whole
    /\ Write(r, <<End>>)
    /\ UNCHANGED <<version, asked, whole, handler, begun, cut, shut, doomed, left>>
    /\ Send

\* The code of what was thrown: that of a StatusError, be it of the chain or an endpoint, or 500.
Thrown(kind) == IF kind = "misread" THEN 400 ELSE 500
Status(r) == IF begun[r] = 0 THEN ResolveEndpointChain(asked[r]) ELSE Thrown(Endpoint(r))

\* Mutant: the socket of the request is destroyed, and with it the responses before this one.
MutantDestroy(r) == cut' = cut \cup Sharing(r) /\ UNCHANGED doomed

\* res.destroy(): the socket of the response, at once or as soon as it has one.
Destroy(r) ==
    IF HasSocket(r) THEN cut' = cut \cup Sharing(r) /\ UNCHANGED doomed
    ELSE doomed' = doomed \cup {r} /\ UNCHANGED cut

DestroyOnSocket(r) ==
    /\ r \in doomed \ cut /\ HasSocket(r)
    /\ cut' = cut \cup Sharing(r)
    /\ UNCHANGED <<version, asked, whole, handler, begun, written, got, shut, doomed, left>>

\* The catch blocks: nothing to a response that has closed, a response that has begun is
\* destroyed, any other is an error, on HTTP/2 always the same.
Catch(r) ==
    /\ handler[r] = "failing"
    /\ IF r \in cut THEN UNCHANGED <<written, cut, doomed>>
       ELSE IF HeadersSent(r) THEN Destroy(r) /\ UNCHANGED written
       ELSE UNCHANGED <<cut, doomed>> /\ Write(r, <<Error(IF version = 1 THEN Status(r) ELSE 500), End>>)
    /\ Move(r, "returned")
    /\ UNCHANGED <<version, asked, whole, begun, shut, left>>
    /\ Send

HandlerStep(r) ==
    \/ AnswerEarly(r) \/ RefuseChain(r) \/ Return(r) \/ Handle(r) \/ AfterDelay(r)
    \/ AnswerBody(r) \/ ReadFails(r) \/ EndEcho(r) \/ Catch(r) \/ DestroyOnSocket(r)

HttpNext == \E r \in Request : HandlerStep(r) \/ Arrive(r) \/ BodyIn(r) \/ Leave(r)

-----------------------------------------------------------------------------
(***************************************************************************)
(* What a client may expect of its path.                                   *)
(***************************************************************************)

\* The informational responses of its first n endpoints.
Infos(p) ==
    LET infos[n \in 0..Len(p)] ==
            IF n = 0 THEN <<>>
            ELSE infos[n - 1] \o (IF p[n] = "info" THEN <<Info(n)>> ELSE <<>>)
    IN  infos

Refusal(p) == IF Len(p) > MaxChainDepth + 1 THEN 400 ELSE Unmatched[p[Len(p)]]

Refused(p) == Len(p) > MaxChainDepth + 1 \/ p[Len(p)] \in DOMAIN Unmatched

Expected(p) ==
    LET last == p[Len(p)] IN
    IF Refused(p) THEN <<Error(IF version = 1 THEN Refusal(p) ELSE 500), End>>
    ELSE Infos(p)[Len(p)] \o CASE last = "fails" -> <<Error(500), End>>
                               [] last = "misread" -> <<Error(IF version = 1 THEN 400 ELSE 500), End>>
                               [] last = "breaks" -> IF version = 1 THEN <<>> ELSE <<Final(Len(p))>>
                               [] last \in {"close", "reset"} -> <<>>
                               [] OTHER -> <<Final(Len(p)), End>>

\* Whatever the others on its connection do, a client gets of its request what the path asks
\* for or a beginning of it: the informational responses in order, then one final response,
\* of the last endpoint or the code of its error, which does not end if that failed in it;
\* none after it was closed (http-handler.ts:256-259, 276-288, 315-325).
AnswerOfChain ==
    \A r \in Request :
        LET all == Expected(asked[r]) IN
        Len(got[r]) <= Len(all) /\ got[r] = SubSeq(all, 1, Len(got[r]))

Runs(r, kind) == begun[r] > 0 /\ Endpoint(r) = kind

\* Why a request may stay without its answer: the client left, the connection was reset, the
\* socket ended, or the response or one before it broke off.
Excused(r) ==
    \/ r \in left
    \/ \E q \in Request : Runs(q, "reset")
    \/ \E q \in Sharing(r) : Runs(q, "close") \/ (q <= r /\ Runs(q, "breaks"))

\* A request that has come in is answered in full, on HTTP/1 also if it waits for the responses
\* before it or one behind it breaks off; or there is a reason not to, and nothing is left open
\* (http-handler.ts:273-289, 315-325, endpoints/http/delay.ts:21-31).
Answered ==
    \A r \in Request :
        handler[r] # "none" /\ r \in whole ~>
            Sent(r) \/ (Excused(r) /\ r \in cut \cup shut)

=============================================================================
