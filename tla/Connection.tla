------------------------------ MODULE Connection ------------------------------
(***************************************************************************)
(* The layers of a connection (process-connection.ts): its first bytes are *)
(* looked at for a PROXY header and a protocol (ConnSniff); what is then   *)
(* handed to the HTTP/1 server is captured as raw data (RawCapture), and   *)
(* to the HTTP/2 server as frames (FrameCapture).  A layer has given up    *)
(* the connection when the next one gets it, and leaves it no state but    *)
(* the bytes, so that each is looked at by itself.                         *)
(***************************************************************************)
EXTENDS FrameCapture

CONSTANTS
    Headers, Payloads, V1MaxLength, HeaderCap,      \* of ConnSniff
    RawWires, Undefined                             \* of RawCapture

VARIABLES
    layer,      \* "sniff", "raw" or "frames"
    header, payload, trustProxyProtocol, sniffed, phase, bufferedData, proxied, handler, given,
    rawWire, patient, rawReceived, receivedData, requestsInBatch, pipelining, rawHandler,
    echoed, overlapped

Sniff == INSTANCE ConnSniff WITH received <- sniffed

Raw == INSTANCE RawCapture
           WITH Wires <- RawWires, wire <- rawWire, received <- rawReceived, handler <- rawHandler

ASSUME SniffData == Sniff!FirstBytes /\ Sniff!Lengths
ASSUME RawData == Raw!RequestsOnWire /\ Raw!UndefinedIsNoData

sniffVars == <<header, payload, trustProxyProtocol, sniffed, phase, bufferedData, proxied, handler, given>>
rawVars == <<rawWire, patient, rawReceived, receivedData, requestsInBatch, pipelining, rawHandler,
             echoed, overlapped>>
connectionVars == <<layer, sniffVars, rawVars, vars>>

\* The shape of the state.
ConnectionTypeOK ==
    /\ layer \in {"sniff", "raw", "frames"}
    /\ Sniff!TypeOK
    /\ Raw!TypeOK
    /\ TypeOK

\* What is sent to a layer that is not looked at does not matter.
OneOf(S) == CHOOSE x \in S : TRUE
NoSniff == header = OneOf(Headers) /\ payload = OneOf(Payloads) /\ trustProxyProtocol = FALSE
NoRaw == rawWire = OneOf(RawWires) /\ patient = FALSE
NoFrames == wire = OneOf(Wires)

ConnectionInit ==
    \/ layer = "sniff" /\ NoRaw /\ NoFrames /\ Sniff!Init /\ Raw!Init /\ Init
    \/ layer = "raw" /\ NoSniff /\ NoFrames /\ Sniff!Init /\ Raw!Init /\ Init
    \/ layer = "frames" /\ NoSniff /\ NoRaw /\ Sniff!Init /\ Raw!Init /\ Init

InSniff == layer = "sniff" /\ Sniff!Next /\ UNCHANGED <<layer, rawVars, vars>>
InRaw == layer = "raw" /\ Raw!Next /\ UNCHANGED <<layer, sniffVars, vars>>
InFrames == layer = "frames" /\ Next /\ UNCHANGED <<layer, sniffVars, rawVars>>

ConnectionNext == InSniff \/ InRaw \/ InFrames

ConnectionSpec == ConnectionInit /\ [][ConnectionNext]_connectionVars

-----------------------------------------------------------------------------
\* ConnSniff: however the bytes are cut, the handler gets what came in behind the header,
\* and its addresses (process-connection.ts:266-346).
NothingLostOrAdded == Sniff!NothingLostOrAdded

\* ConnSniff: the handler is the one the whole of the first bytes would get, but for those that
\* the preface or a method begins with too (process-connection.ts:210-233, 337-345).
HandlerOfWhole == Sniff!HandlerOfWhole

\* ConnSniff: nobody waits for more once something behind the header has come in
\* (process-connection.ts:285, 305, 326).
DecidedInTime == Sniff!DecidedInTime

\* RawCapture: an echo that another request overlapped before it was decided is refused
\* (http-handler.ts:268-271, 292-295, echo.ts:146-152).
PipelinedRefused == Raw!PipelinedRefused

\* RawCapture: the answer for a patient client ends with the request itself
\* (http-handler.ts:27, 291, process-connection.ts:348-353).
OwnBytesEchoed == Raw!OwnBytesEchoed

=============================================================================
