------------------------------- MODULE ConnSniff -------------------------------
(***************************************************************************)
(* The first bytes of a connection: ConnectionProcessor (process-          *)
(* connection.ts) strips a PROXY protocol header (proxy-protocol.ts) where *)
(* one is trusted, and hands the connection to the handler of the protocol *)
(* that the bytes after it look like.                                      *)
(*                                                                         *)
(* Bytes are letters of a small alphabet, in which the signatures keep     *)
(* what they have in common: the PROXY v1 signature, the HTTP/2 preface    *)
(* and methods begin alike, "PROXY " and "PROPFIND " with a letter more.   *)
(* The fields of a header are one letter.                                  *)
(***************************************************************************)
EXTENDS Naturals, Sequences, SequencesExt

CONSTANTS
    Headers,       \* what may come before the first bytes of the protocol
    Payloads,      \* the first bytes of the protocol
    V1MaxLength,   \* V1_MAX_LENGTH
    HeaderCap      \* bytes kept of a header that does not end, 512

V1Signature == <<"P", "R", "O", "X">>
V2Signature == <<"cr", "lf", "Q">>
Preface == <<"P", "R", "I", "M">>
MethodPrefixes == {<<"G", " ">>, <<"P", "U", " ">>, <<"P", "R", "O", "F", " ">>}

\* The letter after the v2 signature: version, command, family and the length of the address.
V2Fields == {"v2tcp", "v2local", "v2short", "v2huge", "v3"}
V2Length(fields) ==
    CASE fields = "v2tcp" -> 2 [] fields = "v2short" -> 1 [] fields = "v2local" -> 0

\* What is assumed of the constants (Connection): a header is a line that ends in time, or does
\* not, or is of version 2, whole or with fields that the parser makes nothing of.
HeaderForm(h) ==
    \/ h = <<>>
    \/ /\ IsPrefix(V1Signature, h) /\ IsSuffix(<<"cr", "lf">>, h) /\ Len(h) <= V1MaxLength
       /\ \A i \in 1..(Len(h) - 2) : h[i] # "cr"
    \/ /\ IsPrefix(V1Signature, h) /\ Len(h) >= V1MaxLength
       /\ \A i \in 1..Len(h) : h[i] # "cr"
    \/ /\ IsPrefix(V2Signature, h) /\ Len(h) > 3
       /\ \/ h[4] \in {"v2huge", "v3"}
          \/ h[4] \in {"v2tcp", "v2short", "v2local"} /\ Len(h) = 4 + V2Length(h[4])

\* What comes behind is anything but another header.
ProtocolForm(p) == ~ IsPrefix(V1Signature, p) /\ ~ IsPrefix(V2Signature, p)

FirstBytes ==
    /\ \A h \in Headers : h \in Seq(STRING) /\ HeaderForm(h)
    /\ \A p \in Payloads : p \in Seq(STRING) /\ p # <<>> /\ ProtocolForm(p)
Lengths == V1MaxLength \in Nat /\ HeaderCap \in Nat /\ V1MaxLength <= HeaderCap /\ 6 <= HeaderCap

VARIABLES
    header, payload,      \* what the client sends
    trustProxyProtocol,   \* the outermost connection of a server that trusts its proxy
    received,             \* how many bytes have come in
    phase,                \* what the next 'readable' is waited for
    bufferedData,
    proxied,              \* connection[PROXY_PROTOCOL] is set
    handler,              \* who was given the connection
    given                 \* the bytes it was given

vars == <<header, payload, trustProxyProtocol, received, phase, bufferedData, proxied, handler, given>>

Sent == header \o payload

\* The shape of the state: bytes are kept for a header only.
TypeOK ==
    /\ header \in Headers /\ payload \in Payloads
    /\ trustProxyProtocol \in BOOLEAN
    /\ received \in 0..Len(Sent)
    /\ phase \in {"header", "protocol", "done"}
    /\ bufferedData # <<>> => phase = "header" /\ trustProxyProtocol
    /\ IsPrefix(bufferedData, Sent)
    /\ proxied \in BOOLEAN
    /\ handler \in {"none", "tls", "http", "http2", "destroyed"}
    /\ handler = "none" <=> phase # "done"

Init ==
    /\ header \in Headers /\ payload \in Payloads
    /\ trustProxyProtocol \in BOOLEAN
    /\ received = 0
    /\ phase = IF trustProxyProtocol THEN "header" ELSE "protocol"
    /\ bufferedData = <<>>
    /\ proxied = FALSE
    /\ handler = "none"
    /\ given = <<>>

-----------------------------------------------------------------------------
(***************************************************************************)
(* proxy-protocol.ts                                                       *)
(***************************************************************************)
\* Mutant: what could still become a signature is none.
MutantDetect(data) ==
    CASE IsPrefix(V2Signature, data) -> "v2"
      [] IsPrefix(V1Signature, data) -> "v1"
      [] OTHER -> "none"

Detect(data) ==
    CASE IsPrefix(V2Signature, data) -> "v2"
      [] IsStrictPrefix(data, V2Signature) -> "incomplete"
      [] IsPrefix(V1Signature, data) -> "v1"
      [] IsStrictPrefix(data, V1Signature) -> "incomplete"
      [] OTHER -> "none"

Incomplete == [complete |-> FALSE, address |-> FALSE, remaining |-> <<>>]
Parsed(address, remaining) == [complete |-> TRUE, address |-> address, remaining |-> remaining]

From(data, i) == SubSeq(data, i, Len(data))

\* A line that names two addresses, or says that they are unknown, or is malformed;
\* one that does not end in time is no header after all.
ParseV1(data) ==
    LET ends == {i \in 1..(Len(data) - 1) :
                    i < V1MaxLength /\ data[i] = "cr" /\ data[i + 1] = "lf"}
    IN  IF ends # {}
        THEN LET end == CHOOSE i \in ends : \A j \in ends : i <= j
             IN  Parsed(SubSeq(data, 1, end - 1) = V1Signature \o <<"tcp">>, From(data, end + 2))
        ELSE IF Len(data) >= V1MaxLength THEN Parsed(FALSE, data)
        ELSE Incomplete

\* Another version, or an address that is too long, is as good as incomplete; local
\* connections and addresses of other kinds are not recorded.
ParseV2(data) ==
    IF Len(data) <= Len(V2Signature) THEN Incomplete
    ELSE LET fields == data[Len(V2Signature) + 1] IN
         IF fields \in {"v2huge", "v3"} THEN Incomplete
         ELSE LET total == Len(V2Signature) + 1 + V2Length(fields) IN
              IF Len(data) < total THEN Incomplete
              ELSE Parsed(fields = "v2tcp", From(data, total + 1))

-----------------------------------------------------------------------------
(***************************************************************************)
(* process-connection.ts                                                   *)
(***************************************************************************)
Alike(data, signature) == IsPrefix(data, signature) \/ IsPrefix(signature, data)

IsTLS(data) == data[1] = "tls"
IsHTTP2(data) == Alike(data, Preface)

\* Mutant: only whole methods are recognised.
MutantCouldBeHttp(data) == \E method \in MethodPrefixes : IsPrefix(method, data)

CouldBeHttp(data) == \E method \in MethodPrefixes : Alike(data, method)

HandlerFor(data) ==
    IF IsTLS(data) THEN "tls"
    ELSE IF IsHTTP2(data) THEN "http2"
    ELSE IF CouldBeHttp(data) THEN "http"
    ELSE "destroyed"

\* Mutant: what came in along with the header is not looked at.
MutantProcessProtocolData(data) ==
    IF phase = "header"
    THEN phase' = "protocol" /\ UNCHANGED <<handler, given>>
    ELSE phase' = "done" /\ handler' = HandlerFor(data) /\ given' = data

\* The next data are looked at by themselves, once there are any.
ProcessProtocolData(data) ==
    IF data = <<>>
    THEN phase' = "protocol" /\ UNCHANGED <<handler, given>>
    ELSE phase' = "done" /\ handler' = HandlerFor(data) /\ given' = data

\* A header that ends is stripped; its address is recorded, if it has one.
StripHeader(parsed) ==
    /\ proxied' = parsed.address
    /\ ProcessProtocolData(parsed.remaining)

ParseProxyProtocolHeader(data) ==
    LET type == Detect(data)
        parsed == IF type = "v1" THEN ParseV1(data) ELSE ParseV2(data)
    IN  \/ /\ type = "none"
           /\ bufferedData' = <<>>
           /\ ProcessProtocolData(data)
           /\ UNCHANGED proxied
        \/ /\ type \in {"v1", "v2"} /\ parsed.complete
           /\ bufferedData' = <<>>
           /\ StripHeader(parsed)
        \/ /\ type \in {"v1", "v2"} /\ ~parsed.complete /\ Len(data) > HeaderCap
           /\ bufferedData' = <<>>
           /\ phase' = "done" /\ handler' = "destroyed"
           /\ UNCHANGED <<proxied, given>>
        \/ /\ \/ type = "incomplete"
              \/ type \in {"v1", "v2"} /\ ~parsed.complete /\ Len(data) <= HeaderCap
           /\ bufferedData' = data
           /\ UNCHANGED <<phase, proxied, handler, given>>

WithBuffered(chunk) == bufferedData \o chunk

\* 'readable', with the next n bytes.
Readable(n) ==
    /\ phase # "done" /\ received + n <= Len(Sent)
    /\ received' = received + n
    /\ LET chunk == SubSeq(Sent, received + 1, received + n) IN
       \/ phase = "header" /\ ParseProxyProtocolHeader(WithBuffered(chunk))
       \/ phase = "protocol" /\ ProcessProtocolData(chunk) /\ UNCHANGED <<bufferedData, proxied>>
    /\ UNCHANGED <<header, payload, trustProxyProtocol>>

Next == \E n \in 1..Len(Sent) : Readable(n)

Spec == Init /\ [][Next]_vars

-----------------------------------------------------------------------------
\* A header that the parser can come to the end of.
Ends == \/ IsPrefix(V1Signature, header) /\ IsSuffix(<<"cr", "lf">>, header)
        \/ IsPrefix(V2Signature, header) /\ header[4] \notin {"v2huge", "v3"}

Stripped == IF trustProxyProtocol /\ Ends THEN Len(header) ELSE 0

HasAddresses == \/ header = V1Signature \o <<"tcp", "cr", "lf">>
                \/ IsPrefix(V2Signature, header) /\ header[4] = "v2tcp"

\* However the bytes are cut into segments, the handler is given what came in behind the
\* header, all of it and nothing else, and knows its addresses if it has them
\* (process-connection.ts:266-346).
NothingLostOrAdded ==
    handler \in {"tls", "http", "http2"} =>
        /\ given = SubSeq(Sent, Stripped + 1, received)
        /\ proxied <=> trustProxyProtocol /\ HasAddresses

\* The handler is the one the whole of the first bytes would get, unless no more of them had
\* come in than what the HTTP/2 preface, or a method, also begins with: these are taken for
\* HTTP/2 and for HTTP/1, whatever follows (process-connection.ts:210-233, 337-345).
HandlerOfWhole ==
    phase = "done" =>
        LET whole == HandlerFor(From(Sent, Stripped + 1)) IN
        \/ handler = whole
        \/ handler = "http2" /\ IsStrictPrefix(given, Preface)
        \/ /\ handler = "http" /\ whole = "destroyed"
           /\ \E method \in MethodPrefixes : IsStrictPrefix(given, method)

\* Nobody waits for more once the header and something behind it have come in, unless that
\* may yet turn out to be a header (process-connection.ts:285, 305, 326).
DecidedInTime ==
    received > Len(header) /\ (Ends \/ header = <<>>) =>
        \/ phase = "done"
        \/ /\ header = <<>> /\ trustProxyProtocol
           /\ \/ IsStrictPrefix(bufferedData, V1Signature)
              \/ IsStrictPrefix(bufferedData, V2Signature)

=============================================================================
