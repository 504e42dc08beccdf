----------------------------- MODULE HostRouting ------------------------------
(***************************************************************************)
(* What becomes of a request for a host: the start of handleConnection     *)
(* (tls-handler.ts) and the first part of handleRequest (http-handler.ts), *)
(* up to the docs page and the endpoints.  The client is external: it      *)
(* follows redirects, takes any certificate and every TLS version, sends a *)
(* server name and an authority, and may send a request for one host over  *)
(* the HTTP/2 connection of another.                                       *)
(*                                                                         *)
(* A host is its parts; the two ways of separating them are not told apart *)
(* (a host written with both is one of words that are no parts).           *)
(***************************************************************************)
EXTENDS EndpointMerge

CONSTANTS
    PlainTextAllowed,     \* the parts that say plainTextAllowed
    FirstHosts            \* the hosts clients ask for

ASSUME HostsAsked == FirstHosts \subseteq Host

\* What a redirect relies on: there is room for one part more, which says that the host is
\* local-only and not self-signed; only self-signed is, and no-tls says nothing else.
ASSUME Room == MaxSniParts < MaxLength
ASSUME UntrustedRoot ==
    /\ "untrusted-root" \in Part
    /\ Contribution["untrusted-root"] = [requiredType |-> "local", selfSigned |-> FALSE]
ASSUME SelfSigned == \A p \in Part : "selfSigned" \in DOMAIN Contribution[p] =>
    Contribution[p].selfSigned = (p = "self-signed")
ASSUME NoTls == \A p \in Part : "rejectTls" \in DOMAIN Contribution[p] =>
    DOMAIN Contribution[p] = {"rejectTls"}

DefaultAlpn == <<"http/1.1", "h2">>
Offers == {{"http/1.1"}, {"h2"}, {"http/1.1", "h2"}}

VARIABLES
    usingPublicCA,
    offered,      \* the client's ALPN protocols
    first,        \* the host the client asked for at first
    url,
    conn,         \* its connection: the protocol, the server name, what ALPN chose
    phase,        \* "connecting", "handshake", "requesting", "routing", "end"
    redirects,
    answer        \* "none", "no connection", "400" or "page"

clientVars == <<usingPublicCA, offered, first, url, conn, phase, redirects, answer>>
routeVars == <<mergeVars, clientVars>>

Url == [protocol: {"http", "https"}, host: Host]
NoConn == [protocol |-> "none"]
Conn == [protocol: {"http", "https"}, sni: Host, alpn: {"http/1.1", "h2"}]

\* The shape of the state.
RouteTypeOK ==
    /\ MergeTypeOK
    /\ usingPublicCA \in BOOLEAN
    /\ offered \in Offers
    /\ first \in Host
    /\ url \in Url
    /\ conn \in Conn \cup {NoConn}
    /\ conn = NoConn => phase \in {"connecting", "handshake", "end"}
    /\ phase \in {"connecting", "handshake", "requesting", "routing", "end"}
    /\ redirects \in Nat
    /\ answer \in {"none", "no connection", "400", "page"}

RouteInit ==
    /\ MergeInit
    /\ usingPublicCA \in BOOLEAN
    /\ offered \in Offers
    /\ first \in FirstHosts
    /\ url \in [protocol: {"http", "https"}, host: {first}]
    /\ conn = NoConn
    /\ phase = "connecting"
    /\ redirects = 0
    /\ answer = "none"

EndWith(with) == phase' = "end" /\ answer' = with

-----------------------------------------------------------------------------
(***************************************************************************)
(* The connection.                                                         *)
(***************************************************************************)
ConnectPlain ==
    /\ phase = "connecting" /\ url.protocol = "http"
    /\ conn' = [protocol |-> "http", sni |-> url.host, alpn |-> "http/1.1"]
    /\ phase' = "requesting"
    /\ UNCHANGED <<mergeVars, usingPublicCA, offered, first, url, redirects, answer>>

\* handleConnection calls getEndpointConfig with the server name of the client hello.
ConnectTls ==
    /\ phase = "connecting" /\ url.protocol = "https"
    /\ GetEndpointConfig(url.host)
    /\ phase' = "handshake"
    /\ UNCHANGED <<usingPublicCA, offered, first, url, conn, redirects, answer>>

\* The protocols of both sides, and the one of them that the server prefers.
Preferences == IF alpnPreferences = <<>> THEN DefaultAlpn ELSE alpnPreferences
Negotiable == {i \in DOMAIN Preferences : Preferences[i] \in offered}
Negotiated == Preferences[CHOOSE i \in Negotiable : \A j \in Negotiable : i <= j]

\* The socket is destroyed, on purpose for no-tls; or no version or protocol is in common.
RejectHandshake ==
    /\ phase = "handshake"
    /\ \/ verdict = "invalid"
       \/ verdict = "valid" /\ ("rejectTls" \in DOMAIN options \/ Accepted(options) = {}
                                  \/ Negotiable = {})
    /\ EndWith("no connection")
    /\ UNCHANGED <<mergeVars, usingPublicCA, offered, first, url, conn, redirects>>

CompleteHandshake ==
    /\ phase = "handshake" /\ verdict = "valid"
    /\ "rejectTls" \notin DOMAIN options /\ Accepted(options) # {} /\ Negotiable # {}
    /\ conn' = [protocol |-> "https", sni |-> url.host, alpn |-> Negotiated]
    /\ phase' = "requesting"
    /\ UNCHANGED <<mergeVars, usingPublicCA, offered, first, url, redirects, answer>>

-----------------------------------------------------------------------------
(***************************************************************************)
(* handleRequest.                                                          *)
(***************************************************************************)

\* Mutant: coalesced requests are answered.
MutantMisdirected == FALSE

\* A request over the HTTP/2 connection of another host (the code compares what there is of
\* server name and authority; these clients send both) ...
Misdirected == conn.protocol = "https" /\ conn.alpn = "h2" /\ conn.sni # url.host

\* ... is answered 421, and the client asks again over a connection of its own.
Redirect421 ==
    /\ phase = "requesting" /\ Misdirected
    /\ conn' = NoConn
    /\ phase' = "connecting"
    /\ UNCHANGED <<mergeVars, usingPublicCA, offered, first, url, redirects, answer>>

\* The root domain has no parts to look at.
ServeRoot ==
    /\ phase = "requesting" /\ ~Misdirected /\ url.host = <<>>
    /\ EndWith("page")
    /\ UNCHANGED <<mergeVars, usingPublicCA, offered, first, url, conn, redirects>>

\* validateEndpointParts
ValidateHost ==
    /\ phase = "requesting" /\ ~Misdirected /\ url.host # <<>>
    /\ GetEndpointConfig(url.host)
    /\ phase' = "routing"
    /\ UNCHANGED <<usingPublicCA, offered, first, url, conn, redirects, answer>>

RejectHost ==
    /\ phase = "routing" /\ verdict = "invalid"
    /\ EndWith("400")
    /\ UNCHANGED <<mergeVars, usingPublicCA, offered, first, url, conn, redirects>>

TlsOnly == conn.protocol = "http" /\ ~ PartsOf(url.host) \subseteq PlainTextAllowed

\* Mutant: also if the host says untrusted-root already.
MutantLocalOnly == usingPublicCA /\ "requiredType" \in DOMAIN options

\* getLocalOnlyRedirectHost: a host only a local CA can serve, which does not say so.
LocalOnly ==
    /\ usingPublicCA
    /\ "requiredType" \in DOMAIN options /\ options.requiredType = "local"
    /\ ~("selfSigned" \in DOMAIN options /\ options.selfSigned)
    /\ "untrusted-root" \notin PartsOf(url.host)

Target == [protocol |-> "https",
           host |-> IF LocalOnly THEN Append(url.host, "untrusted-root") ELSE url.host]

\* 301; the client may use the HTTP/2 connection it has, as its certificate covers the target.
Redirect ==
    /\ phase = "routing" /\ verdict = "valid" /\ (TlsOnly \/ LocalOnly)
    /\ url' = Target
    /\ redirects' = redirects + 1
    /\ \/ phase' = "connecting" /\ conn' = NoConn
       \/ phase' = "requesting" /\ conn.alpn = "h2" /\ UNCHANGED conn
    /\ UNCHANGED <<mergeVars, usingPublicCA, offered, first, answer>>

ServePage ==
    /\ phase = "routing" /\ verdict = "valid" /\ ~TlsOnly /\ ~LocalOnly
    /\ EndWith("page")
    /\ UNCHANGED <<mergeVars, usingPublicCA, offered, first, url, conn, redirects>>

RouteNext ==
    \/ ConnectPlain \/ ConnectTls \/ RejectHandshake \/ CompleteHandshake
    \/ Redirect421 \/ ServeRoot \/ ValidateHost \/ RejectHost \/ Redirect \/ ServePage
    \/ MergeStep /\ UNCHANGED clientVars

-----------------------------------------------------------------------------
\* local-only-redirect.spec.ts:108: "does not loop": a client is redirected once at most,
\* then to a host that is valid, if there was room for one more part
\* (http-handler.ts:77-93, 187-213).
RedirectOnce ==
    /\ redirects <= 1
    /\ redirects = 1 /\ Len(first) < MaxSniParts => Servable(url.host)

\* A page is served over the connection that the host's own TLS options made, in plain text only
\* if every part allows it, and under a public CA never from a local-only host that does not say
\* so: "the TLS settings would be silently ignored" (http-handler.ts:122-143, 187-196).
ServedOverOwnTls ==
    answer = "page" =>
        LET P == PartsOf(url.host) IN
        /\ conn.sni = url.host
        /\ conn.protocol = "http" => P \subseteq PlainTextAllowed
        /\ usingPublicCA /\ "local" \in Values(P, "requiredType")
              => P \cap {"untrusted-root", "self-signed"} # {}

(***************************************************************************)
(* What docs of the code say, and the code does not do.                    *)
(***************************************************************************)

\* http-handler.ts:73-74: for a local-only endpoint "we redirect to *--untrusted-root": the host a
\* client is sent to is one the server serves.
RedirectsToServable == redirects > 0 => Servable(url.host)

=============================================================================
