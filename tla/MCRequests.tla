------------------------------ MODULE MCRequests ------------------------------
(* What clients of small instances ask for. *)
EXTENDS Requests, TlsEndpoints

\* Hosts of the parts there are and a word that is none.
Words == SniParts \cup {"unknown"}

\* Up to two of all the words, up to three of a part or two of each kind, and four of those
\* that combine.
Kinds == {"http2", "self-signed", "untrusted-root", "no-common-name", "incomplete-chain",
          "static-rsa", "tls-v1-0", "tls-v1-3"}
Combinable == {"http2", "no-common-name", "rsa1024", "tls-v1-0", "untrusted-root"}

Lists(n, S) == [1..n -> S]

Hosts ==
    UNION {Lists(n, Words) : n \in 0..2} \cup Lists(3, Kinds)
    \cup {parts \in Lists(4, Combinable) : ~Duplicates(parts)}

FourParts == {<<"http2", "no-common-name", "rsa1024", "tls-v1-2">>}

\* Every endpoint alone, after one that passes on, and chains that are too long.
Chains(passing, endpoints) ==
    LET last == passing \cup endpoints \cup DOMAIN Unmatched
    IN  {<<l>> : l \in last} \cup {<<p, l>> : p \in passing, l \in last}

SmallHttpPaths ==
    {p \in Chains(HttpPassing, HttpEndpoints) :
        /\ p[Len(p)] # "malformed"
        /\ p[Len(p)] = "early" => Len(p) = 1
        /\ p[Len(p)] = "misread" => Len(p) > 1}
    \cup {<<"delay", "info", "answer">>, <<"info", "info", "delay", "answer">>}

SmallWsPaths ==
    Chains(WsPassing, WsEndpoints)
    \cup {<<p, "delay", l>> : p \in WsPassing, l \in WsPassing \cup WsEndpoints}
    \cup {<<"repeat", "repeat", "badclose">>, <<"delay", "delay", "delay", "echo">>}

OneHttpPath == {<<"answer">>}
OneWsPath == {<<"badclose">>}
NoPart == {<<>>}
=============================================================================
