----------------------------- MODULE MCConnection -----------------------------
(* Headers and first bytes, requests of HTTP/1 and frames of HTTP/2 of small instances. *)
EXTENDS Connection, MCFrameCapture

CONSTANTS MaxRequests

\* The signatures and prefixes of ConnSniff, the kinds of RawCapture.
V1 == <<"P", "R", "O", "X">>
V2 == <<"cr", "lf", "Q">>
Starts == {<<"tls">>, <<"P", "R", "I", "M">>, <<"?">>,
           <<"G", " ">>, <<"P", "U", " ">>, <<"P", "R", "O", "F", " ">>}
Malformed == {<<"G", "?">>, <<"P", "R", "?">>, <<"P", "R", "O", "?">>, <<"cr", "lf", "?">>}
RawKinds == {"echo", "other", "early"}

SmallHeaders ==
    {<<>>}
    \cup {V1 \o line : line \in {<<"tcp", "cr", "lf">>, <<"unknown", "cr", "lf">>,
                                <<"cr", "lf">>, <<"tcp", "tcp", "tcp", "tcp">>}}
    \cup {V2 \o rest : rest \in {<<"v2tcp", "a", "a">>, <<"v2short", "a">>, <<"v2local">>,
                                <<"v2huge", "a", "a", "a", "a", "a">>, <<"v3", "a">>}}

SmallPayloads == {start \o <<"x", "y">> : start \in Starts} \cup Malformed

SmallRawWires == [1..MaxRequests -> [kind: RawKinds, head: {1, 2}, body: {0, 1}]]
=============================================================================
