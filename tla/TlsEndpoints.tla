----------------------------- MODULE TlsEndpoints -----------------------------
(***************************************************************************)
(* The parts that the host name of a TLS request is made of, and what each *)
(* of them asks for (endpoints/tls/): the values of EndpointMerge's        *)
(* constants.  The certificate options and the TLS options of a part are   *)
(* one record, as their names do not overlap.  TLS 1.0 to 1.3 are 0 to 3;  *)
(* enabledVersions is a set; a list of ciphers or a DH group is a name.    *)
(***************************************************************************)
EXTENDS Naturals, Sequences, TLC

\* cert-modes.ts
CertModes ==
    "expired" :> [expired |-> TRUE]
    @@ "revoked" :> [revoked |-> TRUE]
    @@ "self-signed" :> [requiredType |-> "local", selfSigned |-> TRUE]
    @@ "untrusted-root" :> [requiredType |-> "local", selfSigned |-> FALSE]
    @@ "no-common-name" :> [requiredType |-> "local", noCommonName |-> TRUE]
    @@ "incomplete-chain" :> [incompleteChain |-> TRUE, selfSigned |-> FALSE]
    @@ "sha1-sig" :> [requiredType |-> "local", sha1Signature |-> TRUE, securityLevel |-> 0]
    @@ "wrong-host" :> [overridePrefix |-> "example"]

\* ciphers.ts: each is capped at TLS 1.2.
WeakCiphers(list) == [ciphers |-> list, securityLevel |-> 0, maxVersion |-> 2]

Ciphers ==
    "static-rsa" :> WeakCiphers("rsa")
    @@ "cbc" :> WeakCiphers("cbc")
    @@ "null-cipher" :> WeakCiphers("null")
    @@ "dh1024" :> (WeakCiphers("dhe") @@ [dhparam |-> 1024])
    @@ "dh2048" :> (WeakCiphers("dhe") @@ [dhparam |-> 2048])

\* key-sizes.ts
KeySizes ==
    "rsa512" :> (WeakCiphers("aes128-sha") @@ [requiredType |-> "local", keyBits |-> 512])
    @@ "rsa1024" :> [requiredType |-> "local", keyBits |-> 1024, securityLevel |-> 1]
    @@ "rsa2048" :> [requiredType |-> "local", keyBits |-> 2048]
    @@ "rsa4096" :> [requiredType |-> "local", keyBits |-> 4096]
    @@ "rsa8192" :> [requiredType |-> "local", keyBits |-> 8192]

\* tls-versions.ts
TlsVersions ==
    "tls-v1-0" :> [enabledVersions |-> {0}]
    @@ "tls-v1-1" :> [enabledVersions |-> {1}]
    @@ "tls-v1-2" :> [enabledVersions |-> {2}]
    @@ "tls-v1-3" :> [enabledVersions |-> {3}]

\* alpn-specifiers.ts, client-cert.ts, no-tls.ts, example.ts
Nothing == <<>>
Others ==
    "http2" :> Nothing @@ "http1" :> Nothing @@ "example" :> Nothing
    @@ "client-cert" :> [requireClientCert |-> TRUE]
    @@ "no-tls" :> [rejectTls |-> TRUE]

Contributions == CertModes @@ Ciphers @@ KeySizes @@ TlsVersions @@ Others

SniParts == DOMAIN Contributions

\* What a part appends to the ALPN preferences (alpn-specifiers.ts).
AlpnPreferences ==
    [p \in SniParts |-> CASE p = "http2" -> <<"h2">> [] p = "http1" -> <<"http/1.1">> [] OTHER -> <<>>]

\* The parts whose host may also be asked for over plain HTTP.
PlainTextParts == {"no-tls", "example"}
=============================================================================
