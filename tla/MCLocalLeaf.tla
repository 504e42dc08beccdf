------------------------------ MODULE MCLocalLeaf ------------------------------
(* Hosts for TLC, and symmetry. *)
EXTENDS LocalLeaf, TLC

Site(name, selfSigned, revoked, override) ==
    [name |-> name, selfSigned |-> selfSigned, revoked |-> revoked, override |-> override]

WrongHost == Site("wrong-host--self-signed", TRUE, FALSE, TRUE)
WrongHostTls12 == Site("wrong-host--self-signed--tls-v1-2", TRUE, FALSE, TRUE)
SelfSignedRevoked == Site("self-signed--revoked", TRUE, TRUE, FALSE)
WrongHostRevoked == Site("wrong-host--revoked", FALSE, TRUE, TRUE)

OneLeafTwoContexts == {WrongHost, WrongHostTls12}
OnlySelfSignedRevoked == {SelfSignedRevoked}
OnlyWrongHostRevoked == {WrongHostRevoked}

Symmetry == Permutations(Conn)
=============================================================================
