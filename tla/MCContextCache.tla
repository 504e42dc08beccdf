---------------------------- MODULE MCContextCache ----------------------------
(* Hosts for TLC: the endpoints that matter to the cache key, and symmetry. *)
EXTENDS ContextCache, TLC

Site(name, override, local, expired) ==
    [name |-> name, override |-> override, local |-> local, expired |-> expired]

\* A plain host, the host wrong-host borrows its name from, and wrong-host.
Plain == Site("plain", FALSE, FALSE, FALSE)
Genuine == Site("example", FALSE, FALSE, FALSE)
WrongHost == Site("wrong-host", TRUE, FALSE, FALSE)
WrongHostUntrusted == Site("wrong-host--untrusted-root", TRUE, TRUE, FALSE)
Expired == Site("expired", FALSE, FALSE, TRUE)
Untrusted == Site("untrusted-root", FALSE, TRUE, FALSE)

GenuineAndWrong == {Genuine, WrongHost}
PlainAndExpired == {Plain, Expired}
ThreeHosts == {Genuine, WrongHost, Expired}
BothWrong == {WrongHost, WrongHostUntrusted}

Symmetry == Permutations(Conn)
=============================================================================
