---------------------------- MODULE MCDnsChallenge ----------------------------
(* The challenges and machines of small instances, and their symmetry. *)
EXTENDS DnsChallenge, TLC

CONSTANTS c1, c2, c3

OneShortLived == {c3}
Symmetry == Permutations(Machine) \cup Permutations({c1, c2})
=============================================================================
