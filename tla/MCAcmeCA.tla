------------------------------ MODULE MCAcmeCA ------------------------------
(* Small instances of AcmeCA for TLC: options, and the symmetry of its slots. *)
EXTENDS AcmeCA, TLC

NormalOrRevoked == [expired: {FALSE}, revoked: BOOLEAN]
AnyOptions == [expired: BOOLEAN, revoked: BOOLEAN]
Normal == [expired: {FALSE}, revoked: {FALSE}]

Symmetry == Permutations(Server) \cup Permutations(Call) \cup Permutations(Attempt)
=============================================================================
