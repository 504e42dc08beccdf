----------------------------- MODULE MCManagedCA -----------------------------
(* Records the store may hold when the servers first boot, and symmetry. *)
EXTENDS ManagedCA, TLC

\* Nothing stored, a CA that stays usable, one that a tick brings within the margin, one
\* within it already, one that has expired, one that cannot be parsed.
AnyRecord == {NoCa} \cup [id: {100}, exp: {0, 1, 2, 4}] \cup {[id |-> 0, exp |-> 4]}
NothingOrUsable == {NoCa, [id |-> 100, exp |-> 4]}
Nothing == {NoCa}
CloseToExpiry == {[id |-> 100, exp |-> 1]}
UsableForNow == {[id |-> 100, exp |-> 2]}

Symmetry == Permutations(Server)
=============================================================================
