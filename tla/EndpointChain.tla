----------------------------- MODULE EndpointChain -----------------------------
(***************************************************************************)
(* The path of a request, and the chain of endpoints it asks for           *)
(* (endpoint-chain.ts).  A path is a sequence of segments, each named for  *)
(* what its endpoint does; only an endpoint that passes on leaves a        *)
(* remaining path to the next.                                             *)
(***************************************************************************)
EXTENDS Naturals, Sequences

CONSTANTS MaxChainDepth     \* MAX_CHAIN_DEPTH

ASSUME Depth == MaxChainDepth \in Nat

\* What matchPath says of a segment: no endpoint takes it, or one throws, a StatusError or
\* (as ws/repeat.ts does for what is no URI component) something else.
Unmatched == [unknown |-> 404, invalid |-> 400, malformed |-> 500]

\* The paths of endpoints, some of which pass on.
PathsOf(passing, endpoints) ==
    {p \in Seq(passing \cup endpoints \cup DOMAIN Unmatched) :
        p # <<>> /\ \A i \in 1..(Len(p) - 1) : p[i] \in passing}

\* The status of the error thrown, or 200 for a path whose chain is its segments: the loop
\* takes one segment more than MAX_CHAIN_DEPTH, and only the last can be one of no endpoint.
ResolveEndpointChain(path) ==
    LET last == path[Len(path)] IN
    IF Len(path) > MaxChainDepth + 1 THEN 400
    ELSE IF last \in DOMAIN Unmatched THEN Unmatched[last] ELSE 200

=============================================================================
