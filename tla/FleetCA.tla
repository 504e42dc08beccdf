------------------------------- MODULE FleetCA -------------------------------
(***************************************************************************)
(* What a fleet of servers is promised of a CA they share: one is settled, *)
(* and no server works with another until that one is renewed.  A server   *)
(* that looks for the CA gets one that has been settled at some moment     *)
(* since it began to look, even if it is renewed before the server has it, *)
(* and then keeps it.                                                      *)
(***************************************************************************)
CONSTANTS Server, Candidate, None

VARIABLES
    settled,    \* the fleet's CA
    renewed,    \* another was settled before it
    held,       \* the CA each server works with
    offered     \* what has been settled since each server began to look for it

Init ==
    /\ settled \in Candidate \cup {None}
    /\ renewed = FALSE
    /\ held = [s \in Server |-> None]
    /\ offered = [s \in Server |-> {}]

Looks(s) == offered[s] # {}

\* Whoever looks for the CA may come upon one that is settled now.
Offer(c) == offered' = [s \in Server |-> IF Looks(s) THEN offered[s] \cup {c} ELSE {}]

\* A CA is settled, perhaps by a server that fails before it works with it.
Settle(c) ==
    /\ settled = None /\ settled' = c
    /\ Offer(c)
    /\ UNCHANGED <<renewed, held>>

Renew(c) ==
    /\ settled # None /\ settled' = c
    /\ renewed' = TRUE
    /\ Offer(c)
    /\ UNCHANGED held

Look(s) ==
    /\ held[s] = None /\ ~Looks(s)
    /\ offered' = [offered EXCEPT ![s] = {settled}]
    /\ UNCHANGED <<settled, renewed, held>>

\* A server goes into service.
Adopt(s, c) ==
    /\ held[s] = None /\ c \in offered[s]
    /\ held' = [held EXCEPT ![s] = c]
    /\ offered' = [offered EXCEPT ![s] = {}]
    /\ UNCHANGED <<settled, renewed>>

\* A server stops, or gives up.
Stop(s) ==
    /\ held[s] # None \/ Looks(s)
    /\ held' = [held EXCEPT ![s] = None]
    /\ offered' = [offered EXCEPT ![s] = {}]
    /\ UNCHANGED <<settled, renewed>>

Next ==
    \/ \E c \in Candidate : Settle(c) \/ Renew(c)
    \/ \E s \in Server, c \in Candidate : Adopt(s, c)
    \/ \E s \in Server : Look(s) \/ Stop(s)

Spec == Init /\ [][Next]_<<settled, renewed, held, offered>>

=============================================================================
