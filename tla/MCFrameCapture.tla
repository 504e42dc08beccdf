---------------------------- MODULE MCFrameCapture ----------------------------
(* What clients of small instances send, and the symmetry of their streams. *)
EXTENDS FrameCapture, FiniteSets, TLC

CONSTANTS MaxFrames

Plain(s) == [on |-> s, ends |-> FALSE, resets |-> FALSE, size |-> HeaderSize + 1]
Final(s) == [on |-> s, ends |-> TRUE, resets |-> FALSE, size |-> HeaderSize]
Reset(s) == [on |-> s, ends |-> FALSE, resets |-> TRUE, size |-> HeaderSize]

\* A stream is not ended twice, nor reset before it is opened, and nothing follows a reset.
WellFormed(w) ==
    /\ w[1].on = Connection
    /\ \A i, j \in DOMAIN w : i < j /\ w[i].on = w[j].on =>
          ~w[i].resets /\ ~(w[i].ends /\ w[j].ends)
    /\ \A j \in DOMAIN w : w[j].resets => \E i \in 1..(j - 1) : w[i].on = w[j].on

SmallWires ==
    {w \in [1..MaxFrames -> {Plain(Connection)} \cup UNION {{Plain(s), Final(s), Reset(s)} : s \in Stream}] :
        WellFormed(w)}
=============================================================================
