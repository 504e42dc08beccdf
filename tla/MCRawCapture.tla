----------------------------- MODULE MCRawCapture -----------------------------
(* What clients of small instances send. *)
EXTENDS RawCapture

\* An upload to another endpoint, and then an echo.
UploadThenEcho ==
    {<<[kind |-> "other", head |-> 1, body |-> 1], [kind |-> "echo", head |-> 1, body |-> 0]>>}
=============================================================================
