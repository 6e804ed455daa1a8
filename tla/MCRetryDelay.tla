----------------------------- MODULE MCRetryDelay -----------------------------
(* Instances of RetryDelay for TLC: five-bit durations. *)
EXTENDS RetryDelay
=============================================================================
