------------------------------ MODULE MCReadiness ------------------------------
(* Readiness for TLC: three checks, one of them optional, whose probes end one *)
(* way or another and heed the cancellation at the deadline or swallow it.     *)
EXTENDS Readiness

CONSTANTS c1, c2, c3

MCChecks == {c1, c2, c3}
MCRequired == {c1, c2}
MCWays == {"ok", "other", "raise", "timeoutError", "cancelledError", "swallow"}
=============================================================================
