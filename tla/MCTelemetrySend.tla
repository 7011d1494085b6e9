---------------------------- MODULE MCTelemetrySend ----------------------------
(* TelemetrySend for TLC: a request that sends a step and its summary, and a   *)
(* thread that captures, flushes and shuts down.  A token is four grains, a    *)
(* tick refills half of it, so refills are fractional as in the code.          *)
EXTENDS TelemetrySend, TLC

CONSTANTS r1, t1, parse, lookup, explore

MCRequests == {r1}
MCThreads == {r1, t1}
MCSteps == {parse}
MCEvents == {parse, lookup, explore}
MCExempt == {explore}
MCSummary == r1 :> lookup
=============================================================================
