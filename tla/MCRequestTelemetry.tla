-------------------------- MODULE MCRequestTelemetry --------------------------
(* RequestTelemetry for TLC: a request that works with a helper task or a      *)
(* helper thread, beside another request.  The steps are interchangeable.      *)
EXTENDS RequestTelemetry, TLC

CONSTANTS r1, r2, h1, s1, s2, discogs, groq

MCRequests == {r1, r2}
MCSteps == {s1, s2}
StepSymmetry == Permutations(MCSteps)
=============================================================================
