------------------------- MODULE MCReportingOverGate -------------------------
(* ReportingOverGate for TLC: two requests that fail with the same type, alike *)
(* or not; the exception of the first, which the application may report        *)
(* itself, ends a thread as well, that of the second refuses the mark.         *)
EXTENDS ReportingOverGate, TLC

CONSTANTS r1, r2, t1, e1, e2, valueError, bad, worse

MCRequests == {r1, r2}
MCCarriers == {r1, r2, t1}
MCFailures == {e1, e2}
MCCarries == (r1 :> e1) @@ (r2 :> e2) @@ (t1 :> e1)
MCTypes == {valueError}
MCDetails ==
    {[e \in MCFailures |-> [type |-> valueError, message |-> IF e = e2 THEN m ELSE bad]] :
        m \in {bad, worse}}
MCCodeReports == [c \in MCCarriers |-> IF c = r1 THEN 1 ELSE 0]
=============================================================================
