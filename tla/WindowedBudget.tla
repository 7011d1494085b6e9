--------------------------- MODULE WindowedBudget ---------------------------
(***************************************************************************)
(* What a token bucket promises its callers, with no bucket in sight.      *)
(* A request made at time now is admitted exactly when it fits EVERY       *)
(* window that starts at an earlier admission: n admissions since time a   *)
(* cost n * Unit and the window grants Burst + Rate * (now - a).           *)
(* A limiter that loses tokens refuses a request that fits; one that gains *)
(* tokens admits a request that does not.  Neither is a behaviour here.    *)
(***************************************************************************)
EXTENDS Integers, Sequences

CONSTANTS
    Unit,   \* price of one admission, in grains
    Rate,   \* grains granted per tick
    Burst   \* grains granted to a window of length zero

VARIABLES
    now,        \* the clock
    admits,     \* times of the admissions so far, oldest first
    refusals    \* number of requests refused so far

vars == <<now, admits, refusals>>

\* One more admission at time s stays within the window that starts at the
\* i-th admission.
FitsWindow(i, s) ==
    (Len(admits) - i + 2) * Unit <= Burst + Rate * (s - admits[i])

Fits(s) == \A i \in 1..Len(admits) : FitsWindow(i, s)

Init ==
    /\ now = 0
    /\ admits = <<>>
    /\ refusals = 0

Admit ==
    /\ Fits(now)
    /\ admits' = Append(admits, now)
    /\ UNCHANGED <<now, refusals>>

Refuse ==
    /\ ~ Fits(now)
    /\ refusals' = refusals + 1
    /\ UNCHANGED <<now, admits>>

Tick ==
    /\ now' = now + 1
    /\ UNCHANGED <<admits, refusals>>

Next == Admit \/ Refuse \/ Tick

Spec == Init /\ [][Next]_vars
=============================================================================
