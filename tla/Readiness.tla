------------------------------- MODULE Readiness -------------------------------
(***************************************************************************)
(* GET /health/ready: every check's probe runs concurrently under its own  *)
(* asyncio.wait_for, gather waits for all of them, and the outcomes are    *)
(* summed up in one response.                                              *)
(*                                                                         *)
(* Since Python 3.12 wait_for awaits the probe in place: at the deadline   *)
(* the probe gets a CancelledError and wait_for raises TimeoutError only   *)
(* when that error comes out again: a probe that swallows it and works on  *)
(* is waited for.  What a probe may do, then and before, is the constant   *)
(* Ways.  The event loop is not blocked: a timer fires and a task that is  *)
(* ready runs before the clock moves on.                                   *)
(***************************************************************************)
EXTENDS Integers, FiniteSets

CONSTANTS
    Checks,     \* the router's checks, with names of their own
    Required,   \* those with required=True
    Timeout,    \* the per-probe deadline, in ticks
    Ways,       \* what probes may do: see EndsBy and Cancelled
    MaxClock    \* bound on the clock

ASSUME ReadinessAssumption ==
    /\ Required \subseteq Checks
    /\ Timeout \in Nat \ {0}
    /\ MaxClock \in Nat

VARIABLES
    clock,      \* loop time
    phase,      \* of the request: "idle", "probing", "answered" or "failed"
    probe,      \* each probe: "none", "running", "cancelled", "goingOn" or "ended"
    outcome,    \* what _run_probe returned for each check, or Pending
    response,   \* the answer, once there is one
    endedAt,    \* history: when each probe ended
    endedBy,    \* history: how it ended
    wentOn      \* history: the checks whose probe worked on after its cancellation

vars == <<clock, phase, probe, outcome, response, endedAt, endedBy, wentOn>>

Pending == "pending"
NoResponse == [http |-> 0, status |-> "none", services |-> [c \in Checks |-> Pending]]

Init ==
    /\ clock = 0
    /\ phase = "idle"
    /\ probe = [c \in Checks |-> "none"]
    /\ outcome = [c \in Checks |-> Pending]
    /\ response = NoResponse
    /\ endedAt = [c \in Checks |-> 0]
    /\ endedBy = [c \in Checks |-> "none"]
    /\ wentOn = {}

-----------------------------------------------------------------------------
(* _run_probe                                                              *)

Start ==
    /\ phase = "idle"
    /\ phase' = "probing"
    /\ probe' = [c \in Checks |-> "running"]
    /\ UNCHANGED <<clock, outcome, response, endedAt, endedBy, wentOn>>

\* Mutant: a value other than "ok" is passed through as a success.
AnyValueIsOk(way) ==
    CASE way \in {"ok", "lateOk", "other", "lateOther"} -> "ok"
      [] way \in {"timeoutError", "expired"} -> "timeout"
      [] OTHER -> "unavailable"

\* The outcome when the probe's coroutine ended some way: the except clauses.
OutcomeOf(way) ==
    CASE way \in {"ok", "lateOk"} -> "ok"
      [] way \in {"timeoutError", "expired"} -> "timeout"
      [] OTHER -> "unavailable"

Ends(c, way) ==
    /\ probe' = [probe EXCEPT ![c] = "ended"]
    /\ outcome' = [outcome EXCEPT ![c] = OutcomeOf(way)]
    /\ endedAt' = [endedAt EXCEPT ![c] = clock]
    /\ endedBy' = [endedBy EXCEPT ![c] = way]
    /\ UNCHANGED <<clock, phase, response, wentOn>>

\* The probe returns "ok" or another string, or raises, its own TimeoutError
\* included.
EndsBy(c, way) ==
    /\ phase = "probing"
    /\ probe[c] = "running"
    /\ way \in Ways \cap {"ok", "other", "raise", "timeoutError"}
    /\ Ends(c, way)

\* Mutant: one deadline after another, as if the probes ran in turn.
DeadlineInTurn(c) == Timeout * Cardinality(Checks)

\* Every probe started at 0 and has the whole timeout for itself.
Deadline(c) == Timeout

\* Mutant: no deadline.
NeverExpires(c) == FALSE

Expires(c) == probe[c] = "running" /\ clock >= Deadline(c)

\* wait_for's timer cancels the probe.
Expire(c) ==
    /\ phase = "probing"
    /\ Expires(c)
    /\ probe' = [probe EXCEPT ![c] = "cancelled"]
    /\ UNCHANGED <<clock, phase, outcome, response, endedAt, endedBy, wentOn>>

\* A cancelled probe ends: it lets the CancelledError out, raises something
\* else while it cleans up, or swallows it and returns "ok" or another string
\* after all, which wait_for passes on as if it had come in time.
EndsCancelled(c, way) ==
    /\ phase = "probing"
    /\ \/ way = "expired"
       \/ way = "raise" /\ way \in Ways
       \/ way \in {"lateOk", "lateOther"} /\ "swallow" \in Ways
    /\ Ends(c, way)

Cancelled(c, way) == probe[c] = "cancelled" /\ EndsCancelled(c, way)

\* Or it swallows the CancelledError and awaits something else.  The timer has
\* fired, wait_for still awaits the probe, and nothing cancels it again.
GoOn(c) ==
    /\ phase = "probing"
    /\ probe[c] = "cancelled"
    /\ "swallow" \in Ways
    /\ probe' = [probe EXCEPT ![c] = "goingOn"]
    /\ wentOn' = wentOn \cup {c}
    /\ UNCHANGED <<clock, phase, outcome, response, endedAt, endedBy>>

EndsLate(c, way) == probe[c] = "goingOn" /\ EndsCancelled(c, way)

\* A probe raises CancelledError by itself: no Exception, so it leaves
\* _run_probe and gather, and the request fails.
Breaks(c) ==
    /\ phase = "probing"
    /\ probe[c] = "running"
    /\ "cancelledError" \in Ways
    /\ probe' = [probe EXCEPT ![c] = "ended"]
    /\ endedAt' = [endedAt EXCEPT ![c] = clock]
    /\ endedBy' = [endedBy EXCEPT ![c] = "cancelledError"]
    /\ phase' = "failed"
    /\ UNCHANGED <<clock, outcome, response, wentOn>>

-----------------------------------------------------------------------------
(* readiness and _aggregate_status                                         *)

\* Mutant: the optional checks are looked at first.
OptionalFirst(outs) ==
    IF \E c \in Checks \ Required : outs[c] # "ok" THEN "degraded"
    ELSE IF \E c \in Required : outs[c] # "ok" THEN "unhealthy"
    ELSE "healthy"

AggregateStatus(outs) ==
    IF \E c \in Required : outs[c] # "ok" THEN "unhealthy"
    ELSE IF \E c \in Checks \ Required : outs[c] # "ok" THEN "degraded"
    ELSE "healthy"

\* gather has all outcomes.
Respond ==
    /\ phase = "probing"
    /\ \A c \in Checks : probe[c] = "ended"
    /\ phase' = "answered"
    /\ LET status == AggregateStatus(outcome)
       IN  response' = [http |-> IF status = "unhealthy" THEN 503 ELSE 200,
                        status |-> status, services |-> outcome]
    /\ UNCHANGED <<clock, probe, outcome, endedAt, endedBy, wentOn>>

-----------------------------------------------------------------------------
\* The loop has nothing to run before the next tick: no timer is due, and a
\* cancelled probe has yet to run.
LoopIsIdle ==
    /\ \A c \in Checks : ~ Expires(c)
    /\ \A c \in Checks : probe[c] # "cancelled"
    /\ ~ \A c \in Checks : probe[c] = "ended"

Tick ==
    /\ phase = "probing"
    /\ LoopIsIdle
    /\ clock < MaxClock
    /\ clock' = clock + 1
    /\ UNCHANGED <<phase, probe, outcome, response, endedAt, endedBy, wentOn>>

CancelledWays == {"lateOk", "lateOther", "raise", "expired"}
React(c) == Expire(c) \/ GoOn(c) \/ \E way \in CancelledWays : Cancelled(c, way)

Next ==
    \/ Start
    \/ \E c \in Checks :
         \/ \E way \in {"ok", "other", "raise", "timeoutError"} : EndsBy(c, way)
         \/ React(c)
         \/ \E way \in CancelledWays : EndsLate(c, way)
         \/ Breaks(c)
    \/ Respond
    \/ Tick

Spec == Init /\ [][Next]_vars

\* The event loop runs what is ready and time passes; a probe need never end
\* on its own, nor after it went on.
FairSpec ==
    Spec /\ WF_vars(Tick) /\ WF_vars(Respond) /\ \A c \in Checks : WF_vars(React(c))

-----------------------------------------------------------------------------
(* Properties                                                              *)

Outcomes == {"ok", "unavailable", "timeout"}

\* Every variable has its type, and an outcome is there exactly when the probe
\* has ended by something _run_probe catches.
TypeOK ==
    /\ clock \in 0..MaxClock
    /\ phase \in {"idle", "probing", "answered", "failed"}
    /\ probe \in [Checks -> {"none", "running", "cancelled", "goingOn", "ended"}]
    /\ outcome \in [Checks -> Outcomes \cup {Pending}]
    /\ \A c \in Checks :
         outcome[c] # Pending <=> probe[c] = "ended" /\ endedBy[c] # "cancelledError"

\* A load balancer that reads the status code and one that reads the body are
\* told the same: 503 exactly when a required service is not "ok", and
\* "healthy" exactly when every service is.
AnswerAgrees ==
    phase = "answered" =>
        /\ response.http = 503 <=> \E c \in Required : response.services[c] # "ok"
        /\ response.http = 503 <=> response.status = "unhealthy"
        /\ response.status = "healthy" <=> \A c \in Checks : response.services[c] = "ok"

\* A service is called "ok" only when its probe said so by its deadline, or
\* swallowed its cancellation and said so afterwards.  The second is against the
\* docstring of readiness_router, which has every probe past the deadline
\* reported as "timeout": that is so for probes that let the CancelledError out.
\* The types come with it.
OkWasSaid ==
    /\ TypeOK
    /\ \A c \in Checks :
         outcome[c] = "ok" =>
            IF endedBy[c] = "lateOk" THEN endedAt[c] >= Timeout
            ELSE endedBy[c] = "ok" /\ endedAt[c] <= Timeout

\* The probes run side by side: the answer takes one timeout, not their sum,
\* unless a probe swallows its cancellation and goes on.
AnsweredInTime == phase = "probing" /\ clock > Timeout => wentOn # {}

\* An orchestrator that asks gets an answer, whichever probes hang; only a
\* probe's own CancelledError leaves it without, and only a probe that goes on
\* after its cancellation can hold it up.
AnswerComes ==
    phase = "probing" ~>
        phase \in {"answered", "failed"} \/ \E c \in Checks : probe[c] = "goingOn"
=============================================================================
