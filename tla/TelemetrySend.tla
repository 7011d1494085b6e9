----------------------------- MODULE TelemetrySend -----------------------------
(***************************************************************************)
(* RequestTelemetry.send_to_posthog over the rate-limited client: threads  *)
(* that serve requests send their step events and their summary, one       *)
(* capture after the other, while other threads capture too, flush the     *)
(* client and shut it down.                                                *)
(*                                                                         *)
(* A capture is the limiter's, with all its steps (module RateLimiter); a  *)
(* capture that raises ends the send.  The loop over the steps is a loop   *)
(* over a dict: when a helper thread of the request ends a step of a new   *)
(* name meanwhile, the iteration raises.                                   *)
(***************************************************************************)
EXTENDS RateLimiter, SequencesExt

CONSTANTS
    Requests,   \* the threads that serve a request
    Steps,      \* names of the step events
    Summary     \* the name of each request's summary event

ASSUME SendAssumption ==
    /\ Requests \subseteq Threads
    /\ Steps \subseteq Events
    /\ Summary \in [Requests -> Events \ Steps]

VARIABLES
    emits,      \* emit_step_events of each request's telemetry
    steps,      \* the keys of its dict of steps, in insertion order
    phase,      \* each request's send: "before", "sending", "returned", "raised"
    loop,       \* how many steps the send's loop goes over
    sent        \* the captures of the send so far: time, and whether one was dropped

telemetry == <<emits, steps, phase, loop, sent>>
allVars == <<vars, telemetry>>

SendInit ==
    /\ Init
    /\ emits \in [Requests -> BOOLEAN]
    /\ steps = [r \in Requests |-> <<>>]
    /\ phase = [r \in Requests |-> "before"]
    /\ loop = [r \in Requests |-> 0]
    /\ sent = [r \in Requests |-> <<>>]

-----------------------------------------------------------------------------
(* A request                                                               *)

\* track_step ends under a name that is new to the dict.
StepEnds(r, s) ==
    /\ phase[r] \in {"before", "sending"}
    /\ ~ Contains(steps[r], s)
    /\ steps' = [steps EXCEPT ![r] = Append(@, s)]
    /\ UNCHANGED <<vars, emits, phase, loop, sent>>

BeginSend(r) ==
    /\ phase[r] = "before"
    /\ phase' = [phase EXCEPT ![r] = "sending"]
    /\ loop' = [loop EXCEPT ![r] = IF emits[r] THEN Len(steps[r]) ELSE 0]
    /\ UNCHANGED <<vars, emits, steps, sent>>

\* The last capture has returned, and n captures are done.
AtNext(r) == phase[r] = "sending" /\ call[r].pc = "idle"
Done(r) == Len(sent[r])

\* The dict has grown under the loop; its last look is before the summary.
Grown(r) == emits[r] /\ Done(r) <= loop[r] /\ Len(steps[r]) # loop[r]

\* Mutant: the summary goes out before the step events.
SummaryFirst(r) == IF Done(r) = 0 THEN Summary[r] ELSE steps[r][Done(r)]

NextEvent(r) == IF Done(r) < loop[r] THEN steps[r][Done(r) + 1] ELSE Summary[r]

SendEvent(r) ==
    /\ AtNext(r)
    /\ Done(r) <= loop[r]
    /\ ~ Grown(r)
    /\ LET e == NextEvent(r)
       IN  \/ CaptureAdmitted(r, e) \/ CaptureDropped(r, e) \/ CaptureExempt(r, e)
    /\ sent' = [sent EXCEPT ![r] =
              Append(@, [event |-> NextEvent(r), at |-> clock, dropped |-> drops' # drops])]
    /\ UNCHANGED <<emits, steps, phase, loop>>

SendReturns(r) ==
    /\ AtNext(r)
    /\ Done(r) > loop[r]
    /\ phase' = [phase EXCEPT ![r] = "returned"]
    /\ UNCHANGED <<vars, emits, steps, loop, sent>>

\* "dictionary changed size during iteration"
IterationRaises(r) ==
    /\ AtNext(r)
    /\ Grown(r)
    /\ phase' = [phase EXCEPT ![r] = "raised"]
    /\ UNCHANGED <<vars, emits, steps, loop, sent>>

CaptureRaises(r) ==
    /\ ForwardRaises(r)
    /\ phase' = [phase EXCEPT ![r] = "raised"]
    /\ UNCHANGED <<emits, steps, loop, sent>>

-----------------------------------------------------------------------------
\* What a thread does after it left the limiter's lock.
Ends(t) ==
    \/ (Forward(t) \/ EmitReport(t) \/ CallInner(t)) /\ UNCHANGED telemetry
    \/ IF t \in Requests THEN CaptureRaises(t) ELSE ForwardRaises(t) /\ UNCHANGED telemetry

\* The rest of the process captures, flushes and shuts the client down.
Uses(t) ==
    /\ (\E e \in Events : CaptureAdmitted(t, e) \/ CaptureDropped(t, e) \/ CaptureExempt(t, e))
       \/ Flush(t) \/ Shutdown(t)
    /\ UNCHANGED telemetry

SendNext ==
    \/ \E r \in Requests :
         \/ \E s \in Steps : StepEnds(r, s)
         \/ BeginSend(r) \/ SendEvent(r) \/ SendReturns(r) \/ IterationRaises(r)
    \/ \E t \in Threads \ Requests : Uses(t)
    \/ \E t \in Threads : Ends(t)
    \/ Tick /\ UNCHANGED telemetry

SendSpec == SendInit /\ [][SendNext]_allVars

\* A thread that left the lock runs on.  No call is owed: nothing need capture,
\* flush or shut down ever again.
FairSendSpec == SendSpec /\ \A t \in Threads : WF_allVars(Ends(t))

-----------------------------------------------------------------------------
(* Properties                                                              *)

\* When the bucket runs dry within a send, what is missing is the end of it:
\* after a dropped capture none of the same send passes until time refills the
\* bucket, unless its name is exempt.  The summary is the first to be lost.
SurvivorsComeFirst ==
    \A r \in Requests : \A j \in 1..Len(sent[r]) : \A i \in 1..j :
        sent[r][i].dropped /\ ~ sent[r][j].dropped
            => sent[r][j].at > sent[r][i].at \/ sent[r][j].event \in ExemptEvents

\* The summary of a send that ran to its end is not lost unseen: it passed, or it
\* is a drop that a report has told of, tells of or will.  A send that raised (a
\* capture before the summary, or a step ended under the loop) is not spoken of:
\* its summary is lost and nothing tells.
SummaryAccounted ==
    \A r \in Requests :
        phase[r] = "returned" =>
            /\ Last(sent[r]).event = Summary[r]
            /\ Last(sent[r]).dropped =>
                 \E d \in Pending \cup reported \cup lost \cup UNION {InFlight(t) : t \in Threads} :
                    drops[d] = Summary[r]
=============================================================================
