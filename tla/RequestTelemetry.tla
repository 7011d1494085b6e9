--------------------------- MODULE RequestTelemetry ---------------------------
(***************************************************************************)
(* What a request tells about itself: the RequestTelemetry of one request, *)
(* worked on by the tasks and threads of the request (module               *)
(* StepTelemetry), beside the cache statistics that they and those of      *)
(* other requests record (module CacheStats), until the request answers    *)
(* and its header and summary are made of both.                            *)
(***************************************************************************)
EXTENDS StepTelemetry, CacheStats, ServerTiming

CONSTANTS
    Served,     \* the request the telemetry is about
    Services,   \* api_call_keys
    Unknown,    \* a service that is none of them
    MaxCalls,   \* bound on the calls counted for a service
    MaxText     \* bound on the length of a description

ASSUME RequestAssumption ==
    /\ Served \in Requests
    /\ Tasks \subseteq Workers
    /\ Unknown \notin Services

\* Nothing looks into a name or a duration: each is one character of its own.
ASSUME TokenAssumption ==
    /\ MaxText \in Nat
    /\ Steps \cap Chars = {}
    /\ {ToString(n) : n \in (-MaxClock)..MaxClock} \cap Chars = {}

VARIABLES
    order,      \* the keys of self.steps, in insertion order
    apiCalls,   \* self.api_calls
    answered    \* the request has made its header and its summary

allVars == <<vars, stats, order, apiCalls, answered>>

RequestInit ==
    /\ Init
    /\ StatsInit
    /\ order = <<>>
    /\ apiCalls = [s \in Services |-> 0]
    /\ answered = FALSE

-----------------------------------------------------------------------------
\* Who is in the middle of entering or leaving a step does nothing else; nor
\* does, if that one is on the loop, anybody else on the loop.
Free(t) == \A u \in Tasks : Midway(u) => u # t /\ (u \in threads \/ t \in threads)

\* A task or thread of the request is at work, and not inside a record.
Works(t) == ~ answered /\ Family(t) = Served /\ Ready(t) /\ Free(t)

StepBegins(t) == Works(t) /\ EnterLook(t) /\ UNCHANGED <<stats, order, apiCalls, answered>>

StepBegun(t, s) == ~ answered /\ Enter(t, s) /\ UNCHANGED <<stats, order, apiCalls, answered>>

StepEnds(t) == Works(t) /\ ExitLook(t) /\ UNCHANGED <<stats, order, apiCalls, answered>>

\* A step that ran before keeps its place in the dict.
StepEnded(t, how) ==
    /\ ~ answered
    /\ Exit(t, how)
    /\ LET name == Last(open[t]).name
       IN  order' = IF Contains(order, name) THEN order ELSE Append(order, name)
    /\ UNCHANGED <<stats, apiCalls, answered>>

\* A service that is no key is warned about and not counted.
RecordApiCall(t, service) ==
    /\ Works(t)
    /\ service \in Services => apiCalls[service] < MaxCalls
    /\ apiCalls' = [s \in Services |-> IF s = service THEN apiCalls[s] + 1 ELSE apiCalls[s]]
    /\ UNCHANGED <<vars, stats, order, answered>>

\* The cache statistics, by whoever is free to go on.
Recording ==
    /\ ~ answered
    /\ \/ \E h \in Helpers, r \in Requests, asThread \in BOOLEAN : Free(r) /\ Start(h, r, asThread)
       \/ \E t \in Workers : Free(t) /\ (InitCacheStats(t) \/ RecordRead(t) \/ RecordWrite(t))
    /\ UNCHANGED <<vars, order, apiCalls, answered>>

Answer ==
    /\ Works(Served)
    /\ open[Served] = <<>>
    /\ answered' = TRUE
    /\ UNCHANGED <<vars, stats, order, apiCalls>>

RequestNext ==
    \/ \E t \in Tasks :
         \/ StepBegins(t) \/ StepEnds(t)
         \/ \E s \in Steps : StepBegun(t, s)
         \/ \E how \in Hows : StepEnded(t, how)
         \/ \E service \in Services \cup {Unknown} : RecordApiCall(t, service)
    \/ Recording
    \/ Tick /\ ~ answered /\ UNCHANGED <<stats, order, apiCalls, answered>>
    \/ Answer

RequestSpec == RequestInit /\ [][RequestNext]_allVars

-----------------------------------------------------------------------------
(* The header and the summary                                              *)

\* as_server_timing: the steps in their order, then the total.
Legs(describe) ==
    LET leg(name) == [name |-> name, desc |-> describe[name], dur |-> ToString(steps[name].duration)]
    IN  [i \in 1..Len(order) |-> leg(order[i])] \o
        <<[name |-> "total", desc |-> describe["total"], dur |-> ToString(clock)]>>

\* send_to_posthog's properties: the step timings, the calls and the cache
\* statistics of the context it is called in, zeroes where there are none.
Summary ==
    [total |-> clock,
     steps |-> [i \in 1..Len(order) |-> steps[order[i]].duration],
     calls |-> apiCalls,
     cache |-> IF var[Served] = Unset THEN 0 ELSE value[var[Served]]]

-----------------------------------------------------------------------------
(* Properties                                                              *)

\* The summary event speaks of its own request, and never of more than there
\* was.  No step is timed longer than it took, and one nothing was entered in is
\* timed exactly, unless a thread crossed an entry or exit of another: tasks of
\* the loop do not.  The cache statistics were recorded on behalf of this
\* request, and are all that was recorded if none of it was recorded in a thread.
SummaryTruthful ==
    LET dict == var[Served]
    IN  answered =>
          /\ crossed => threads \cap Tasks # {}
          /\ ~ crossed => \A i \in 1..Len(order) :
               LET run == truth[order[i]]
               IN  /\ Summary.steps[i] <= run.spent
                   /\ run.alone => Summary.steps[i] = run.spent
          /\ IF dict = Unset THEN Summary.cache = 0
             ELSE /\ users[dict] \subseteq {Served}
                  /\ Summary.cache <= done[dict]
                  /\ dict \notin threaded => Summary.cache = done[dict]

Texts == UNION {[1..n -> Chars] : n \in 0..MaxText}

\* Whatever text a leg of the response's header is described with, the header
\* reads back as its legs: after each history of steps of a request
\* that works alone and counts nothing, as the header takes nothing of helpers,
\* calls and records.
HeaderReadsBack ==
    LET nothingElse == /\ made = 0
                       /\ \A h \in Helpers : ~ Started(h)
                       /\ \A s \in Services : apiCalls[s] = 0
    IN  answered /\ nothingElse =>
        \A text \in Texts : \A described \in SUBSET (ToSet(order) \cup {"total"}) :
            ReadsBack(Legs([n \in Steps \cup {"total"} |-> IF n \in described THEN text ELSE <<>>]))

-----------------------------------------------------------------------------
(* What makes the summary truthful                                         *)

\* The timings are of steps that ran.
OrderInv == order \in Seq(Steps) /\ \A i \in 1..Len(order) : steps[order[i]].ran

\* Only a thread crosses, or is crossed by, another.
CrossedByThreads == crossed => threads \cap Tasks # {}

RequestInv == StepsInv /\ StatsInv /\ OrderInv /\ CrossedByThreads
=============================================================================
