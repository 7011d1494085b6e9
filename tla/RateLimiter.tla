----------------------------- MODULE RateLimiter -----------------------------
(***************************************************************************)
(* _RateLimitedPosthog: a token bucket in front of a PostHog client's      *)
(* capture, shared by the threads of a process.                            *)
(*                                                                         *)
(* A call is three steps that other threads interleave with: the section   *)
(* under _bucket_lock (admission, drop accounting, snapshot of a due       *)
(* report), the forwarded capture outside the lock, and the emission of    *)
(* the snapshot, outside the lock too.  flush and shutdown drain under the *)
(* lock, emit outside it, then call the wrapped client.                    *)
(*                                                                         *)
(* Tokens are counted in grains, Unit grains to one token, so that a tick  *)
(* may refill a fraction of a token; the burst is at least one token       *)
(* because _rate_limit_config clamps it.                                   *)
(***************************************************************************)
EXTENDS Integers, Sequences, FiniteSets

CONSTANTS
    Threads,        \* threads that share the client
    Events,         \* event names callers capture
    ExemptEvents,   \* those listed in POSTHOG_RATELIMIT_EXEMPT_EVENTS
    Unit,           \* grains in one token
    Rate,           \* grains refilled per tick (events_per_minute / 60)
    Burst,          \* capacity of the bucket, in grains
    Interval,       \* _REPORT_INTERVAL_SECONDS, in ticks
    SampleLimit,    \* _SAMPLE_LIMIT
    SdkRaises,      \* whether the wrapped client's capture may raise
    MaxClock,       \* bound on the clock
    MaxCaptures     \* bound on the gated captures

ASSUME BucketAssumption ==
    /\ Unit \in Nat \ {0}
    /\ Rate \in Nat
    /\ Burst \in Nat
    /\ Burst >= Unit

ASSUME ReportAssumption ==
    /\ Interval \in Nat
    /\ SampleLimit \in Nat
    /\ SdkRaises \in BOOLEAN

VARIABLES
    clock,          \* time.monotonic()
    tokens,         \* _tokens, in grains
    lastRefill,     \* _last_refill
    droppedSince,   \* _dropped_since_report
    samples,        \* _dropped_samples
    lastReportAt,   \* _last_report_at; Never stands for None
    call,           \* what each thread is in the middle of
    innerUp,        \* the wrapped client has not been shut down
    admits,         \* history: times of the admissions
    drops,          \* history: names of the dropped captures, the ids are 1..Len(drops)
    reported,       \* history: ids of drops whose report reached _emit_report's end
    lost,           \* history: ids of drops whose report a raising capture took along
    delivered,      \* history: ids of drops whose report was handed to a live client
    reports         \* history: the reports built, with their times

bucket == <<tokens, lastRefill>>
accounting == <<droppedSince, samples, lastReportAt, reports>>
fates == <<reported, delivered, lost>>
vars == <<clock, tokens, lastRefill, droppedSince, samples, lastReportAt,
          call, innerUp, admits, drops, reported, delivered, lost, reports>>

Never == -1

\* A report of n drops, the last of them being the drop numbered upto.
Snapshot(n, names, upto) == [count |-> n, sample |-> names, upto |-> upto]
NoReport == Snapshot(0, {}, 0)
Covered(r) == (r.upto - r.count + 1)..r.upto

Idle == [pc |-> "idle", op |-> "capture", report |-> NoReport]

Init ==
    /\ clock = 0
    /\ tokens = Burst
    /\ lastRefill = 0
    /\ droppedSince = 0
    /\ samples = {}
    /\ lastReportAt = Never
    /\ call = [t \in Threads |-> Idle]
    /\ innerUp = TRUE
    /\ admits = <<>>
    /\ drops = <<>>
    /\ reported = {}
    /\ delivered = {}
    /\ lost = {}
    /\ reports = <<>>

-----------------------------------------------------------------------------
(* The section under the lock                                              *)

\* The bucket after a refill at time s.
Refilled(s) ==
    LET full == tokens + (s - lastRefill) * Rate
    IN  IF full < Burst THEN full ELSE Burst

HasToken(level) == level >= Unit

Due(s) == lastReportAt = Never \/ s - lastReportAt >= Interval

\* The sample list after dropping e: distinct names, never more than the limit.
Sampled(e) ==
    IF Cardinality(samples) < SampleLimit THEN samples \cup {e} ELSE samples

\* Mutants: one half of the reset is forgotten.
ResetSamplesOnly == samples' = {} /\ UNCHANGED droppedSince
ResetCountOnly == droppedSince' = 0 /\ UNCHANGED samples

ResetAccounting == droppedSince' = 0 /\ samples' = {}

\* Mutant: a forced drain does not restart the interval.
StampUnforced(s, forced) == IF forced THEN UNCHANGED lastReportAt ELSE lastReportAt' = s

Stamp(s, forced) == lastReportAt' = s

\* _build_report_locked: report r is taken at time s and the accounting reset.
BuildReport(s, r, forced) ==
    /\ Stamp(s, forced)
    /\ ResetAccounting
    /\ reports' = Append(reports, [at |-> s, forced |-> forced, built |-> r])

KeepCounting(n, names) ==
    /\ droppedSince' = n
    /\ samples' = names
    /\ UNCHANGED <<lastReportAt, reports>>

\* Where thread t goes on from the lock: pc "forward" when the capture was
\* admitted, "emit" when only a report is left to do.
Proceed(t, op, pc, report) ==
    call' = [call EXCEPT ![t] = [pc |-> pc, op |-> op, report |-> report]]

\* A capture admitted at time s.  It takes a due report of earlier drops along.
AdmitAt(t, s) ==
    /\ HasToken(Refilled(s))
    /\ tokens' = Refilled(s) - Unit
    /\ lastRefill' = s
    /\ admits' = Append(admits, s)
    /\ UNCHANGED drops
    /\ IF droppedSince > 0 /\ Due(s)
         THEN LET r == Snapshot(droppedSince, samples, Len(drops))
              IN  BuildReport(s, r, FALSE) /\ Proceed(t, "capture", "forward", r)
         ELSE /\ KeepCounting(droppedSince, samples)
              /\ Proceed(t, "capture", "forward", NoReport)
    /\ UNCHANGED <<clock, innerUp, fates>>

\* A capture dropped at time s: counted, sampled and reported at once if due.
DropAt(t, e, s) ==
    /\ ~ HasToken(Refilled(s))
    /\ tokens' = Refilled(s)
    /\ lastRefill' = s
    /\ drops' = Append(drops, e)
    /\ UNCHANGED admits
    /\ IF Due(s)
         THEN LET r == Snapshot(droppedSince + 1, Sampled(e), Len(drops) + 1)
              IN  BuildReport(s, r, FALSE) /\ Proceed(t, "capture", "emit", r)
         ELSE /\ KeepCounting(droppedSince + 1, Sampled(e))
              /\ UNCHANGED call
    /\ UNCHANGED <<clock, innerUp, fates>>

MayCapture(t, e) ==
    /\ call[t].pc = "idle"
    /\ e \notin ExemptEvents
    /\ Len(admits) + Len(drops) < MaxCaptures

\* The clock is read inside the lock.
CaptureAdmitted(t, e) == MayCapture(t, e) /\ AdmitAt(t, clock)

\* Mutant: the clock is read before the lock, which may be taken much later.
CaptureDroppedAtStaleTime(t, e) == MayCapture(t, e) /\ \E s \in 0..clock : DropAt(t, e, s)

CaptureDropped(t, e) == MayCapture(t, e) /\ DropAt(t, e, clock)

\* An exempt name goes straight to the wrapped client: no lock, no bucket.
CaptureExempt(t, e) ==
    /\ call[t].pc = "idle"
    /\ e \in ExemptEvents
    /\ Proceed(t, "capture", "forward", NoReport)
    /\ UNCHANGED <<clock, bucket, accounting, innerUp, admits, drops, fates>>

\* Mutant: the drain waits for the interval like any other report.
DrainsWhenDue == droppedSince > 0 /\ Due(clock)

DrainsWhen == droppedSince > 0

\* _drain_pending_report under the lock, whatever the interval says.
Drain(t, op) ==
    /\ call[t].pc = "idle"
    /\ LET r == Snapshot(droppedSince, samples, Len(drops))
       IN  IF DrainsWhen
             THEN BuildReport(clock, r, TRUE) /\ Proceed(t, op, "emit", r)
             ELSE UNCHANGED accounting /\ Proceed(t, op, "inner", r)
    /\ UNCHANGED <<clock, bucket, innerUp, admits, drops, fates>>

Flush(t) == Drain(t, "flush")
Shutdown(t) == Drain(t, "shutdown")

-----------------------------------------------------------------------------
(* Outside the lock                                                        *)

\* Mutant: capture returns the SDK's result without emitting the report.
ForwardedThenDone(c) == Idle

\* After the forwarded capture: the report it carries, if any, is next.
Forwarded(c) == IF c.report.count = 0 THEN Idle ELSE [c EXCEPT !.pc = "emit"]

\* The admitted capture reaches the wrapped client, then the report if any.
Forward(t) ==
    /\ call[t].pc = "forward"
    /\ call' = [call EXCEPT ![t] = Forwarded(@)]
    /\ UNCHANGED <<clock, bucket, accounting, innerUp, admits, drops, fates>>

\* The wrapped client raises: capture raises too, before the report is emitted.
ForwardRaises(t) ==
    /\ SdkRaises
    /\ call[t].pc = "forward"
    /\ lost' = lost \cup Covered(call[t].report)
    /\ call' = [call EXCEPT ![t] = Idle]
    /\ UNCHANGED <<clock, bucket, accounting, innerUp, admits, drops, reported, delivered>>

\* _emit_report logs the counts, then hands the report to the wrapped client,
\* to no avail if that was shut down; what the client raises is swallowed.
EmitReport(t) ==
    /\ call[t].pc = "emit"
    /\ reported' = reported \cup Covered(call[t].report)
    /\ delivered' = IF innerUp THEN delivered \cup Covered(call[t].report) ELSE delivered
    /\ call' = [call EXCEPT ![t] =
                  IF call[t].op = "capture" THEN Idle
                  ELSE [@ EXCEPT !.pc = "inner"]]
    /\ UNCHANGED <<clock, bucket, accounting, innerUp, admits, drops, lost>>

\* The wrapped client's own flush or shutdown ends the call.
CallInner(t) ==
    /\ call[t].pc = "inner"
    /\ innerUp' = (innerUp /\ call[t].op # "shutdown")
    /\ call' = [call EXCEPT ![t] = Idle]
    /\ UNCHANGED <<clock, bucket, accounting, admits, drops, fates>>

Tick ==
    /\ clock < MaxClock
    /\ clock' = clock + 1
    /\ UNCHANGED <<bucket, accounting, call, innerUp, admits, drops, fates>>

\* What a thread does after it left the lock.
Finish(t) == Forward(t) \/ ForwardRaises(t) \/ EmitReport(t) \/ CallInner(t)

Next ==
    \/ \E t \in Threads :
         \/ \E e \in Events :
              CaptureAdmitted(t, e) \/ CaptureDropped(t, e) \/ CaptureExempt(t, e)
         \/ Flush(t)
         \/ Shutdown(t)
         \/ Finish(t)
    \/ Tick

Spec == Init /\ [][Next]_vars

-----------------------------------------------------------------------------
(* Properties                                                              *)

Pending == (Len(drops) - droppedSince + 1)..Len(drops)

InFlight(t) ==
    IF call[t].pc \in {"forward", "emit"} THEN Covered(call[t].report) ELSE {}

Reports ==
    {r \in [count : Nat, sample : SUBSET Events, upto : Nat] : r.count <= r.upto}

Calls == [pc : {"idle", "forward", "emit", "inner"},
          op : {"capture", "flush", "shutdown"},
          report : Reports]

\* Every variable has its type and the bucket stays between empty and full.
TypeOK ==
    /\ clock \in Nat
    /\ tokens \in 0..Burst
    /\ lastRefill \in 0..clock
    /\ droppedSince \in 0..Len(drops)
    /\ samples \in SUBSET Events
    /\ lastReportAt \in {Never} \cup Nat
    /\ call \in [Threads -> Calls]
    /\ innerUp \in BOOLEAN
    /\ admits \in Seq(Nat)
    /\ drops \in Seq(Events)
    /\ reported \in SUBSET Nat
    /\ delivered \in SUBSET Nat
    /\ lost \in SUBSET Nat
    /\ reports \in Seq([at : Nat, forced : BOOLEAN, built : Reports])

\* The limiter's promise: whatever the threads do, the captures admitted
\* between any two admissions fit the burst plus the sustained rate.
AdmissionBound ==
    \A i \in 1..Len(admits) : \A j \in i..Len(admits) :
        (j - i + 1) * Unit <= Burst + Rate * (admits[j] - admits[i])

\* What the window from the i-th admission of history h has left at time s.
Slack(h, i, s) == Burst + Rate * (s - h[i]) - (Len(h) - i + 1) * Unit

\* Why the bound holds and is exact: the bucket is the smallest slack of the
\* windows at the last refill, or full.
BucketIsSmallestSlack ==
    /\ \A i \in 1..Len(admits) : admits[i] <= lastRefill
    /\ \A i \in 1..Len(admits) : tokens <= Slack(admits, i, lastRefill)
    /\ tokens = Burst \/ \E i \in 1..Len(admits) : tokens = Slack(admits, i, lastRefill)

\* The bucket admits exactly what the windows allow: no capture too many and
\* no capture refused that fits (no token is lost to preemption).
Budget == INSTANCE WindowedBudget WITH now <- clock, refusals <- Len(drops)
ImplementsBudget == Budget!Spec

\* The reports built so far and the pending drops tile the drops in order: no
\* drop is counted by two reports and none falls between two of them.
ReportsTileDrops ==
    LET last(i) == IF i = 0 THEN 0 ELSE reports[i].built.upto
    IN  /\ \A i \in 1..Len(reports) :
              reports[i].built.upto - reports[i].built.count = last(i - 1)
        /\ Len(drops) - droppedSince = last(Len(reports))

\* A report names distinct events it dropped, as many as the limit lets it.
ReportSamplesItsDrops ==
    \A i \in 1..Len(reports) :
        LET r == reports[i].built
            names == {drops[d] : d \in Covered(r)}
        IN  /\ r.sample \subseteq names
            /\ \/ r.sample = names
               \/ Cardinality(r.sample) = SampleLimit

\* Reports are neither late nor too many.  A gated capture that leaves drops
\* pending leaves them within the interval of the last report, so the first drop
\* after a quiet stretch never waits; and a report that no lifecycle call forced
\* keeps the interval from the one before it, forced or not.
ReportsOnTime ==
    /\ droppedSince > 0 => lastReportAt # Never /\ lastRefill - lastReportAt < Interval
    /\ \A j \in 2..Len(reports) :
         reports[j].forced \/ reports[j].at - reports[j - 1].at >= Interval

\* A drop is pending, or in a report some thread still carries, or reported.
\* The one way to lose it is a wrapped client that raises out of a capture
\* which had a report to emit after it.
EveryDropAccounted ==
    /\ 1..Len(drops) \subseteq
         Pending \cup reported \cup lost \cup UNION {InFlight(t) : t \in Threads}
    /\ lost # {} => SdkRaises

\* A flush or a shutdown leaves no drop behind: each one made before it drained
\* ends in a report, whoever carries that by then, or goes down with a capture
\* that raised.  A drop made afterwards may wait for ever.
DropsEventuallyReported ==
    \A d \in 1..MaxCaptures :
        (\E t \in Threads : call[t].op # "capture" /\ d <= call[t].report.upto)
            ~> d \in reported \cup lost

\* A flood's tail survives the shutdown: when the first shutdown ends, every
\* drop made before it drained was handed to the client that was still up, but
\* for what another thread cut from the counters earlier and still carries, or
\* lost with a capture that raised.
ShutdownDeliversTail ==
    [][\A t \in Threads :
         call[t].pc = "inner" /\ call[t].op = "shutdown" /\ innerUp /\ ~ innerUp'
           => 1..call[t].report.upto \subseteq
                delivered \cup lost \cup UNION {InFlight(u) : u \in Threads}]_vars
=============================================================================
