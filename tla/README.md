# Verification of wxyc-fastapi

TLA+ models of the library's concurrent and stateful parts, TLC configurations
that check them on small instances, and TLAPS proofs of the results that should
hold for every instance. The reference is the code under
`src/src/wxyc_fastapi/`; `PROJECT.json` maps every definition to the lines it
translates.

- `X.tla` is the model of a component, with its properties at the end.
- `MCX.tla` and `X*.cfg` give its constants values for TLC.
- `XProofs.tla` extends `X.tla` with theorems; some prove about more than one
  module: `RateLimiterProofs` also about `TelemetrySend`, `ReportingOverGateProofs`
  about `ErrorReporting`, `RequestTelemetryProofs` about `StepTelemetry`,
  `CacheStats` and `ServerTiming`, and `ServiceProofs` about `Readiness`, `RequestContext` and `LazyPg`.
- `WindowedBudget.tla` and `ResourceSlot.tla` are abstract specifications:
  `RateLimiter` is shown to implement the first, `AsyncSingleton` and
  `PosthogSingleton` the second.
- Three modules compose others: `TelemetrySend` (a send over `RateLimiter`),
  `ReportingOverGate` (`ErrorReporting` over `ErrorsGate`) and `RequestTelemetry`
  (`StepTelemetry`, `CacheStats` and `ServerTiming`). They carry the steps of their
  parts unchanged; the gate is checked alone as well, the others where they meet.

To check a run: `tlc -config TelemetrySend.cfg MCTelemetrySend`. To check the
proofs of a module: `tlapm RateLimiterProofs.tla`.

## 1. Inventory

The package is a set of independent helpers for FastAPI services. Its state is
module globals, context variables and a few objects shared by threads. Nothing
is persisted: a crash loses what is in memory, and the questions about ends are
questions about orderly shutdown and `atexit`.

| component | state | operations | made hard by |
|---|---|---|---|
| analytics limiter, `observability/posthog.py` `_RateLimitedPosthog` | bucket level and time, drop counter, samples, time of the last report | `capture`, `flush`, `shutdown` | the report is cut under a lock and emitted outside it; the wrapped client may raise; forced and timed reports; fractions of tokens |
| analytics client, same file | `_client`, `_warned_prefixes`, `_lock` | `get_posthog_client`, `flush_posthog`, `shutdown_posthog` | only the getter takes the lock; the SDK's shutdown is slow |
| errors gate, `observability/errors.py` `_admit` | bucket, table of fingerprints, drop counter, time of the last warning | `_admit` | dedupe, bucket and a bounded table must agree about time |
| capture of exceptions, `errors.py`, `error_tracking.py` | the mark on an exception, `_emitting` per thread | `capture_exception`, `PosthogErrorsHandler.emit`, the middleware, the 500 handler, the hooks, the shim | up to six reporters see one failure; a log record made while sending |
| errors client, same files | `_client`, `_config`, `_init_failed`, `_warned_conflicts`, `atexit` hooks, root handlers, excepthooks | `get_posthog_errors_client`, `shutdown_posthog_errors`, `init_error_tracking` | failing builds, shutdown without the lock, LIFO order of exit hooks |
| request context, same files | `request_id_var`, `_breadcrumbs_var`, `_error_tags_var` | `RequestIdMiddleware`, `add_breadcrumb`, `set_error_tag`, the event's properties | contexts are copied to tasks that outlive the request; the 500 handler runs outside the middleware |
| async singleton, `http/singleton.py` | the cached resource, an `asyncio.Lock` | getter, closer | failing and cancelled factories, cancelled waiters, teardown across an await |
| readiness, `healthcheck/readiness.py` | one gather per request | `GET /health/ready` | deadlines, probes that swallow their cancellation |
| telemetry, `observability/telemetry.py` | `steps`, `_step_start`, call counters | `track_step`, `record_api_call`, `as_server_timing`, `send_to_posthog` | one start time for nested and sibling steps; a send is several captures, over a dict that may grow; free text in a header |
| cache statistics, `observability/cache_stats.py` | a dict in a `ContextVar` | `init_cache_stats`, `CacheStatsRecorder` | the dict is shared with the tasks and threads of the request |
| lazy PostgreSQL, `db/lazy_pg.py` | `_conn` | `get` | `.closed` is what the client knows, not what the server has; connects that fail |
| test isolation, `testing.py` `isolated_error_tracking` | what a block saved | entering and leaving a block | blocks nest; not all of the process's state is put aside |
| limit configuration, `posthog.py` `_rate_limit_config` | none (read when the client is built) | the two variables' values | a fraction of a token, nan, infinities |
| the rest | none, or test state | liveness, environment names, the other test helpers | - |

How they interact. `get_posthog_client` builds the SDK client and wraps it in
the limiter; telemetry sends through whatever it is given, usually that client, and takes
its cache properties from the cache statistics of the context it is called in.
`init_error_tracking` gets the errors client and wires it into the root logger,
the excepthooks, the middleware and the 500 handler; each of these ends in
`PosthogErrorsClient.capture_exception`, which asks the gate and takes id,
trail and tags from the request context. `isolated_error_tracking` swaps the
errors client's globals and wiring for a test's block. Async singleton,
readiness and lazy PostgreSQL use nothing of the others.

What makes each correct, in a line: the limiter admits exactly what its windows
allow and accounts for each drop; a singleton has one live resource and loses
none; the gate never repeats itself within the window and never spends tokens
on repeats; a failure is one event, or none because the gate refused it
everywhere; an event tells of its own request only; readiness answers in one
timeout with what the probes said; telemetry and statistics are not more than
what happened and of one request, the header reads back as what was written,
and a summary is not lost unseen; the lazy connection leaves no session behind
and recovers.

`PROJECT.json` lists the hazards, each at its line with the properties that
cover it.

## 2. Models

The granularity follows the code. Threads: a section under a lock is one step,
every access of shared state outside one is a step of its own. Tasks of an event
loop: what lies between two awaits is one step. Time is a clock in ticks that
advances when it likes (except in `Readiness`, where the loop's readiness to run
bounds it). Variables called history in the comments are read by properties
only. A definition under the comment `Mutant:` is a plausible bug that the
specification does not use; replacing the named definition by it must break the
property `PROJECT.json` pairs it with.

**RateLimiter** (posthog.py 110-265). Per thread `call` says where it is: in no
call, about to forward an admitted capture, about to emit a report, about to
call the wrapped client's flush or shutdown. `CaptureAdmitted`, `CaptureDropped`,
`Drain` are the sections under `_bucket_lock`; `Forward`, `ForwardRaises`,
`EmitReport`, `CallInner` what follows them. A token is `Unit` grains, so that
one tick refills a fraction of a token as `events_per_minute / 60` does; the
model's arithmetic is exact where the code's is floating point. The samples are a
set: their order tells nothing. Whether the SDK's capture raises is the constant
`SdkRaises`.

**TelemetrySend** (telemetry.py 139-169, 274-308). Extends `RateLimiter`: the
threads that serve requests do nothing but `send_to_posthog`, one capture after
the other with all the limiter's steps between them; the other threads capture,
flush and shut down as they like (`Uses`). `steps` is the sequence of the dict's keys. The loop's check
that the dict has not grown is made where CPython makes it, at every `next`, the
last one included (`Grown`); what ends steps under the loop is a helper of the
request. A capture that raises ends the send (`CaptureRaises`).

**PosthogSingleton** (posthog.py 281-401). One step for each read or write of
`_client`, the getter's under `_lock`. `target` is the client a slow
`shutdown()` works on. `env` is what the two limit variables hold, a number or
one of the kinds of text that give the default, and `limit` what
`RateLimitConfig` made of it when the client was built; numbers are in grains
of a token, as in `RateLimiter`. For `ResourceSlot` a client is in the slot from its
construction to the start of its shutdown (`Cached`), although `_client` is set
after the one and cleared after the other.

**ErrorsGate** (errors.py 221-270). `_admit` is one step: `DropDuplicate`,
`DropOverBudget` or `Admit`. `Kept` is the set of tables an eviction may leave:
the expired entries go, and if that is not enough the oldest, any of the oldest
where `min` has ties.

**ErrorReporting** (errors.py 125-215, 289-330; error_tracking.py 146-227). A
carrier is a thread of control with one exception on its way out: through the
application's own reports, then middleware, 500 handler and the server's log
record, or through an excepthook. A capture is the steps `Check` (the mark),
`GateAdmits` or `GateRefuses`, `Send`, `Mark`; during `Send` the SDK may log, which
is a nested capture. Carriers may share an exception object (`Carries`), and the
type of one may refuse the mark (`Unmarkable`, errors.py 341-344). Events and
refusals are counted for each carrier. The gate is free to admit or refuse, so the results hold
for the real one. A send that raises is swallowed and counts as a hand-over.

**ReportingOverGate** (errors.py 121-208 with the two modules' lines). The same
reporters with `ErrorsGate` as an instance: `Admitted` and `Refused` join a step of
each. `Fingerprint` is the reporter's name, the exception's type, and, but for
the logging handler, its message; types and messages are model values, so a
failure may be alike to another or not. A reporter past the application's code
awaits nothing, so one such capture runs at a time (`HasTheLoop`).

**ErrorsLifecycle** (errors.py 466-539; error_tracking.py 88-97, 195-227). The
getter's steps under `_lock`, shutdown's without it, and the wiring. A build
appends the SDK's `atexit` join hook. The closer tests `_client` and reads it again
for its shutdown (`ShutdownCheck`, `ShutdownCall`); `overlapped` remembers that two
were past that test at once. `EnterBlock` and
`ExitBlock` are `isolated_error_tracking` (testing.py 167-193): blocks nest, what
is saved is a stack, and inside a block a build makes a stub, which opens
nothing and puts no hook of its own on `atexit`. The helper takes the handlers off
for the block but not the excepthooks, so a block's hook is chained to those
around it (`OuterHooks`). Blocks begin and end while no
call is under way, as the helper takes no lock.

**RequestContext** (error_tracking.py 130-192; errors.py 353-442, 148-184). A
context holds the id and the trail with its tags; a server context serves
requests one after the other, a child copies a context when it starts. The
middleware stacks when the application holds it twice. Crumbs carry the request
that made them, which only the properties read.

**AsyncSingleton** (singleton.py 75-100). The getter's two checks, the factory,
the closer's take-then-tear-down. `asyncio.Lock` is modelled with its own steps
(external): release signals the head of the queue, which takes the lock when it
runs; a cancelled waiter that was signalled passes the signal on. A factory or
teardown that raises or is cancelled is the same step as far as state goes.

**Readiness** (readiness.py 78-145). Each probe runs, is cancelled by
`wait_for`'s timer, or has ended in one of `Ways`: "ok", another value, an
exception, a `TimeoutError` of its own, a `CancelledError` of its own, and
after the cancellation the `CancelledError`, an exception, or a return of "ok"
or another value that swallows it ("lateOk", "lateOther"). A probe that swallows it may also go on (`GoOn`) for as
long as it likes: nothing cancels it again. `OutcomeOf` is the except clauses,
`AggregateStatus` the sum. `wait_for` is that of Python 3.12 and later, which
the package requires.

**StepTelemetry** (telemetry.py 96-170). Entering and leaving `track_step`, by
tasks with stacks of open blocks and one shared `stepStart`. Each is two steps:
the call of `perf_counter` (`EnterLook`, `ExitLook`), and the use of its result
(`Enter`, `Exit`), between which a thread may be switched out. `crossed` remembers
that an entry or exit began while another was under way.

**CacheStats** (cache_stats.py 29-134). `record` is a read and a write; code on
the loop does both with no other task in between, threads interleave. One key
stands for all.

**ServerTiming** (telemetry.py 51-93, 238-253). Operators only: text is a
sequence of kinds of characters, a name or a duration is one character of no
such kind (`TokenAssumption`), `SanitizeDesc`, `Render` and `Header` are the
code's, and `ReadHeader` is a reader that splits at every comma and semicolon, as
the one the source's comment names, and unquotes as RFC 7230 says.

**RequestTelemetry** (telemetry.py 133-302). The steps of `StepTelemetry` taken
by the tasks and threads of one request of `CacheStats` (`Free`: on the loop nobody
comes between the two halves of an entry or exit, a thread may), the call counters, and `Answer`, at
which `Legs` and `Summary` are what the header and the summary event say.

**LazyPg** (lazy_pg.py 54-69). `get` is a check, a connect and a return; the
server may drop a session, go away with all of them, and come back. `closed`
(what psycopg knows) and `live` (what the server has) are apart: an operation on
a lost session fails and closes it. `failures` counts such operations for each
caller and connection.

## 3. Runs

| run | instance | shows |
|---|---|---|
| `telemetry_send` | 1 request with a step and a summary, 1 thread that captures, flushes and shuts down; 2 gated names and an exempt one, burst 5/4 token, refill 1/2, interval 1, clock to 2, 4 captures, an SDK that may raise | no stretch of captures exceeds burst plus rate, and none is refused that fits (`ImplementsBudget`); the reports cut tile the drops, name only what they count, come when due and, if not forced, no earlier; a drop is lost only with a report that a raising capture took along; what a flush or shutdown finds pending reaches a report, and the first shutdown leaves none of it undelivered but what another thread carries; when the bucket runs dry it is the end of a send that is lost; a send that ran to its end has its summary passed or in the drops' accounts |
| `posthog_singleton` | 2 getters, 1 flusher, 2 closers, 3 clients; rate and burst each unset, text, nan, inf, negative, 0, half a token or 2 tokens | until two shutdowns overlap: one open client, none orphaned, each built into an empty slot and ended by the one shutdown that took it (`ImplementsSlot`); a limit lets a token through and is off only on request |
| `errors_gate` | 4 fingerprints, window 2, table of 3, clock to 5, 6 records | a table that `CapacitySuffices` describes makes dedupe exact; drops have a reason; warnings tile the drops, an interval apart |
| `reporting_over_gate` | 2 requests that fail with the same type, alike or not, and a thread that carries the exception object of the first, which the code may report itself; the exception of the second refuses the mark; burst 3/2, window 1, a table of 4, clock to 1, 2 records of the SDK's | nobody has two events sent of an exception that can be marked, a mark comes only with an event, nesting of one; a failure without an event was refused by every reporter, and either no token was left or one of the same type and message was sent within the window |
| `errors_lifecycle` | one thread of init, one of get and two of shutdown, 2 configurations, 3 clients, 1 failing build, 2 shutdowns, 2 blocks, nested or not | our exit hook runs before the SDK's join; one open client until two shutdowns overlap; handler and hooks on one client; client, handler and remembered failure stay in their block, and a block adds one excepthook at most to the chain it found |
| `request_context` | 2 servers, 1 child, 2 requests, nested middleware, trail of 2 with 3 entries | events of one request only, the trail is the latest entries, contexts restored |
| `async_singleton` | 4 tasks, 3 resources | no factory beside a resource, each resource torn down once and never lost (`ImplementsSlot`), no lost wakeup |
| `readiness` | 3 probes, one optional, timeout 2, clock to 4 | status code, status and services agree, "ok" was said, by the deadline or by a probe that swallowed its cancellation, one timeout unless a probe goes on after its cancellation, an answer comes |
| `request_telemetry` | 1 request with a helper task or thread, beside another; 2 names, depth 2, 2 entries, clock to 2; 2 dicts of 1 record; 1 call; texts of up to 2 characters | unless a thread crossed an entry or exit, the summary overstates no step and is exact where nothing was entered meanwhile; it takes its cache statistics from its own request; on the loop no record is lost; the header reads back |
| `lazy_pg` | 2 callers, 2 dropped sessions, 1 outage | callers that take turns keep one session; a lost session fails each caller once at most; each caller that goes on ends up with a live one |
| `posthog_singleton_flush` | 1 getter, 2 flushers, 1 closer, 3 clients | a violation: `flush_posthog`, documented as a safe no-op, calls `None.flush()` when a shutdown comes between its test and its use of `_client` |
| `reporting_in_flight` | the instance of `reporting_over_gate` | a violation: a record that the SDK logs while the middleware (or the shim, the 500 handler, a hook) sends an event is reported, although the docs say that records logged while a capture is in flight are ignored |

### What the models do besides

Where the code is not what its docs say, beside the two violations above:

- One failure is one event, says `error_tracking.py:7-9` ("in any order") and so does
  `docs/observability.md:43` ("Every capture path marks the exception once admitted
  and skips marked ones"). It is not where an exception's type refuses attributes, as
  a frozen dataclass does: `mark_reported` swallows that (`errors.py:341-344`, whose
  comment has it "just re-reported"), and middleware, 500 handler and log may each
  send an event. Nor is it where two threads report one exception object at once:
  each may find it unmarked and send one. `OneEventPerFailure` and `MarkFollowsEvent`
  name the exceptions to the rule (`Unmarkable`; each carrier for itself).
- "Probes that exceed this are reported as timeout and treated as failures", says
  `readiness.py:102-103` (`docs/healthcheck.md:5` likewise). That is so for a probe that
  lets its `CancelledError` out. One that swallows it and returns "ok", at the deadline or
  long after, is reported "ok": `wait_for` passes on what the cancelled task returns.
  One that returns something else or raises while it cleans up is "unavailable".
  `OkWasSaid` tells the two kinds of "ok" apart.

The models contain further behaviours of the code that a reader of its docs
might not expect. They are not stated as properties; the properties that hold
say around them what is still true.

- Drops made after the last flush or shutdown, by a thread that still has the
  client, are never reported: `shutdown_posthog` runs once and nothing registers it
  with `atexit`. `DropsEventuallyReported` is about the drops a drain has found.
- A capture that raises takes along the report its thread had cut (`lost`).
- Flush and shutdown report whatever the interval says, so forced reports may be
  closer together than it.
- A shutdown may overtake a report another thread has cut; the SDK is gone when
  it is emitted (`delivered` lacks it, the log has it).
- A getter of the analytics client reads `_client` once more for its return and
  returns None after a shutdown in between.
- Of two overlapping shutdowns of the analytics client, the late one may clear a
  client built after the first, which nobody closes: the module's properties claim
  nothing once `overlapped` is set. The late one may also find `_client` cleared
  and raise (`ShutdownRaises`). So it is with the errors client.
- The gate's warning says "in the last 60s", but counts all drops since the
  warning before it.
- `shutdown_posthog_errors` clears `_config` before and `_client` after the SDK's
  shutdown; a get in between warns of a conflict with the client whose very
  values it has.
- The closer of an async singleton that runs during a factory call finds nothing
  to close, and the resource is cached after it.
- A probe's own `TimeoutError` is reported as "timeout".
- Between the SDK's shutdown and the clear a getter hands out a client that is
  shut down, whose captures go nowhere.
- A failed build of the errors client is remembered for the process, and a
  shutdown clears that memory, also one in the middle of a build that fails.
- A send to the errors SDK that raises is swallowed, and the exception is marked
  all the same: no later reporter retries it.
- A send of telemetry whose dict of steps grows under the loop, or one of whose
  captures raises, ends there and sends no summary; `SummaryAccounted` is about the
  others.
- A description that holds a comma, a semicolon or an equals sign loses them.
- Two callers of the lazy connection that are inside `get` at once may both
  connect, and one session is then left behind: the class is documented as
  single-threaded, and `OneSession` claims nothing once `overlapped` is set.
- `isolated_error_tracking` puts back neither `_warned_conflicts` nor `atexit`'s
  hooks, and leaves the excepthooks of the process in place: an exception uncaught in
  a block goes to the outer client too, and before the block's own
  `init_error_tracking` to that one alone.
- After a shutdown and another `init_error_tracking` the handler and the hooks stay on
  the first client, while middleware, shim and 500 handler ask for the current one:
  two gates and two budgets. `WiredOnce` is about the handler and the hooks.
- A step in which another is entered is timed from the later entry; a cancelled
  step is recorded as a success, as `except Exception` does not see it.
- Where a thread of the request enters or leaves a step beside another, a start taken
  earlier may overwrite a later one, and a step may be timed too long; or a later one
  comes between the two readings of an exit, and its duration is negative.
  `SummaryTruthful` claims the durations only where `crossed` is false.
- A record of the cache statistics made in a thread may overlap one on the loop,
  and one of them is lost.

### Bounds

Bounds are constants (`Max...`) that appear in guards. They are chosen so that
each hazard occurs: the limiter's burst is one token and a quarter, so the
first capture passes, the second is dropped, and a refill within the clock
bound admits another, with a full interval before and after; two threads are
enough, as every race here is between one that has left a lock and one that
enters it, and four captures are a whole send and two beside it, which compete for
the bucket while it refills. The gate has one fingerprint more than table rows, so evictions meet
open, expired and tied entries. Three clients or resources are a first life, a
second one, and one that must not be. Four tasks give the lock a queue of three
behind a holder, whose middle can be cancelled. Readiness' clock bound is
twice the timeout, so that a probe that goes on may end long after it. Two
requests and a depth of two let one server serve two requests while a child of
the first is at work, or hold the middleware twice. In `reporting_over_gate` the
bucket holds one token and a half, fewer than the captures of one failure, so
that refusals for want of a token and as a repeat both occur, within and past a
window of one tick; one exception has two carriers, another none that can mark it;
and the SDK logs twice, so that a record within a record could occur. Two blocks are side by side or one in the other. Texts of
two characters put each kind beside each, an escape before a quote included.
Two drops and an outage lose a session, the one that replaced it, and all at
once.
What is proved (below) holds without bounds: the proofs use no constraint that a
guard's bound would give, beyond what types need.

`CHECK_DEADLOCK FALSE` stands where the bounded system stops by itself: all
records offered, all failures out, all entries made, the request answered.

### Fairness

`TelemetrySend`: weak fairness of `Ends(t)`, since a thread that left the lock
runs on. Captures, sends, flushes and shutdowns have none: no call need come, and
`DropsEventuallyReported` owes a report only for what a flush or a shutdown has
taken. `AsyncSingleton`: weak fairness of a signalled
waiter, of the end of a factory and of a teardown; the loop runs what is ready,
and `WaitersServed` assumes factories end. New calls have none. `Readiness`: time
passes, timers fire and a cancelled probe reacts; that a probe ends by itself is
not assumed, nor that one ends which went on after its cancellation: for that
one `gather` may wait for ever, and `AnswerComes` says so. A probe that raises
`CancelledError` by itself fails the request, which ends it too. `LazyPg`: weak
fairness of each caller's `get` and of the server's return, for callers that
go on, and strong fairness of an operation on a lost session, which fails in
the end but may be put off while the caller is inside `get`. Drops and outages
have none.

## 4. Proofs

| module | theorem | assumption beyond the constants' types |
|---|---|---|
| RateLimiterProofs | `TypeCorrect`, `BoundHolds`, `LimiterImplementsBudget`, `NoDropForgotten`, `TailIsDelivered` | none |
| | `ReportsTile`, `ReportsAreOnTime`, `ReportsSampleTheirDrops` | none |
| | `SendsUseTheLimiter`, `TailIsLostFirst`, `SummaryIsAccounted` | none |
| PosthogSingletonProofs | `OneClient`, `NoClientOrphaned` | none (the properties hold until two shutdowns overlap) |
| | `ClientImplementsSlot` | none (until two shutdowns overlap) |
| | `LimitAlwaysUsable` | none |
| ErrorsGateProofs | `TypeCorrect`, `BoundHolds`, `LogsTile`, `DropsAreJustified` | none |
| | `TableKeepsWindows`, `DedupeIsExact` | `CapacitySuffices` |
| ReportingOverGateProofs | `OneFailureOneEvent`, `MarksFollowEvents`, `GatedOneEvent` | none |
| | `NestingStaysBounded`, `SilenceIsTheGates`, `ReportersImplement`, `GateImplements`, `SilenceIsRepetition` | none |
| AsyncSingletonProofs | `TypeCorrect`, `LockIsDisciplined`, `NoSecondFactory`, `SingletonImplementsSlot` | none |
| RequestTelemetryProofs | `DictsServeOneRequest`, `LoopCountsExactly`, `SummaryIsTruthful`, `AloneIsExact`, `LoopIsExact` | none |
| | `HeaderIsReadBack`, `DescriptionsReadBack` | none |
| ErrorsLifecycleProofs | `FlushRunsFirst`, `NothingCrossesABlock` | none |
| | `OneClient` | none (until two shutdowns overlap) |
| | `WiredTogether` | `OneInitialiser` |
| ServiceProofs | `BodyAndCodeAgree`, `OkIsSaid`, `OneTimeout` (readiness) | none |
| | `ServersComeBack`, `TrailsAreLatest`, `EventsTellOfOne` (request context) | none |
| | `OneSessionAtATime` (until two calls overlap), `LossesAreFoundOnce` (lazy connection) | none |

The assumptions are needed, as is the exception that the two clients' properties
make: after overlapping shutdowns a client may be orphaned (section 3), and with a table
of 1 a repeat is let through. `OneInitialiser` says that one thread
at a time runs `init_error_tracking`, as an application does that calls it at
its start. Two initialisers may both find no handler on the root logger, and
attach two. The exit hooks and the blocks do not need it. The run's instance has
one such thread.

*Limiter.* `AdmissionBound` says nothing of the bucket, so it is not inductive.
`BucketIsSmallestSlack` is the link: the bucket's level is at most what every
window that began at an earlier admission has left, and equals one of them unless
it is full. A refill moves level and slacks by the same amount until the cap; an
admission takes a token off each. The first half gives the bound; the second
gives that a refused capture fits some window no more, which is the refinement
of `WindowedBudget`: `HasToken` and `Fits` are equivalent (`TokenIffFits`).
`NoDropForgotten` follows a drop from the pending interval to a thread's hands
(`TakenReportAccounts`) to the reported set, or, when the capture that carries
the report raises, to the lost one. `TailIsDelivered` follows it the same way to the
delivered set while the client is up (`UpAccounted`), and adds that from the moment
a lifecycle call has drained nothing before it is pending (`DrainedIsSafe`). For
the reports, every step takes all pending drops into one, when that is due or
forced, or only counts (`TakesOrCounts`); that the time of the last report is
remembered right (`StampIsLastReport`) and that the sample kept stands for the
pending drops (`SamplesStand`) make the timing and the samples inductive.

*Sends.* A step of a send is a step of the limiter or a stutter, so the limiter's
theorems are theorems of `SendSpec` (`SendsUseTheLimiter`). `SurvivorsComeFirst` compares
captures of one send between which other threads have captured; what connects
them is the bucket. A dropped capture leaves less than a token, and as long as the
clock stands still no refill adds to it (`DropsShow`), so what passes at the same
time needs no token. It also leaves a drop of its name; with `EveryDropAccounted`
that gives `SummaryAccounted`, once the captures of a send are known to be those of
its loop and then the summary (`Sends`).

*Gate.* The bound is proved as for the limiter, from the level being under every
window's rest (`AdmitsFitBudget`). For the table, `TableFitsBudget` counts: the
entries made since any time s, and the tokens left, are within what the window
since s granted. If an eviction had to drop an open entry, `MaxTracked` entries
and the one being admitted would be younger than a window, which `CapacitySuffices`
excludes. So an open window is remembered (`OpenWindowsRemembered`), and exactness
of the dedupe follows. `DropsAreJustified` reads both the other way: an entry of the
table is the time of a record admitted (`TableOfAdmits`), so what it refuses is a
repeat, and a bucket that is not full holds what some window has left
(`BucketIsTight`), so what it refuses does not fit that window.

*Analytics client.* `OneLife` describes the open clients by where the threads
are: none while the closer is about to clear, the cached one, or the one about to
be stored. It says too that one thread at most is inside `shutdown_posthog`, so
nobody else clears `_client` between its shutdown and its clear, and a getter
cannot build in between because the cache is still full. `IInv` is `overlapped`
or all of that; an overlap stays remembered, so `IInv` is inductive. The same facts
give the refinement: the construction is `Build`, because under `OneLife` a getter
that finds no client finds the slot empty; the call of the SDK's shutdown is
`Retire`, its end `TearDown`; that `_client` is set late and cleared late is a
stutter.

*Errors client.* `Frames` says of what frame each value is: the globals are of
the innermost block, and what the k-th open block put aside is of the block around
it; a client about to be stored was built in the block the process is in, as
blocks begin and end between calls (`Control`). `HooksOrdered` adds that the stack of
exit hooks holds ours once, above the join hook of the cached client unless a
build is under way, and above those of the clients put aside even then, since a
block's builds add no hook of the SDK's. `Chained` does for the excepthooks, which
blocks leave in place, what `Frames` does for the rest: at each depth the chain is the
one the block found, with one hook on top once it has initialised. All three hold for
any threads. For
`OneOpenClient`, `OpenIsCached` says where an open client is: in the cache, in the
hands of the getter about to store it, or put aside by the outermost block, as
the blocks within have stubs; a closer past its test is alone there until two
overlap, and its client is the cached one until it is closed (`Closing`), so that
its late clear removes no other. `Wired` is the same for handler and hooks: a handler without
hooks is there only while the initialiser that attached it is about to chain them.

*Async singleton.* The lock's facts (held exactly during a factory call, the
queue is the waiting tasks without repetition, only its head is signalled and
only while the lock is free) are inductive together with the types and
`OneOwner`. The refinement maps a resource to its fate in `ResourceSlot`; a
factory's return is `Build`, a closer's start `Retire`, its end `TearDown`, and all
else stutters.

*Reporting.* Events are counted by carrier. A carrier that made one has marked the
exception, if it can be marked, or is at `Mark` (`Once`), so one that is past the
check, which saw no mark, has made none (`Learnt`): whoever else carries the same
object only adds marks. A mark is made at `Mark` alone, after the event (`MarksTold`).

`WayInv` follows a carrier on its way for the other two theorems: the flag
against re-entry is up exactly while a carrier is in a logging reporter, so a
nested record meets it (`NestingBounded`); and every reporter a carrier has left
behind without an event was refused there or found a mark (`Tried`), and a mark
means an event (`SilenceWasRefused`).

*Reporters over the gate.* A step of the whole is a step or a stutter of the
reporters (`ReportersImplement`) and of the gate (`GateImplements`), so their
theorems carry over. `SilenceIsRepetition` needs the link: an entry of the
gate's table under a fingerprint with type and message was made by an event of
just that type and message (`SeenSpoken`), so a repeat refused within the window
repeats an event of the window (`RefusalsSpoken`).

*Limit configuration.* `LimitFollows`: once a client was built, the limit is what
`RateLimitConfig` makes of the environment, and that is usable by cases.

*Statistics and summary.* A context holds a dict of its own request or none, a
record under way on the loop is the only one, and what it has read is what the
dict holds unless a thread records there (`StatsInv`). As long as no entry or exit
was crossed by another, one at a time is under way, its time not before the shared
start (`OneAtATime`); no open step began after that start, and one that nothing
disturbed began at it (`StartCovers`). That a crossing takes a thread is
`CrossedByThreads`: on the loop both halves are done in one go. The summary follows
from these, with the fact that the timings are of steps that ran (`OrderInv`).

*Header.* `LegsReadBack` is about any legs, whatever the length of their texts, the
`extra` ones included. Replacing, joining, splitting and unquoting are each shown to make one
more step with one more character (`ReplacedAppend`, `FlattenAppend`, `SplitAppend`,
`ReadAppend`); induction over texts then gives that the whitelist leaves safe
characters only (`WhitelistedIsSafe`), that what was escaped is read as it was
(`EscapedReadsBack`), that an entry has its semicolons where `Render` put them
(`Layout`, `EntryReads`), and that the commas are those between entries
(`Separated`). Of the request it takes that the steps named were entered and that
a duration, which may be negative, fits in the clock (`ClockInv`); `TokenAssumption` says that the names of
steps, which the code writes as they are, hold no character with a meaning in the
header. The induction is over sets of texts, by
the least element of a set of numbers, since the library's induction theorems
take an operator that the provers cannot instantiate; the recursive definitions
are recursive functions.

*Readiness.* `AnswerAgrees` compares an answer to outcomes that could have changed
since; `AnswerIsOfOutcomes` says that it is still the aggregate of what the probes'
outcomes are. `AnsweredInTime` follows from `DeadlineHoldsClock`: a probe that runs, or
has been cancelled and not reacted, holds the clock at the timeout.

*Request context.* Nothing in the state says whose a trail is, so `CoreInv` says
that there is an assignment of owners: every entry and tag of a trail is of its
owner's making, and every context with that trail, and every token a pass will
reset to, is of that request (`Owned`). A pass opens a new trail and extends the
assignment; a child copies its starter's context. The token at a server's bottom
pass is of no request, which is `NothingLeftBehind`. `EventsAreOfTheirRequest` is
inductive by it.

*Lazy connection.* That the server has one session is a matter of turns (`InTurn`).
That the history `failures`, with `MaxConns` entries, has one for every connection
ever made is a count: each connection can be given a caller that opened it and the number of losses before
it, no two the same (`OneEach`), so there are no more than callers times losses and
one. For `LossFoundOnce`, a caller that found the loss of a connection out holds it no
more, is not about to be given it, and cannot come by it again because it is closed
(`FoundOut`). Another caller may be given it, by a `get` that tested `.closed` before.

Proved but in no run's configuration of their own: the strengthenings named
above, the types, and the parts of a checked property: `FactoryOnlyWhenEmpty` is
what `ImplementsSlot` says of a build, `Isolated`, `NeverOverstated` and `ExactWhenAlone`
are behind `SummaryTruthful`, `SilenceWasRefused` is the first conjunct of
`SilentIsRepeat`, and `NoOrphan` is what `ImplementsSlot` says of a client that is
open. The types of a module that has no theorem for them are a conjunct of
its inductive invariant.

Interrupts and exits (`Interrupts`, `Exits` of `ErrorReporting`) are in the theorems, and
on no run's instance: three carriers that can share, or cannot mark, an exception are
what the minutes of a run are spent on.

Only model-checked: liveness (`DropsEventuallyReported`, `WaitersServed`,
`AnswerComes`, `Recovers`), which needs ENABLED. Every other property of a passing
run is stated by a theorem.

## 5. Not modelled

- Environment names, a table look-up of strings, and the list of exempt names,
  one split at commas.
- Formatting: durations, the response header of the request id, truncation of
  crumbs and tags, reserved tag names, the layout of an event, the `extra` legs of
  the timing header, which are rendered as the others are.
- Liveness, a constant; re-exports; `CountingPosthog` and `capture_budget`, which
  append to a list and count it.
- The PostHog SDK, psycopg and the servers behind them: calls that succeed, raise
  (where a constant or an action says so), or do nothing after shutdown.
- A `Posthog()` that was constructed for the errors client (errors.py:494) whose wrapper
  then raises stays open with its thread: `BuildFails` stands for builds that open
  nothing.
- A lazy connection that is closed, or breaks, on the client's side while the server
  keeps its session for a while.
- `scripts/`: a build-time tool for a schema file, with no state.

## 6. Plan

Done, in this order: the limiter with its abstract budget, the singletons, the
gate, the reporters, the errors client's life, readiness, telemetry's steps,
cache statistics, request context, with proofs for the first five; then the
compositions (a send over the limiter, the reporters over the gate, the
request's telemetry), the lazy connection, the limit's configuration and test
isolation, with proofs of the compositions' safety; then proofs of the sends, the
errors client's life, readiness, request context and the lazy connection; then
the analytics client as an abstract slot, the errors client with several
closers, and the header.

Next: a proof that the errors client, too, implements the abstract slot, which
asks for one that is put aside and brought back, as blocks do with the cached
client.
