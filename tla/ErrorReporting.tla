---------------------------- MODULE ErrorReporting ----------------------------
(***************************************************************************)
(* One failure, many reporters.  A failed request passes the application's *)
(* own logging and capture_exception calls, RequestIdMiddleware, the 500   *)
(* handler and the server's "Exception in ASGI application" log record; a  *)
(* failed thread passes the excepthook.  Every one of them reports through *)
(* PosthogErrorsClient.capture_exception, which skips an exception that is *)
(* marked, asks the gate, sends, and marks.                                *)
(*                                                                         *)
(* The gate itself is module ErrorsGate; here it may admit or refuse any   *)
(* capture.  The four steps of a capture interleave with other threads.    *)
(***************************************************************************)
EXTENDS Naturals, FiniteSets

CONSTANTS
    Carriers,       \* threads, each with a failure on its way out
    Requests,       \* those that serve a request, the others end in a hook
    Main,           \* the main thread, whose hook is sys.excepthook
    Failures,       \* exception objects
    Carries,        \* the failure of each carrier
    Interrupts,     \* failures that are no Exception (KeyboardInterrupt ...)
    Exits,          \* those of them that are a SystemExit
    Unmarkable,     \* failures whose type refuses the attribute (frozen, slots ...)
    MaxCodeReports, \* bound on the application's own reports of each failure
    MaxNesting      \* bound on the nested captures the model follows

ASSUME CarriersAssumption ==
    /\ Requests \subseteq Carriers
    /\ Carries \in [Carriers -> Failures]
    /\ Exits \subseteq Interrupts
    /\ Interrupts \subseteq Failures
    /\ Unmarkable \subseteq Failures
    /\ MaxNesting \in Nat
    /\ MaxCodeReports \in [Carriers -> Nat]

VARIABLES
    place,      \* how far each carrier's failure has come
    step,       \* where the carrier is within capture_exception
    viaLog,     \* the capture was made by PosthogErrorsHandler.emit
    emitting,   \* _emitting.active of the carrier's thread
    nested,     \* message captures running inside the carrier's send
    codeReports,\* reports the application made of the failure so far
    current,    \* get_current_errors_client() is not None
    marked,     \* failures that bear _REPORTED_ATTR
    issued,     \* history: events handed to the SDK, by carrier
    refused     \* history: places whose capture the gate refused, by carrier

capture == <<step, viaLog, emitting, nested>>
fates == <<marked, issued, refused>>
vars == <<place, capture, codeReports, current, fates>>

Fail(c) == Carries[c]
IsException(c) == Fail(c) \notin Interrupts

Init ==
    /\ place = [c \in Carriers |-> "code"]
    /\ step = [c \in Carriers |-> "idle"]
    /\ viaLog = [c \in Carriers |-> FALSE]
    /\ emitting = [c \in Carriers |-> FALSE]
    /\ nested = [c \in Carriers |-> 0]
    /\ codeReports = [c \in Carriers |-> 0]
    /\ current = TRUE
    /\ marked = {}
    /\ issued = [c \in Carriers |-> 0]
    /\ refused = [c \in Carriers |-> {}]

-----------------------------------------------------------------------------
(* The way of a failure                                                    *)

\* Where the failure goes on from a place: only an Exception reaches the 500
\* handler, and each of them re-raises.
After(c) ==
    CASE place[c] = "code"       -> "code"
      [] place[c] = "middleware" -> IF IsException(c) THEN "handler" ELSE "server"
      [] place[c] = "handler"    -> "server"
      [] place[c] = "server"     -> "done"
      [] place[c] = "hook"       -> "done"

Idle(c, where) == place[c] = where /\ step[c] = "idle"

\* The capture begins, by the logging handler or by a direct call.
Begin(c, byLog) ==
    /\ step' = [step EXCEPT ![c] = "check"]
    /\ viaLog' = [viaLog EXCEPT ![c] = byLog]
    /\ emitting' = IF byLog THEN [emitting EXCEPT ![c] = TRUE] ELSE emitting
    /\ UNCHANGED <<place, nested, current, fates>>

\* The finally of emit resets the flag, whatever happened.
EmittingAfter(c) == IF viaLog[c] THEN [emitting EXCEPT ![c] = FALSE] ELSE emitting

\* The capture returns and the failure travels on.
End(c) ==
    /\ step' = [step EXCEPT ![c] = "idle"]
    /\ emitting' = EmittingAfter(c)
    /\ viaLog' = [viaLog EXCEPT ![c] = FALSE]
    /\ place' = [place EXCEPT ![c] = After(c)]
    /\ UNCHANGED <<nested, codeReports, current>>

PassOn(c) ==
    /\ place' = [place EXCEPT ![c] = After(c)]
    /\ UNCHANGED <<capture, codeReports, current, fates>>

-----------------------------------------------------------------------------
(* The reporters                                                           *)

\* The application logs the failure with exc_info; emit turns a record away
\* while the thread is in another one.
CodeLogs(c) ==
    /\ Idle(c, "code")
    /\ codeReports[c] < MaxCodeReports[c]
    /\ ~ emitting[c]
    /\ codeReports' = [codeReports EXCEPT ![c] = @ + 1]
    /\ Begin(c, TRUE)

\* The application calls the capture_exception shim.
CodeCaptures(c) ==
    /\ Idle(c, "code")
    /\ codeReports[c] < MaxCodeReports[c]
    /\ current
    /\ codeReports' = [codeReports EXCEPT ![c] = @ + 1]
    /\ Begin(c, FALSE)

\* The application lets the failure escape, or handles it.
Escape(c) ==
    /\ Idle(c, "code")
    /\ place' = [place EXCEPT ![c] = IF c \in Requests THEN "middleware" ELSE "hook"]
    /\ UNCHANGED <<capture, codeReports, current, fates>>

Handle(c) ==
    /\ Idle(c, "code")
    /\ place' = [place EXCEPT ![c] = "handled"]
    /\ UNCHANGED <<capture, codeReports, current, fates>>

\* RequestIdMiddleware reports an Exception through the current client.
Middleware(c) ==
    /\ Idle(c, "middleware")
    /\ IF IsException(c) /\ current
         THEN Begin(c, FALSE) /\ UNCHANGED codeReports
         ELSE PassOn(c)

\* The 500 handler reports through the client it was made with.
Handler500(c) ==
    /\ Idle(c, "handler")
    /\ Begin(c, FALSE)
    /\ UNCHANGED codeReports

\* The server logs what reached it.
ServerLogs(c) ==
    /\ Idle(c, "server")
    /\ IF emitting[c] THEN PassOn(c) ELSE Begin(c, TRUE) /\ UNCHANGED codeReports

\* sys.excepthook skips what is no Exception, threading.excepthook skips only
\* SystemExit; each calls the hook it replaced afterwards.
Hooked(c) == IF c \in Main THEN IsException(c) ELSE Fail(c) \notin Exits

Hook(c) ==
    /\ Idle(c, "hook")
    /\ IF Hooked(c) THEN Begin(c, FALSE) /\ UNCHANGED codeReports ELSE PassOn(c)

\* emit fails before it captures (str(record.msg) raises): handleError.
EmitFails(c) ==
    /\ step[c] = "check"
    /\ viaLog[c]
    /\ place[c] = "code"
    /\ End(c)
    /\ UNCHANGED fates

-----------------------------------------------------------------------------
(* capture_exception                                                       *)

\* Mutant: the mark is not looked at.
SkipsNone(c) == FALSE

\* is_reported: the failure bears the mark.
Skips(c) == Fail(c) \in marked

Check(c) ==
    /\ step[c] = "check"
    /\ IF Skips(c)
         THEN End(c)
         ELSE /\ step' = [step EXCEPT ![c] = "admit"]
              /\ UNCHANGED <<place, viaLog, emitting, nested, codeReports, current>>
    /\ UNCHANGED fates

GateAdmits(c) ==
    /\ step[c] = "admit"
    /\ step' = [step EXCEPT ![c] = "send"]
    /\ UNCHANGED <<place, viaLog, emitting, nested, codeReports, current, fates>>

\* Mutant: a refused capture marks the failure all the same.
MarkRefused(c) == marked \cup {Fail(c)}

\* The marks after a refusal: the next reporter must still try.
MarksAfterRefusal(c) == marked

GateRefuses(c) ==
    /\ step[c] = "admit"
    /\ refused' = [refused EXCEPT ![c] = @ \cup {place[c]}]
    /\ marked' = MarksAfterRefusal(c)
    /\ End(c)
    /\ UNCHANGED issued

\* Mutant: emit does not look at the flag.
TurnsAwayNothing(c) == FALSE

\* emit returns at once on a record logged during a capture it made itself.
TurnsAway(c) == emitting[c]

\* While the SDK works on the event (before_send included) an ERROR record is
\* logged on the same thread: emit captures it as a message, inside the send.
NestedRecord(c) ==
    /\ step[c] = "send"
    /\ nested[c] < MaxNesting
    /\ ~ TurnsAway(c)
    /\ nested' = [nested EXCEPT ![c] = @ + 1]
    /\ emitting' = [emitting EXCEPT ![c] = TRUE]
    /\ UNCHANGED <<place, step, viaLog, codeReports, current, fates>>

NestedDone(c) ==
    /\ nested[c] > 0
    /\ nested' = [nested EXCEPT ![c] = @ - 1]
    /\ emitting' = [emitting EXCEPT ![c] = FALSE]
    /\ UNCHANGED <<place, step, viaLog, codeReports, current, fates>>

\* The SDK call returns, or raises and _send swallows it.
Send(c) ==
    /\ step[c] = "send"
    /\ nested[c] = 0
    /\ issued' = [issued EXCEPT ![c] = @ + 1]
    /\ step' = [step EXCEPT ![c] = "mark"]
    /\ UNCHANGED <<place, viaLog, emitting, nested, codeReports, current, marked, refused>>

\* mark_reported: the setattr that an exception's type refuses is swallowed.
Mark(c) ==
    /\ step[c] = "mark"
    /\ marked' = marked \cup ({Fail(c)} \ Unmarkable)
    /\ End(c)
    /\ UNCHANGED <<issued, refused>>

\* shutdown_posthog_errors clears the singleton under everybody's feet.
Shutdown ==
    /\ current
    /\ current' = FALSE
    /\ UNCHANGED <<place, capture, codeReports, fates>>

-----------------------------------------------------------------------------
Report(c) ==
    \/ CodeLogs(c) \/ CodeCaptures(c) \/ Escape(c) \/ Handle(c)
    \/ Middleware(c) \/ Handler500(c) \/ ServerLogs(c) \/ Hook(c) \/ EmitFails(c)
Capture(c) ==
    \/ Check(c) \/ GateAdmits(c) \/ GateRefuses(c) \/ NestedRecord(c) \/ NestedDone(c)
    \/ Send(c) \/ Mark(c)

Next == Shutdown \/ \E c \in Carriers : Report(c) \/ Capture(c)

Spec == Init /\ [][Next]_vars

-----------------------------------------------------------------------------
(* Properties                                                              *)

\* Every variable has its type, and emit's flag is up exactly while the thread
\* is in a capture that emit made, the outer one or the one nested in it.
TypeOK ==
    /\ place \in [Carriers -> {"code", "handled", "middleware", "handler", "server",
                               "hook", "done"}]
    /\ step \in [Carriers -> {"idle", "check", "admit", "send", "mark"}]
    /\ viaLog \in [Carriers -> BOOLEAN]
    /\ emitting \in [Carriers -> BOOLEAN]
    /\ nested \in [Carriers -> 0..MaxNesting]
    /\ codeReports \in [Carriers -> Nat]
    /\ \A c \in Carriers : codeReports[c] <= MaxCodeReports[c]
    /\ current \in BOOLEAN
    /\ marked \in SUBSET Failures
    /\ issued \in [Carriers -> Nat]
    /\ refused \in [Carriers -> SUBSET {"code", "middleware", "handler", "server", "hook"}]
    /\ \A c \in Carriers : emitting[c] <=> viaLog[c] \/ nested[c] > 0

\* An event of exception object f went out, whoever carried it.
Told(f) == \E c \in Carriers : Fail(c) = f /\ issued[c] > 0

\* One failure is one event, in whatever order its reporters come and whoever
\* else carries and reports the same exception object meanwhile; only an
\* exception that cannot be marked is reported again by each of them.
OneEventPerFailure == \A c \in Carriers : Fail(c) \notin Unmarkable => issued[c] <= 1

\* A failure is marked only when an event of it was handed to the SDK, and once
\* the capture that did so returns it is marked, if it can be: no reporter is
\* silenced for nothing and none repeats.
MarkFollowsEvent ==
    /\ \A f \in marked : Told(f) /\ f \notin Unmarkable
    /\ \A c \in Carriers :
         issued[c] > 0 => Fail(c) \in marked \cup Unmarkable \/ step[c] = "mark"

\* An escaped failure without an event was refused by the gate at every place
\* that must report it: a report the gate drops silences none of the others.
Reporters(c) ==
    IF c \notin Requests THEN IF Hooked(c) THEN {"hook"} ELSE {}
    ELSE IF ~ IsException(c) THEN {"server"}
    ELSE {"handler", "server"} \cup (IF current THEN {"middleware"} ELSE {})
SilenceWasRefused ==
    \A c \in Carriers :
        place[c] = "done" /\ ~ Told(Fail(c)) => Reporters(c) \subseteq refused[c]

\* Reporting never feeds on itself: a record logged while an event is sent is
\* captured at most one level deep, and not at all inside a record of emit's.
NestingBounded ==
    \A c \in Carriers : nested[c] <= 1 /\ (viaLog[c] => nested[c] = 0)

\* What the docstring of PosthogErrorsHandler says: no record logged while a
\* capture is in flight on the thread is reported.  It is not so: the flag is
\* raised by emit alone, and the shim, the middleware, the 500 handler and the
\* hooks capture without it.
NoneReportedInFlight == \A c \in Carriers : nested[c] = 0
=============================================================================
