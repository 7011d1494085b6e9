--------------------------- MODULE ReportingOverGate ---------------------------
(***************************************************************************)
(* The reporters of a failure (module ErrorReporting) over the admission   *)
(* gate they share (module ErrorsGate): the gate no longer refuses at      *)
(* will, but what the fingerprints, the bucket and the time make it        *)
(* refuse.                                                                 *)
(*                                                                         *)
(* A fingerprint names the reporter and what it saw of the failure: the    *)
(* logging handler the logger, the template and the exception's type, the  *)
(* other reporters the type and the message.                               *)
(***************************************************************************)
EXTENDS ErrorReporting, Sequences, Integers

CONSTANTS
    Unit, Rate, Burst, Window, MaxTracked, LogInterval, MaxClock, MaxRecords, \* as in ErrorsGate
    Types,      \* exception types
    Messages,   \* exception messages, as far as a fingerprint has them
    LeftOut,    \* in place of a type or a message that a fingerprint leaves out
    MaxNoise,   \* bound on the records logged while events are sent
    Details     \* what types and messages the failures may have

ASSUME DetailsAssumption ==
    /\ Details \subseteq [Failures -> [type : Types, message : Messages]]
    /\ LeftOut \notin Types \cup Messages

VARIABLES
    clock, tokens, lastRefill, seen, dropped, lastDropLog, admits, drops, logs,
    noise,      \* how many records were logged while events were sent
    detail,     \* the type and the message of each failure
    events,     \* history: the failures' events, with the times of admission
    refusals    \* history: the captures refused, with time and cause

Names == {"code.log", "server.log", "nested.log", "capture_exception", "fastapi",
          "sys.excepthook", "threading.excepthook"}
Keys == [by : Names, type : Types \cup {LeftOut}, message : Messages \cup {LeftOut}]

Gate == INSTANCE ErrorsGate

gate == <<clock, tokens, lastRefill, seen, dropped, lastDropLog, admits, drops, logs>>
history == <<detail, events, refusals>>
gatedVars == <<vars, gate, noise, history>>

GatedInit ==
    /\ Init
    /\ Gate!Init
    /\ noise = 0
    /\ detail \in Details
    /\ events = {}
    /\ refusals = {}

-----------------------------------------------------------------------------
(* Fingerprints                                                            *)

Name(c) ==
    CASE place[c] = "code"   -> IF viaLog[c] THEN "code.log" ELSE "capture_exception"
      [] place[c] = "server" -> "server.log"
      [] place[c] = "hook"   -> IF c \in Main THEN "sys.excepthook" ELSE "threading.excepthook"
      [] OTHER               -> "fastapi"

\* Mutant: dedupe_on_message is forgotten.
FingerprintByType(c) == [by |-> Name(c), type |-> detail[Fail(c)].type, message |-> LeftOut]

\* logger_name:template:detail
Fingerprint(c) ==
    [by |-> Name(c),
     type |-> detail[Fail(c)].type,
     message |-> IF viaLog[c] THEN LeftOut ELSE detail[Fail(c)].message]

\* A message record has no exception: logger_name:template.
NestedFingerprint == [by |-> "nested.log", type |-> LeftOut, message |-> LeftOut]

-----------------------------------------------------------------------------
(* _admit decides                                                          *)

Admitted(c) ==
    /\ GateAdmits(c)
    /\ Gate!Admit(Fingerprint(c))
    /\ events' = events \cup {[of |-> Fail(c), at |-> clock]}
    /\ UNCHANGED <<noise, detail, refusals>>

\* History: a refusal at place for want of a token, or as a repeat.
Refusal(c, overBudget) ==
    refusals' = refusals \cup
        {[of |-> Fail(c), place |-> place[c], at |-> clock, overBudget |-> overBudget]}

Refused(c) ==
    /\ GateRefuses(c)
    /\ \/ Gate!DropDuplicate(Fingerprint(c)) /\ Refusal(c, FALSE)
       \/ Gate!DropOverBudget(Fingerprint(c)) /\ Refusal(c, TRUE)
    /\ UNCHANGED <<noise, detail, events>>

\* The record logged while an event is sent, and the same record refused.
Noise == noise < MaxNoise /\ noise' = noise + 1

NestedAdmitted(c) ==
    /\ Noise
    /\ NestedRecord(c)
    /\ Gate!Admit(NestedFingerprint)
    /\ UNCHANGED history

NestedRefused(c) ==
    /\ Noise
    /\ step[c] = "send"
    /\ nested[c] < MaxNesting
    /\ ~ TurnsAway(c)
    /\ Gate!DropDuplicate(NestedFingerprint) \/ Gate!DropOverBudget(NestedFingerprint)
    /\ UNCHANGED <<vars, history>>

-----------------------------------------------------------------------------
\* The requests share an event loop, and no reporter past the application's own
\* code awaits anything: one such capture runs at a time.
OnLoop(c) == place[c] \in {"middleware", "handler", "server"}
HasTheLoop(c) == OnLoop(c) => \A d \in Carriers \ {c} : OnLoop(d) => step[d] = "idle"

Ungated(c) ==
    \/ Report(c)
    \/ Check(c) \/ NestedDone(c) \/ Send(c) \/ Mark(c)

GatedNext ==
    \/ \E c \in {d \in Carriers : HasTheLoop(d)} :
         \/ Ungated(c) /\ UNCHANGED <<gate, noise, history>>
         \/ Admitted(c) \/ Refused(c) \/ NestedAdmitted(c) \/ NestedRefused(c)
    \/ Shutdown /\ UNCHANGED <<gate, noise, history>>
    \/ Gate!Tick /\ UNCHANGED <<vars, noise, history>>

GatedSpec == GatedInit /\ [][GatedNext]_gatedVars

-----------------------------------------------------------------------------
(* Properties                                                              *)

\* An event of the same type and message went out at most a window before.
SpokenFor(r) ==
    \E e \in events :
        /\ detail[e.of] = detail[r.of]
        /\ e.at <= r.at
        /\ r.at - e.at < Window

\* A failure that passed all its reporters and gave no event is a repeat: each
\* of them was refused, and, for an Exception, unless that was for want of a
\* token, an event of the same type and message went out less than a window
\* before.  The server's log and the application's, which go by the type alone,
\* never decide this: the middleware and the 500 handler have their say too.
SilentIsRepeat ==
    /\ SilenceWasRefused
    /\ \A c \in Carriers :
         place[c] = "done" /\ ~ Told(Fail(c)) /\ IsException(c) =>
            \A r \in refusals :
               r.of = Fail(c) => r.overBudget \/ r.place \in {"code", "server"} \/ SpokenFor(r)
=============================================================================
