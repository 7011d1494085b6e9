------------------------- MODULE ReportingOverGateProofs -------------------------
(***************************************************************************)
(* The reporters (ErrorReporting) over a gate that decides at will, for    *)
(* every set of carriers and failures; then over the real gate: what they  *)
(* do is what ErrorReporting lets them do, what the gate does is what      *)
(* ErrorsGate lets it do, and a failure that gives no event repeats one    *)
(* that did.                                                               *)
(***************************************************************************)
EXTENDS ReportingOverGate, TLAPS

-----------------------------------------------------------------------------
(* The reporters over any gate                                             *)

Places == {"code", "handled", "middleware", "handler", "server", "hook", "done"}
Steps == {"idle", "check", "admit", "send", "mark"}

\* What a reporter has learnt holds while it acts on it: past the check a failure
\* that can be marked has no event of this carrier yet, and none but its own send
\* can make one.
Markable(c) == Fail(c) \notin Unmarkable
LearntOf(c) ==
    /\ step[c] \in {"admit", "send"} /\ Markable(c) => issued[c] = 0
    /\ step[c] = "mark" => issued[c] > 0
Learnt == \A c \in Carriers : LearntOf(c)

\* The two halves of MarkFollowsEvent and OneEventPerFailure, by carrier.
OnceOf(c) ==
    /\ Markable(c) => issued[c] <= 1
    /\ issued[c] > 0 => Fail(c) \in marked \cup Unmarkable \/ step[c] = "mark"
Once == \A c \in Carriers : OnceOf(c)
MarksTold == \A f \in marked : Told(f) /\ f \notin Unmarkable

Shapes ==
    /\ step \in [Carriers -> Steps]
    /\ issued \in [Carriers -> Nat]

IInv == Shapes /\ Learnt /\ Once /\ MarksTold

LEMMA FailureOf == \A c \in Carriers : Fail(c) \in Failures
  BY CarriersAssumption DEF CarriersAssumption, Fail

LEMMA Initially == Init => IInv
  BY DEF Init, IInv, Shapes, Steps, Learnt, LearntOf, Once, OnceOf, MarksTold

\* An event that is out stays out.
LEMMA StaysTold ==
    ASSUME NEW f, Told(f), issued \in [Carriers -> Nat], issued' \in [Carriers -> Nat],
           \A d \in Carriers : issued'[d] >= issued[d]
    PROVE  Told(f)'
  <1>1. PICK d \in Carriers : Fail(d) = f /\ issued[d] > 0
    BY DEF Told
  <1>2. issued'[d] > 0
    BY <1>1
  <1> QED
    BY <1>1, <1>2 DEF Told, Fail

\* A step that moves one carrier and marks nothing or an exception with an event.
LEMMA OneMoves ==
    ASSUME IInv, NEW c \in Carriers, Shapes',
           marked \subseteq marked',
           \A f \in marked' \ marked : f \notin Unmarkable /\ Told(f)',
           \A d \in Carriers : d # c => step'[d] = step[d] /\ issued'[d] = issued[d],
           issued'[c] >= issued[c],
           LearntOf(c)', OnceOf(c)'
    PROVE  IInv'
  <1>1. \A d \in Carriers : d # c => LearntOf(d)'
    BY DEF IInv, Learnt, LearntOf, Markable, Fail
  <1>2. \A d \in Carriers : d # c => OnceOf(d)'
    BY DEF IInv, Once, OnceOf, Markable, Fail
  <1>3. MarksTold'
    <2>1. \A d \in Carriers : issued'[d] >= issued[d]
      BY DEF IInv, Shapes
    <2>2. \A f \in marked : Told(f)' /\ f \notin Unmarkable
      BY <2>1, StaysTold DEF IInv, Shapes, MarksTold
    <2> QED
      BY <2>2 DEF MarksTold
  <1>4. Learnt' /\ Once'
    BY <1>1, <1>2 DEF Learnt, Once
  <1> QED
    BY <1>3, <1>4 DEF IInv

\* Such a step without an event and without a mark.
LEMMA NoEvent ==
    ASSUME IInv, NEW c \in Carriers, NEW there \in Steps,
           step' = [step EXCEPT ![c] = there],
           UNCHANGED <<marked, issued>>,
           step[c] # "mark", there # "mark",
           there \in {"admit", "send"} /\ Markable(c) => issued[c] = 0
    PROVE  IInv'
  <1>1. /\ step' \in [Carriers -> Steps] /\ step'[c] = there
        /\ \A d \in Carriers : d # c => step'[d] = step[d]
        /\ issued[c] \in Nat
    BY DEF IInv, Shapes
  <1>2. Shapes'
    BY <1>1 DEF IInv, Shapes
  <1>3. LearntOf(c)'
    BY <1>1 DEF LearntOf, Markable, Fail
  <1>4. OnceOf(c)'
    BY <1>1 DEF IInv, Once, OnceOf, Markable, Fail
  <1> QED
    BY <1>1, <1>2, <1>3, <1>4, OneMoves

\* Past the check without a mark, this carrier made no event of the failure: had
\* it made one, it would have marked the exception or be about to.
LEMMA UnmarkedHasNone ==
    ASSUME IInv, NEW c \in Carriers, step[c] = "check", Fail(c) \notin marked, Markable(c)
    PROVE  issued[c] = 0
  <1>1. issued[c] \in Nat
    BY DEF IInv, Shapes
  <1>2. ~ (issued[c] > 0)
    BY DEF IInv, Once, OnceOf, Markable
  <1> QED
    BY <1>1, <1>2

LEMMA SendKeeps == ASSUME IInv, NEW c \in Carriers, Send(c) PROVE IInv'
  <1>1. /\ step[c] = "send" /\ step' = [step EXCEPT ![c] = "mark"]
        /\ issued' = [issued EXCEPT ![c] = @ + 1]
        /\ UNCHANGED marked
    BY DEF Send
  <1>2. issued[c] \in Nat /\ (Markable(c) => issued[c] = 0)
    BY <1>1 DEF IInv, Shapes, Learnt, LearntOf
  <1>3. /\ issued' \in [Carriers -> Nat] /\ issued'[c] = issued[c] + 1
        /\ step' \in [Carriers -> Steps] /\ step'[c] = "mark"
        /\ \A d \in Carriers : d # c => step'[d] = step[d] /\ issued'[d] = issued[d]
    BY <1>1, <1>2 DEF IInv, Shapes, Steps
  <1>4. LearntOf(c)' /\ OnceOf(c)'
    BY <1>2, <1>3 DEF LearntOf, OnceOf, Markable, Fail
  <1> QED
    BY <1>1, <1>2, <1>3, <1>4, OneMoves DEF Shapes

LEMMA MarkKeeps == ASSUME IInv, NEW c \in Carriers, Mark(c) PROVE IInv'
  <1>1. /\ step[c] = "mark" /\ step' = [step EXCEPT ![c] = "idle"]
        /\ marked' = marked \cup ({Fail(c)} \ Unmarkable) /\ UNCHANGED issued
    BY DEF Mark, End
  <1>2. /\ step' \in [Carriers -> Steps] /\ step'[c] = "idle"
        /\ \A d \in Carriers : d # c => step'[d] = step[d]
        /\ issued[c] \in Nat
    BY <1>1 DEF IInv, Shapes, Steps
  <1>3. issued[c] > 0
    BY <1>1 DEF IInv, Learnt, LearntOf
  <1>4. \A f \in marked' \ marked : f \notin Unmarkable /\ Told(f)'
    BY <1>1, <1>3 DEF Told, Fail
  <1>5. LearntOf(c)' /\ OnceOf(c)'
    BY <1>1, <1>2 DEF IInv, Once, OnceOf, LearntOf, Markable, Fail
  <1>6. Shapes'
    BY <1>1, <1>2 DEF IInv, Shapes
  <1> QED
    BY <1>1, <1>2, <1>4, <1>5, <1>6, OneMoves

LEMMA Same == ASSUME IInv, UNCHANGED <<step, marked, issued>> PROVE IInv'
  BY DEF IInv, Shapes, Learnt, LearntOf, Once, OnceOf, MarksTold, Told, Markable, Fail

LEMMA CaptureKeeps == ASSUME IInv, NEW c \in Carriers, Capture(c) PROVE IInv'
  <1>1. CASE Check(c)
    <2>1. step[c] = "check" /\ UNCHANGED <<marked, issued>>
      BY <1>1 DEF Check, fates
    <2>2. CASE Fail(c) \in marked
      <3>1. step' = [step EXCEPT ![c] = "idle"] /\ "idle" \in Steps
        BY <1>1, <2>2 DEF Check, Skips, End, Steps
      <3> QED
        BY <2>1, <3>1, NoEvent
    <2>3. CASE Fail(c) \notin marked
      <3>1. step' = [step EXCEPT ![c] = "admit"] /\ "admit" \in Steps
        BY <1>1, <2>3 DEF Check, Skips, Steps
      <3>2. Markable(c) => issued[c] = 0
        BY <2>1, <2>3, UnmarkedHasNone
      <3> QED
        BY <2>1, <3>1, <3>2, NoEvent
    <2> QED
      BY <2>2, <2>3
  <1>2. CASE GateAdmits(c)
    <2>1. step[c] = "admit" /\ step' = [step EXCEPT ![c] = "send"] /\ "send" \in Steps
          /\ UNCHANGED <<marked, issued>>
      BY <1>2 DEF GateAdmits, fates, Steps
    <2>2. Markable(c) => issued[c] = 0
      BY <2>1 DEF IInv, Learnt, LearntOf
    <2> QED
      BY <2>1, <2>2, NoEvent
  <1>3. CASE GateRefuses(c)
    <2>1. step[c] = "admit" /\ step' = [step EXCEPT ![c] = "idle"] /\ "idle" \in Steps
          /\ UNCHANGED <<marked, issued>>
      BY <1>3 DEF GateRefuses, MarksAfterRefusal, End, Steps
    <2> QED
      BY <2>1, NoEvent
  <1>4. CASE NestedRecord(c) \/ NestedDone(c)
    BY <1>4, Same DEF NestedRecord, NestedDone, fates
  <1> QED
    BY <1>1, <1>2, <1>3, <1>4, SendKeeps, MarkKeeps DEF Capture

LEMMA ReportKeeps == ASSUME IInv, NEW c \in Carriers, Report(c) PROVE IInv'
  <1>1. ASSUME NEW byLog \in BOOLEAN, step[c] = "idle", Begin(c, byLog) PROVE IInv'
    <2>1. step' = [step EXCEPT ![c] = "check"] /\ "check" \in Steps /\ UNCHANGED <<marked, issued>>
      BY <1>1 DEF Begin, fates, Steps
    <2> QED
      BY <1>1, <2>1, NoEvent
  <1>2. ASSUME PassOn(c) PROVE IInv'
    BY <1>2, Same DEF PassOn, capture, fates
  <1>3. CASE CodeLogs(c) \/ CodeCaptures(c) \/ Middleware(c) \/ Handler500(c) \/ ServerLogs(c) \/ Hook(c)
    <2>1. step[c] = "idle" /\ (PassOn(c) \/ Begin(c, TRUE) \/ Begin(c, FALSE))
      BY <1>3 DEF CodeLogs, CodeCaptures, Middleware, Handler500, ServerLogs, Hook, Idle
    <2> QED
      BY <1>1, <1>2, <2>1
  <1>4. CASE Escape(c) \/ Handle(c)
    BY <1>4, Same DEF Escape, Handle, capture, fates
  <1>5. CASE EmitFails(c)
    <2>1. step[c] = "check" /\ step' = [step EXCEPT ![c] = "idle"] /\ "idle" \in Steps
          /\ UNCHANGED <<marked, issued>>
      BY <1>5 DEF EmitFails, End, fates, Steps
    <2> QED
      BY <2>1, NoEvent
  <1> QED
    BY <1>3, <1>4, <1>5 DEF Report

LEMMA Inductive == IInv /\ [Next]_vars => IInv'
  <1> SUFFICES ASSUME IInv, [Next]_vars PROVE IInv'
    OBVIOUS
  <1>1. CASE Shutdown
    BY <1>1, Same DEF Shutdown, capture, fates
  <1>2. CASE UNCHANGED vars
    BY <1>2, Same DEF vars, capture, fates
  <1> QED
    BY <1>1, <1>2, CaptureKeeps, ReportKeeps DEF Next

\* One failure is one event in any order of its reporters, for any number of
\* requests and threads, whoever else carries the same exception object: unless
\* its type refuses the mark, in which case each reporter may make one.
THEOREM OneFailureOneEvent == Spec => []OneEventPerFailure
  <1>1. IInv => OneEventPerFailure
    BY DEF IInv, Once, OnceOf, Markable, OneEventPerFailure
  <1> QED
    BY <1>1, Initially, Inductive, PTL DEF Spec

\* The mark always follows an event and nothing else, and an event is followed by
\* the mark that its exception takes: no reporter is silenced by a capture that
\* sent nothing.
THEOREM MarksFollowEvents == Spec => []MarkFollowsEvent
  <1>1. IInv => MarkFollowsEvent
    BY DEF IInv, Once, OnceOf, MarksTold, MarkFollowsEvent
  <1> QED
    BY <1>1, Initially, Inductive, PTL DEF Spec

-----------------------------------------------------------------------------
(* The flag, the nesting, and the way of a failure past its reporters.     *)

Reporting == {"code", "middleware", "handler", "server", "hook"}

\* emit's flag and the depth of nesting, by where the carrier is.
FlagOf(c) ==
    /\ emitting[c] <=> viaLog[c] \/ nested[c] > 0
    /\ step[c] = "idle" => ~ viaLog[c]
    /\ step[c] # "send" => nested[c] = 0
    /\ nested[c] <= 1
    /\ viaLog[c] => nested[c] = 0 /\ place[c] \in {"code", "server"}
Flags ==
    /\ emitting \in [Carriers -> BOOLEAN]
    /\ viaLog \in [Carriers -> BOOLEAN]
    /\ nested \in [Carriers -> Nat]
    /\ \A c \in Carriers : FlagOf(c)

WayOf(c) ==
    /\ place[c] \in {"middleware", "handler", "server"} => c \in Requests
    /\ place[c] = "hook" => c \notin Requests
    /\ place[c] = "handler" => IsException(c)
    /\ step[c] # "idle" => place[c] \in Reporting
Way ==
    /\ place \in [Carriers -> Places]
    /\ step \in [Carriers -> Steps]
    /\ \A c \in Carriers : WayOf(c)

\* A mark means an event.
Heard ==
    /\ issued \in [Carriers -> Nat]
    /\ refused \in [Carriers -> SUBSET Places]
    /\ \A f \in marked : Told(f)
    /\ \A c \in Carriers : step[c] = "mark" => issued[c] > 0

\* The reporters a failure has behind it refused it, if it has no event yet.
Behind(c) ==
    CASE place[c] = "handler" -> {"middleware"}
      [] place[c] = "server"  -> {"middleware", "handler"}
      [] place[c] = "done"    -> {"middleware", "handler", "server", "hook"}
      [] OTHER                -> {}
TriedOf(c) == ~ Told(Fail(c)) => Behind(c) \cap Reporters(c) \subseteq refused[c]
Tried == \A c \in Carriers : TriedOf(c)

WayInv == Flags /\ Way /\ Heard /\ Tried

LEMMA WayInitially == Init => WayInv
  <1> SUFFICES ASSUME Init PROVE WayInv
    OBVIOUS
  <1>1. Flags
    BY DEF Init, Flags, FlagOf
  <1>2. Way
    BY DEF Init, Way, WayOf, Places, Steps
  <1>3. Heard
    BY FailureOf DEF Init, Heard
  <1>4. Tried
    BY DEF Init, Tried, TriedOf, Behind
  <1> QED
    BY <1>1, <1>2, <1>3, <1>4 DEF WayInv

\* A failure travels on from a place that has nothing to say of it, or has
\* refused it, or whose event is out.
LEMMA Travels ==
    ASSUME Way, Heard, Tried, NEW c \in Carriers, place[c] \in Reporting,
           place' = [place EXCEPT ![c] = After(c)],
           step' = [step EXCEPT ![c] = "idle"],
           UNCHANGED <<current, issued>>,
           refused' \in [Carriers -> SUBSET Places],
           \A d \in Carriers : refused[d] \subseteq refused'[d],
           ~ Told(Fail(c)) =>
              place[c] \in {"code"} \cup refused'[c] \/ place[c] \notin Reporters(c)
    PROVE  Way' /\ Tried'
  <1>a. /\ place[c] = "code" => After(c) = "code"
        /\ place[c] = "middleware" => After(c) = IF IsException(c) THEN "handler" ELSE "server"
        /\ place[c] = "handler" => After(c) = "server"
        /\ place[c] = "server" => After(c) = "done"
        /\ place[c] = "hook" => After(c) = "done"
    BY DEF After
  <1>b. After(c) \in Places
    BY <1>a DEF Reporting, Places
  <1>p. /\ place' \in [Carriers -> Places] /\ step' \in [Carriers -> Steps]
        /\ place'[c] = After(c) /\ step'[c] = "idle"
        /\ \A d \in Carriers : d # c => place'[d] = place[d] /\ step'[d] = step[d]
    BY <1>b DEF Way, Steps
  <1>r. \A d \in Carriers : /\ Reporters(d)' = Reporters(d) /\ Fail(d)' = Fail(d)
                             /\ IsException(d)' = IsException(d) /\ Fail(d) \in Failures
    BY FailureOf DEF Reporters, Fail, IsException, Hooked
  <1>1. WayOf(c)'
    <2>1. WayOf(c)
      BY DEF Way
    <2> QED
      BY <2>1, <1>a, <1>p, <1>r DEF WayOf, Reporting
  <1>2. \A d \in Carriers : d # c => WayOf(d)'
    BY <1>p, <1>r DEF Way, WayOf
  <1>3. TriedOf(c)'
    <2>0. (~ Told(Fail(c)) => Behind(c)' \cap Reporters(c) \subseteq refused'[c])
             => TriedOf(c)'
      BY DEF TriedOf, Told, Fail, Reporters, Hooked, IsException
    <2> SUFFICES ASSUME ~ Told(Fail(c))
                 PROVE  Behind(c)' \cap Reporters(c) \subseteq refused'[c]
      BY <2>0
    <2>1. Behind(c) \cap Reporters(c) \subseteq refused'[c]
      BY DEF Tried, TriedOf
    <2>2. Behind(c)' \cap Reporters(c) \subseteq (Behind(c) \cup ({place[c]} \ {"code"})) \cap Reporters(c)
      <3>1. WayOf(c)
        BY DEF Way
      <3>2. CASE place[c] = "code"
        BY <3>2, <1>a, <1>p DEF Behind
      <3>3. CASE place[c] = "middleware" /\ IsException(c)
        BY <3>3, <1>a, <1>p DEF Behind
      <3>4. CASE place[c] = "middleware" /\ ~ IsException(c)
        <4>1. Reporters(c) = {"server"}
          BY <3>1, <3>4 DEF WayOf, Reporters
        <4>2. Behind(c)' = {"middleware", "handler"}
          BY <3>4, <1>a, <1>p DEF Behind
        <4> QED
          BY <4>1, <4>2
      <3>5. CASE place[c] = "handler"
        BY <3>5, <1>a, <1>p DEF Behind
      <3>6. CASE place[c] = "server"
        <4>1. "hook" \notin Reporters(c)
          BY <3>1, <3>6 DEF WayOf, Reporters
        <4>2. /\ Behind(c)' = {"middleware", "handler", "server", "hook"}
              /\ Behind(c) = {"middleware", "handler"}
          BY <3>6, <1>a, <1>p DEF Behind
        <4> QED
          BY <4>1, <4>2, <3>6
      <3>7. CASE place[c] = "hook"
        <4>1. Reporters(c) \subseteq {"hook"}
          BY <3>1, <3>7 DEF WayOf, Reporters
        <4> QED
          BY <4>1, <3>7
      <3> QED
        BY <3>2, <3>3, <3>4, <3>5, <3>6, <3>7 DEF Reporting
    <2> QED
      BY <2>1, <2>2
  <1>4. \A d \in Carriers : d # c => TriedOf(d)'
    <2> SUFFICES ASSUME NEW d \in Carriers, d # c PROVE TriedOf(d)'
      OBVIOUS
    <2>1. Behind(d)' = Behind(d)
      BY <1>p DEF Behind
    <2>2. (~ Told(Fail(d)) => Behind(d) \cap Reporters(d) \subseteq refused'[d])
             => TriedOf(d)'
      BY <2>1 DEF TriedOf, Told, Fail, Reporters, Hooked, IsException
    <2>3. ~ Told(Fail(d)) => Behind(d) \cap Reporters(d) \subseteq refused[d]
      BY DEF Tried, TriedOf
    <2> QED
      BY <2>2, <2>3
  <1> QED
    BY <1>p, <1>1, <1>2, <1>3, <1>4 DEF Way, Tried

\* The flag's part, for a step of one carrier.
LEMMA FlagsOfOne ==
    ASSUME Flags, NEW c \in Carriers,
           emitting' \in [Carriers -> BOOLEAN],
           viaLog' \in [Carriers -> BOOLEAN],
           nested' \in [Carriers -> Nat],
           \A d \in Carriers : d # c =>
              /\ emitting'[d] = emitting[d] /\ viaLog'[d] = viaLog[d] /\ nested'[d] = nested[d]
              /\ step'[d] = step[d] /\ place'[d] = place[d],
           FlagOf(c)'
    PROVE  Flags'
  <1>1. ASSUME NEW d \in Carriers, d # c PROVE FlagOf(d)'
    <2>1. FlagOf(d)
      BY DEF Flags
    <2>2. /\ emitting'[d] = emitting[d] /\ viaLog'[d] = viaLog[d] /\ nested'[d] = nested[d]
          /\ step'[d] = step[d] /\ place'[d] = place[d]
      BY <1>1
    <2> QED
      BY <2>1, <2>2, Zenon DEF FlagOf
  <1>2. \A d \in Carriers : FlagOf(d)'
    BY <1>1
  <1> QED
    BY <1>2, Zenon DEF Flags

LEMMA BeginsKeeps ==
    ASSUME WayInv, NEW c \in Carriers, NEW byLog \in BOOLEAN, Begin(c, byLog),
           step[c] = "idle", place[c] \in Reporting,
           byLog => place[c] \in {"code", "server"}
    PROVE  WayInv'
  <1>u. /\ step' = [step EXCEPT ![c] = "check"]
        /\ viaLog' = [viaLog EXCEPT ![c] = byLog]
        /\ emitting' = IF byLog THEN [emitting EXCEPT ![c] = TRUE] ELSE emitting
        /\ UNCHANGED <<place, nested, current, marked, issued, refused>>
    BY DEF Begin, fates
  <1>s. /\ step' \in [Carriers -> Steps] /\ step'[c] = "check"
        /\ \A d \in Carriers : d # c => step'[d] = step[d]
    BY <1>u DEF WayInv, Way, Steps
  <1>1. Flags'
    <2>0. /\ emitting \in [Carriers -> BOOLEAN] /\ viaLog \in [Carriers -> BOOLEAN]
          /\ FlagOf(c)
      BY DEF WayInv, Flags
    <2>1. /\ viaLog' \in [Carriers -> BOOLEAN] /\ viaLog'[c] = byLog
          /\ \A d \in Carriers : d # c => viaLog'[d] = viaLog[d]
      BY <1>u, <2>0
    <2>2. /\ emitting' \in [Carriers -> BOOLEAN]
          /\ emitting'[c] <=> byLog \/ emitting[c]
          /\ \A d \in Carriers : d # c => emitting'[d] = emitting[d]
      BY <1>u, <2>0
    <2>3. nested[c] = 0 /\ ~ emitting[c]
      BY <2>0 DEF FlagOf
    <2>4. FlagOf(c)'
      BY <2>1, <2>2, <2>3, <1>u, <1>s DEF FlagOf
    <2>5. nested' \in [Carriers -> Nat]
      BY <1>u DEF WayInv, Flags
    <2> QED
      BY <2>1, <2>2, <2>4, <2>5, <1>u, <1>s, FlagsOfOne DEF WayInv
  <1>2. Way'
    BY <1>u, <1>s DEF WayInv, Way, WayOf, IsException, Fail
  <1>3. Heard'
    BY <1>u, <1>s DEF WayInv, Heard, Fail, Told
  <1>4. Tried'
    BY <1>u DEF WayInv, Tried, TriedOf, Behind, Reporters, Hooked, IsException, Fail, Told
  <1> QED
    BY <1>1, <1>2, <1>3, <1>4 DEF WayInv

LEMMA EndsKeeps ==
    ASSUME WayInv, NEW c \in Carriers, End(c),
           step[c] \in {"check", "admit", "mark"},
           UNCHANGED issued,
           \A f \in marked' : Told(f),
           refused' \in [Carriers -> SUBSET Places],
           \A d \in Carriers : refused[d] \subseteq refused'[d],
           ~ Told(Fail(c)) => place[c] \in {"code"} \cup refused'[c]
    PROVE  WayInv'
  <1>u. /\ step' = [step EXCEPT ![c] = "idle"]
        /\ viaLog' = [viaLog EXCEPT ![c] = FALSE]
        /\ emitting' = IF viaLog[c] THEN [emitting EXCEPT ![c] = FALSE] ELSE emitting
        /\ place' = [place EXCEPT ![c] = After(c)]
        /\ UNCHANGED <<nested, current>>
    BY DEF End, EmittingAfter
  <1>s. /\ step'[c] = "idle"
        /\ \A d \in Carriers : d # c => step'[d] = step[d] /\ place'[d] = place[d]
    BY <1>u DEF WayInv, Way
  <1>1. Flags'
    <2>0. /\ emitting \in [Carriers -> BOOLEAN] /\ viaLog \in [Carriers -> BOOLEAN]
          /\ FlagOf(c)
      BY DEF WayInv, Flags
    <2>1. /\ viaLog' \in [Carriers -> BOOLEAN] /\ ~ viaLog'[c]
          /\ \A d \in Carriers : d # c => viaLog'[d] = viaLog[d]
      BY <1>u, <2>0
    <2>2. /\ emitting' \in [Carriers -> BOOLEAN]
          /\ emitting'[c] <=> ~ viaLog[c] /\ emitting[c]
          /\ \A d \in Carriers : d # c => emitting'[d] = emitting[d]
      BY <1>u, <2>0
    <2>3. nested[c] = 0
      BY <2>0 DEF FlagOf
    <2>4. FlagOf(c)'
      BY <2>0, <2>1, <2>2, <2>3, <1>u, <1>s DEF FlagOf
    <2>5. nested' \in [Carriers -> Nat]
      BY <1>u DEF WayInv, Flags
    <2> QED
      BY <2>1, <2>2, <2>4, <2>5, <1>u, <1>s, FlagsOfOne DEF WayInv
  <1>2. place[c] \in Reporting
    BY DEF WayInv, Way, WayOf
  <1>3. Way' /\ Tried'
    BY <1>u, <1>2, Travels DEF WayInv
  <1>4. Heard'
    <2>1. \A f \in marked' : Told(f)'
      BY DEF Told, Fail
    <2> QED
      BY <2>1, <1>s DEF WayInv, Heard
  <1> QED
    BY <1>1, <1>3, <1>4 DEF WayInv

LEMMA PassesOnKeeps ==
    ASSUME WayInv, NEW c \in Carriers, PassOn(c), step[c] = "idle", place[c] \in Reporting,
           place[c] \notin Reporters(c)
    PROVE  WayInv'
  <1>u. /\ place' = [place EXCEPT ![c] = After(c)]
        /\ UNCHANGED <<step, viaLog, emitting, nested, current, marked, issued, refused>>
    BY DEF PassOn, capture, fates
  <1>s. /\ step' = [step EXCEPT ![c] = "idle"]
        /\ \A d \in Carriers : d # c => place'[d] = place[d]
    BY <1>u DEF WayInv, Way
  <1>1. Flags'
    <2>1. FlagOf(c)
      BY DEF WayInv, Flags
    <2>2. FlagOf(c)'
      BY <2>1, <1>u DEF FlagOf
    <2>3. /\ emitting' \in [Carriers -> BOOLEAN] /\ viaLog' \in [Carriers -> BOOLEAN]
          /\ nested' \in [Carriers -> Nat]
      BY <1>u DEF WayInv, Flags
    <2> QED
      BY <2>2, <2>3, <1>u, <1>s, FlagsOfOne DEF WayInv
  <1>2. Way' /\ Tried'
    <2>1. /\ refused' \in [Carriers -> SUBSET Places]
          /\ \A d \in Carriers : refused[d] \subseteq refused'[d]
      BY <1>u DEF WayInv, Heard
    <2> QED
      BY <1>u, <1>s, <2>1, Travels DEF WayInv
  <1>3. Heard'
    BY <1>u DEF WayInv, Heard, Fail, Told
  <1> QED
    BY <1>1, <1>2, <1>3 DEF WayInv

LEMMA WayReport == ASSUME WayInv, NEW c \in Carriers, Report(c) PROVE WayInv'
  <1>w. WayOf(c) /\ FlagOf(c) /\ place[c] \in Places
    BY DEF WayInv, Way, Flags
  <1>1. CASE CodeLogs(c) \/ CodeCaptures(c)
    <2>1. /\ step[c] = "idle" /\ place[c] = "code" /\ place[c] \in Reporting
          /\ Begin(c, TRUE) \/ Begin(c, FALSE)
      BY <1>1 DEF CodeLogs, CodeCaptures, Idle, Reporting
    <2> QED
      BY <2>1, BeginsKeeps
  <1>2. CASE Escape(c) \/ Handle(c)
    <2>1. PICK to \in {"handled", "middleware", "hook"} :
            /\ place' = [place EXCEPT ![c] = to]
            /\ to = "middleware" => c \in Requests
            /\ to = "hook" => c \notin Requests
      BY <1>2 DEF Escape, Handle
    <2>2. /\ step[c] = "idle" /\ place[c] = "code"
          /\ UNCHANGED <<step, viaLog, emitting, nested, current, marked, issued, refused>>
      BY <1>2 DEF Escape, Handle, Idle, capture, fates
    <2>3. /\ place' \in [Carriers -> Places] /\ place'[c] = to
          /\ \A d \in Carriers : d # c => place'[d] = place[d]
      BY <2>1 DEF WayInv, Way, Places
    <2>4. Flags'
      <3>1. FlagOf(c)'
        BY <1>w, <2>2, <2>3 DEF FlagOf
      <3>2. /\ emitting' \in [Carriers -> BOOLEAN] /\ viaLog' \in [Carriers -> BOOLEAN]
            /\ nested' \in [Carriers -> Nat]
        BY <2>2 DEF WayInv, Flags
      <3> QED
        BY <2>2, <2>3, <3>1, <3>2, FlagsOfOne DEF WayInv
    <2>5. Way'
      <3>1. WayOf(c)'
        BY <2>1, <2>2, <2>3 DEF WayOf
      <3>2. \A d \in Carriers : d # c => WayOf(d)'
        BY <2>2, <2>3 DEF WayInv, Way, WayOf, IsException, Fail
      <3> QED
        BY <2>2, <2>3, <3>1, <3>2 DEF WayInv, Way
    <2>6. Heard'
      BY <2>2 DEF WayInv, Heard, Fail, Told
    <2>7. Tried'
      <3>1. \A d \in Carriers : Behind(d)' \subseteq Behind(d)
        <4> TAKE d \in Carriers
        <4>1. CASE d = c
          BY <4>1, <2>1, <2>3 DEF Behind
        <4>2. CASE d # c
          BY <4>2, <2>3 DEF Behind
        <4> QED
          BY <4>1, <4>2
      <3>2. ASSUME NEW d \in Carriers PROVE TriedOf(d)'
        <4>1. (~ Told(Fail(d)) => Behind(d)' \cap Reporters(d) \subseteq refused[d])
                 => TriedOf(d)'
          BY <2>2 DEF TriedOf, Told, Fail, Reporters, Hooked, IsException
        <4>2. ~ Told(Fail(d)) => Behind(d) \cap Reporters(d) \subseteq refused[d]
          BY DEF WayInv, Tried, TriedOf
        <4> QED
          BY <3>1, <4>1, <4>2
      <3> QED
        BY <3>2 DEF Tried
    <2> QED
      BY <2>4, <2>5, <2>6, <2>7 DEF WayInv
  <1>3. CASE Middleware(c)
    <2>1. step[c] = "idle" /\ place[c] = "middleware" /\ place[c] \in Reporting
      BY <1>3 DEF Middleware, Idle, Reporting
    <2>2. CASE IsException(c) /\ current
      BY <1>3, <2>1, <2>2, BeginsKeeps DEF Middleware
    <2>3. CASE ~ (IsException(c) /\ current)
      <3>1. PassOn(c) /\ place[c] \notin Reporters(c)
        BY <1>3, <1>w, <2>1, <2>3 DEF Middleware, Reporters, WayOf
      <3> QED
        BY <2>1, <3>1, PassesOnKeeps
    <2> QED
      BY <2>2, <2>3
  <1>4. CASE Handler500(c)
    <2>1. step[c] = "idle" /\ place[c] = "handler" /\ place[c] \in Reporting /\ Begin(c, FALSE)
      BY <1>4 DEF Handler500, Idle, Reporting
    <2> QED
      BY <2>1, BeginsKeeps
  <1>5. CASE ServerLogs(c)
    <2>1. step[c] = "idle" /\ place[c] = "server" /\ place[c] \in Reporting
      BY <1>5 DEF ServerLogs, Idle, Reporting
    <2>2. ~ emitting[c]
      BY <1>w, <2>1 DEF FlagOf
    <2> QED
      BY <1>5, <2>1, <2>2, BeginsKeeps DEF ServerLogs
  <1>6. CASE Hook(c)
    <2>1. step[c] = "idle" /\ place[c] = "hook" /\ place[c] \in Reporting
      BY <1>6 DEF Hook, Idle, Reporting
    <2>2. CASE Hooked(c)
      BY <1>6, <2>1, <2>2, BeginsKeeps DEF Hook
    <2>3. CASE ~ Hooked(c)
      <3>1. PassOn(c) /\ place[c] \notin Reporters(c)
        BY <1>6, <1>w, <2>1, <2>3 DEF Hook, Reporters, WayOf
      <3> QED
        BY <2>1, <3>1, PassesOnKeeps
    <2> QED
      BY <2>2, <2>3
  <1>7. CASE EmitFails(c)
    <2>1. /\ End(c) /\ step[c] \in {"check", "admit", "mark"} /\ place[c] = "code"
          /\ UNCHANGED <<marked, issued, refused>>
      BY <1>7 DEF EmitFails, fates
    <2> QED
      BY <2>1, EndsKeeps DEF WayInv, Heard
  <1> QED
    BY <1>1, <1>2, <1>3, <1>4, <1>5, <1>6, <1>7 DEF Report

\* Within a capture, short of its end.
LEMMA WithinKeeps ==
    ASSUME WayInv, NEW c \in Carriers, step[c] # "idle",
           UNCHANGED <<place, viaLog, current, marked, refused>>,
           issued' \in [Carriers -> Nat],
           \A d \in Carriers : issued'[d] >= issued[d],
           step' \in [Carriers -> Steps],
           emitting' \in [Carriers -> BOOLEAN],
           nested' \in [Carriers -> Nat],
           \A d \in Carriers : d # c =>
              emitting'[d] = emitting[d] /\ nested'[d] = nested[d] /\ step'[d] = step[d],
           step'[c] \in {"admit", "send", "mark"},
           step'[c] = "mark" => issued'[c] > 0,
           FlagOf(c)'
    PROVE  WayInv'
  <1>1. Flags'
    <2>1. viaLog' \in [Carriers -> BOOLEAN]
      BY DEF WayInv, Flags
    <2> QED
      BY <2>1, FlagsOfOne DEF WayInv
  <1>2. Way'
    <2>1. WayOf(c)'
      BY DEF WayInv, Way, WayOf, IsException, Fail
    <2>2. \A d \in Carriers : d # c => WayOf(d)'
      BY DEF WayInv, Way, WayOf, IsException, Fail
    <2> QED
      BY <2>1, <2>2 DEF WayInv, Way
  <1>i. \A d \in Carriers : issued[d] \in Nat /\ issued'[d] \in Nat /\ issued'[d] >= issued[d]
    BY DEF WayInv, Heard
  <1>3. Heard'
    <2>1. \A f \in marked : Told(f)'
      BY StaysTold DEF WayInv, Heard
    <2>2. \A d \in Carriers : step'[d] = "mark" => issued'[d] > 0
      BY <1>i DEF WayInv, Heard
    <2> QED
      BY <2>1, <2>2 DEF WayInv, Heard
  <1>4. Tried'
    <2>1. \A d \in Carriers : /\ Behind(d)' = Behind(d) /\ Reporters(d)' = Reporters(d)
                               /\ Fail(d)' = Fail(d)
      BY DEF Behind, Reporters, Hooked, IsException, Fail
    <2>2. \A d \in Carriers : Told(Fail(d)) => Told(Fail(d))'
      BY StaysTold DEF WayInv, Heard, Fail
    <2> QED
      BY <2>1, <2>2 DEF WayInv, Tried, TriedOf
  <1> QED
    BY <1>1, <1>2, <1>3, <1>4 DEF WayInv

LEMMA WayCapture == ASSUME WayInv, NEW c \in Carriers, Capture(c) PROVE WayInv'
  <1>f. FlagOf(c) /\ Fail(c) \in Failures
    BY FailureOf DEF WayInv, Flags
  <1>h. /\ issued \in [Carriers -> Nat] /\ refused \in [Carriers -> SUBSET Places]
        /\ step \in [Carriers -> Steps]
        /\ emitting \in [Carriers -> BOOLEAN] /\ nested \in [Carriers -> Nat]
        /\ \A f \in marked : Told(f)
    BY DEF WayInv, Heard, Way, Flags
  <1>g. \A d \in Carriers : issued[d] >= issued[d] /\ refused[d] \subseteq refused[d]
    BY <1>h
  <1>1. CASE Check(c)
    <2>1. step[c] = "check" /\ UNCHANGED <<marked, issued, refused>>
      BY <1>1 DEF Check, fates
    <2>2. CASE Skips(c)
      <3>1. End(c) /\ Told(Fail(c))
        BY <1>1, <1>f, <1>h, <2>2 DEF Check, Skips
      <3> QED
        BY <2>1, <3>1, <1>h, <1>g, EndsKeeps
    <2>3. CASE ~ Skips(c)
      <3>1. /\ step' = [step EXCEPT ![c] = "admit"]
            /\ UNCHANGED <<place, viaLog, emitting, nested, current>>
        BY <1>1, <2>3 DEF Check
      <3>2. /\ step' \in [Carriers -> Steps] /\ step'[c] = "admit"
            /\ \A d \in Carriers : d # c => step'[d] = step[d]
        BY <3>1, <1>h DEF Steps
      <3>3. FlagOf(c)'
        BY <1>f, <2>1, <3>1, <3>2 DEF FlagOf
      <3> QED
        BY <2>1, <3>1, <3>2, <3>3, <1>h, <1>g, WithinKeeps
    <2> QED
      BY <2>2, <2>3
  <1>2. CASE GateAdmits(c)
    <2>1. /\ step[c] = "admit" /\ step' = [step EXCEPT ![c] = "send"]
          /\ UNCHANGED <<place, viaLog, emitting, nested, current, marked, issued, refused>>
      BY <1>2 DEF GateAdmits, fates
    <2>2. /\ step' \in [Carriers -> Steps] /\ step'[c] = "send"
          /\ \A d \in Carriers : d # c => step'[d] = step[d]
      BY <2>1, <1>h DEF Steps
    <2>3. FlagOf(c)'
      BY <1>f, <2>1, <2>2 DEF FlagOf
    <2> QED
      BY <2>1, <2>2, <2>3, <1>h, <1>g, WithinKeeps
  <1>3. CASE GateRefuses(c)
    <2>1. /\ step[c] = "admit" /\ End(c) /\ UNCHANGED <<marked, issued>>
          /\ refused' = [refused EXCEPT ![c] = @ \cup {place[c]}]
      BY <1>3 DEF GateRefuses, MarksAfterRefusal
    <2>2. place[c] \in Places
      BY DEF WayInv, Way
    <2>3. /\ refused' \in [Carriers -> SUBSET Places] /\ place[c] \in refused'[c]
          /\ \A d \in Carriers : refused[d] \subseteq refused'[d]
      BY <2>1, <2>2, <1>f, <1>h
    <2> QED
      BY <2>1, <2>3, <1>h, EndsKeeps
  <1>4. CASE NestedRecord(c)
    <2>1. /\ step[c] = "send" /\ ~ emitting[c]
          /\ nested' = [nested EXCEPT ![c] = @ + 1]
          /\ emitting' = [emitting EXCEPT ![c] = TRUE]
          /\ UNCHANGED <<place, step, viaLog, current, marked, issued, refused>>
      BY <1>4 DEF NestedRecord, TurnsAway, fates
    <2>2. ~ viaLog[c] /\ nested[c] = 0
      BY <2>1, <1>f, <1>h DEF FlagOf
    <2>3. /\ nested' \in [Carriers -> Nat] /\ nested'[c] = 1
          /\ emitting' \in [Carriers -> BOOLEAN] /\ emitting'[c]
          /\ \A d \in Carriers : d # c => nested'[d] = nested[d] /\ emitting'[d] = emitting[d]
      BY <2>1, <2>2, <1>h
    <2>4. FlagOf(c)'
      BY <2>1, <2>2, <2>3 DEF FlagOf
    <2> QED
      BY <2>1, <2>3, <2>4, <1>h, <1>g, WithinKeeps
  <1>5. CASE NestedDone(c)
    <2>1. /\ nested[c] > 0
          /\ nested' = [nested EXCEPT ![c] = @ - 1]
          /\ emitting' = [emitting EXCEPT ![c] = FALSE]
          /\ UNCHANGED <<place, step, viaLog, current, marked, issued, refused>>
      BY <1>5 DEF NestedDone, fates
    <2>2. ~ viaLog[c] /\ nested[c] = 1 /\ step[c] = "send"
      BY <2>1, <1>f, <1>h DEF FlagOf
    <2>3. /\ nested' \in [Carriers -> Nat] /\ nested'[c] = 0
          /\ emitting' \in [Carriers -> BOOLEAN] /\ ~ emitting'[c]
          /\ \A d \in Carriers : d # c => nested'[d] = nested[d] /\ emitting'[d] = emitting[d]
      BY <2>1, <2>2, <1>h
    <2>4. FlagOf(c)'
      BY <2>1, <2>2, <2>3 DEF FlagOf
    <2> QED
      BY <2>1, <2>2, <2>3, <2>4, <1>h, <1>g, WithinKeeps
  <1>6. CASE Send(c)
    <2>1. /\ step[c] = "send" /\ nested[c] = 0
          /\ issued' = [issued EXCEPT ![c] = @ + 1]
          /\ step' = [step EXCEPT ![c] = "mark"]
          /\ UNCHANGED <<place, viaLog, emitting, nested, current, marked, refused>>
      BY <1>6 DEF Send
    <2>2. /\ issued' \in [Carriers -> Nat] /\ issued'[c] > 0
          /\ \A d \in Carriers : issued'[d] >= issued[d]
      BY <2>1, <1>f, <1>h
    <2>3. /\ step' \in [Carriers -> Steps] /\ step'[c] = "mark"
          /\ \A d \in Carriers : d # c => step'[d] = step[d]
      BY <2>1, <1>h DEF Steps
    <2>4. FlagOf(c)'
      BY <1>f, <2>1, <2>3 DEF FlagOf
    <2> QED
      BY <2>1, <2>2, <2>3, <2>4, <1>h, WithinKeeps
  <1>7. CASE Mark(c)
    <2>1. /\ step[c] = "mark" /\ End(c) /\ UNCHANGED <<issued, refused>>
          /\ marked' = marked \cup ({Fail(c)} \ Unmarkable)
      BY <1>7 DEF Mark
    <2>2. Told(Fail(c))
      BY <2>1 DEF WayInv, Heard, Told
    <2> QED
      BY <2>1, <2>2, <1>f, <1>h, <1>g, EndsKeeps
  <1> QED
    BY <1>1, <1>2, <1>3, <1>4, <1>5, <1>6, <1>7 DEF Capture

LEMMA WayInductive == WayInv /\ [Next]_vars => WayInv'
  <1> SUFFICES ASSUME WayInv, [Next]_vars PROVE WayInv'
    OBVIOUS
  <1>1. ASSUME UNCHANGED <<place, capture, fates>>, current' => current PROVE WayInv'
    <2>1. /\ UNCHANGED <<place, step, viaLog, emitting, nested, marked, issued, refused>>
          /\ current' => current
      BY <1>1 DEF capture, fates
    <2>2. Flags'
      BY <2>1 DEF WayInv, Flags, FlagOf
    <2>3. Way'
      BY <2>1 DEF WayInv, Way, WayOf, IsException, Fail
    <2>4. Heard'
      BY <2>1 DEF WayInv, Heard, Fail, Told
    <2>5. Tried'
      <3>1. \A d \in Carriers : /\ Behind(d)' = Behind(d) /\ Reporters(d)' \subseteq Reporters(d)
                                 /\ Fail(d)' = Fail(d) /\ (Told(Fail(d))' <=> Told(Fail(d)))
        BY <2>1 DEF Behind, Reporters, Hooked, IsException, Fail, Told
      <3> QED
        BY <2>1, <3>1 DEF WayInv, Tried, TriedOf
    <2> QED
      BY <2>2, <2>3, <2>4, <2>5 DEF WayInv
  <1>2. Shutdown => UNCHANGED <<place, capture, fates>> /\ (current' => current)
    BY DEF Shutdown
  <1>3. UNCHANGED vars => UNCHANGED <<place, capture, fates>> /\ (current' => current)
    BY DEF vars
  <1> QED
    BY <1>1, <1>2, <1>3, WayReport, WayCapture DEF Next

LEMMA AlwaysWayInv == Spec => []WayInv
  BY WayInitially, WayInductive, PTL DEF Spec

\* A record logged while the SDK sends is captured one level deep at most, and
\* never inside a record of emit's own.
THEOREM NestingStaysBounded == Spec => []NestingBounded
  <1>1. WayInv => NestingBounded
    BY DEF WayInv, Flags, FlagOf, NestingBounded
  <1> QED
    BY <1>1, AlwaysWayInv, PTL

\* An escaped failure that gave no event was refused by the gate at every place
\* that reports it, even if requests share exception objects.
THEOREM SilenceIsTheGates == Spec => []SilenceWasRefused
  <1>1. ASSUME WayInv, NEW c \in Carriers, place[c] = "done", ~ Told(Fail(c))
        PROVE  Reporters(c) \subseteq refused[c]
    <2>1. Behind(c) = {"middleware", "handler", "server", "hook"}
      BY <1>1 DEF Behind
    <2>2. Reporters(c) \subseteq {"middleware", "handler", "server", "hook"}
      BY DEF Reporters
    <2> QED
      BY <1>1, <2>1, <2>2 DEF WayInv, Tried, TriedOf
  <1>2. WayInv => SilenceWasRefused
    BY <1>1 DEF SilenceWasRefused
  <1> QED
    BY <1>2, AlwaysWayInv, PTL

-----------------------------------------------------------------------------
(* The reporters implement ErrorReporting                                  *)

LEMMA GatedStepReports == [GatedNext]_gatedVars => [Next]_vars
  <1> SUFFICES ASSUME [GatedNext]_gatedVars PROVE [Next]_vars
    OBVIOUS
  <1>1. ASSUME NEW c \in Carriers, Ungated(c) PROVE Next
    BY <1>1 DEF Ungated, Next, Capture
  <1>2. ASSUME NEW c \in Carriers, Admitted(c) \/ Refused(c) PROVE Next
    BY <1>2 DEF Admitted, Refused, Next, Capture
  <1>3. ASSUME NEW c \in Carriers, NestedAdmitted(c) PROVE Next
    BY <1>3 DEF NestedAdmitted, Next, Capture
  <1>4. ASSUME NEW c \in Carriers, NestedRefused(c) PROVE UNCHANGED vars
    BY <1>4 DEF NestedRefused
  <1>5. Shutdown => Next
    BY DEF Next
  <1>6. UNCHANGED gatedVars => UNCHANGED vars
    BY DEF gatedVars
  <1> QED
    BY <1>1, <1>2, <1>3, <1>4, <1>5, <1>6 DEF GatedNext

\* Whatever the gate decides, the reporters do nothing that ErrorReporting, whose
\* gate decides at will, does not allow.
THEOREM ReportersImplement == GatedSpec => Spec
  <1>1. GatedInit => Init
    BY DEF GatedInit
  <1> QED
    BY <1>1, GatedStepReports, PTL DEF GatedSpec, Spec

\* So one failure is one event over the gate as well.
THEOREM GatedOneEvent == GatedSpec => []OneEventPerFailure
  BY ReportersImplement, OneFailureOneEvent, PTL

-----------------------------------------------------------------------------
(* The gate's clients implement its environment                            *)

DetailKnown == detail \in Details

LEMMA DetailKnownInit == GatedInit => DetailKnown
  BY DEF GatedInit, DetailKnown

LEMMA DetailKnownNext == DetailKnown /\ [GatedNext]_gatedVars => DetailKnown'
  BY DEF DetailKnown, GatedNext, Ungated, Admitted, Refused, NestedAdmitted, NestedRefused,
         gatedVars, history

LEMMA KnownDetail ==
    ASSUME DetailKnown, NEW c \in Carriers
    PROVE  detail[Fail(c)].type \in Types /\ detail[Fail(c)].message \in Messages
  BY FailureOf, DetailsAssumption DEF DetailsAssumption, DetailKnown

LEMMA FingerprintIsKey ==
    ASSUME DetailKnown, NEW c \in Carriers
    PROVE  Fingerprint(c) \in Keys
  <1>1. Name(c) \in Names
    BY DEF Name, Names
  <1>2. (IF viaLog[c] THEN LeftOut ELSE detail[Fail(c)].message) \in Messages \cup {LeftOut}
    BY KnownDetail
  <1> QED
    BY <1>1, <1>2, KnownDetail DEF Fingerprint, Keys

LEMMA NestedIsKey == NestedFingerprint \in Keys
  BY DEF NestedFingerprint, Keys, Names

LEMMA GatedStepGates == DetailKnown /\ [GatedNext]_gatedVars => [Gate!Next]_gate
  <1> SUFFICES ASSUME DetailKnown, [GatedNext]_gatedVars PROVE [Gate!Next]_gate
    OBVIOUS
  <1>1. ASSUME NEW c \in Carriers, Admitted(c) \/ Refused(c) PROVE Gate!Next
    BY <1>1, FingerprintIsKey DEF Admitted, Refused, Gate!Next
  <1>2. ASSUME NEW c \in Carriers, NestedAdmitted(c) \/ NestedRefused(c) PROVE Gate!Next
    BY <1>2, NestedIsKey DEF NestedAdmitted, NestedRefused, Gate!Next
  <1>3. Gate!Tick => Gate!Next
    BY DEF Gate!Next
  <1>4. UNCHANGED gatedVars => UNCHANGED gate
    BY DEF gatedVars
  <1> QED
    BY <1>1, <1>2, <1>3, <1>4 DEF GatedNext

\* What the reporters ask of the gate is what ErrorsGate expects: all its theorems
\* (the dedupe window, the budget) hold of the gate among them.
THEOREM GateImplements == GatedSpec => Gate!Spec
  <1>1. GatedInit => Gate!Init
    BY DEF GatedInit
  <1>2. gate = Gate!vars /\ gate' = Gate!vars'
    BY DEF gate, Gate!vars
  <1>3. DetailKnown /\ [GatedNext]_gatedVars => [Gate!Next]_Gate!vars
    BY <1>2, GatedStepGates
  <1> QED
    BY <1>1, <1>3, DetailKnownInit, DetailKnownNext, PTL DEF GatedSpec, Gate!Spec

-----------------------------------------------------------------------------
(* A silent failure is a repeat                                            *)

\* The reporters whose fingerprints tell the message.
Telling == {"capture_exception", "fastapi", "sys.excepthook", "threading.excepthook"}

\* Each such fingerprint in the table was entered with an event like it.
SeenSpoken ==
    \A k \in DOMAIN seen : k.by \in Telling =>
        \E e \in events : /\ detail[e.of].type = k.type /\ detail[e.of].message = k.message
                         /\ e.at = seen[k]

TimesPast == clock \in Nat /\ \A e \in events : e.of \in Failures /\ e.at \in 0..clock

RefusalsSpoken ==
    \A r \in refusals :
        /\ r.of \in Failures
        /\ r.overBudget \/ r.place \in {"code", "server"} \/ SpokenFor(r)

SpeechInv == DetailKnown /\ TimesPast /\ SeenSpoken /\ RefusalsSpoken

LEMMA SpeechInit == GatedInit => SpeechInv
  BY DEF GatedInit, Gate!Init, SpeechInv, DetailKnown, TimesPast, SeenSpoken, RefusalsSpoken

\* What a fingerprint tells of its failure.
LEMMA Tells ==
    ASSUME WayInv, NEW c \in Carriers, step[c] = "admit"
    PROVE  /\ Fingerprint(c).type = detail[Fail(c)].type
           /\ Fingerprint(c).by \in Telling => Fingerprint(c).message = detail[Fail(c)].message
           /\ place[c] \notin {"code", "server"} => Fingerprint(c).by \in Telling
  <1>1. place[c] \in Reporting /\ (viaLog[c] => place[c] \in {"code", "server"})
    BY DEF WayInv, Way, WayOf, Flags, FlagOf
  <1>2. Name(c) \in Telling => ~ viaLog[c]
    BY <1>1 DEF Name, Telling
  <1>3. place[c] \notin {"code", "server"} => Name(c) \in Telling
    BY <1>1 DEF Name, Telling, Reporting
  <1> QED
    BY <1>2, <1>3 DEF Fingerprint

\* Two failures that tell the same are told of in the same detail.
LEMMA SameDetail ==
    ASSUME DetailKnown, NEW f \in Failures, NEW g \in Failures,
           detail[f].type = detail[g].type, detail[f].message = detail[g].message
    PROVE  detail[f] = detail[g]
  <1>1. /\ detail[f] \in [type : Types, message : Messages]
        /\ detail[g] \in [type : Types, message : Messages]
    BY DetailsAssumption DEF DetailsAssumption, DetailKnown
  <1> QED
    BY <1>1

LEMMA AdmittedSpeaks ==
    ASSUME WayInv, SpeechInv, NEW c \in Carriers, Admitted(c)
    PROVE  SpeechInv'
  <1> DEFINE k == Fingerprint(c)
             event == [of |-> Fail(c), at |-> clock]
  <1>u. /\ step[c] = "admit" /\ Gate!Admit(k) /\ events' = events \cup {event}
        /\ UNCHANGED <<clock, detail, refusals>>
    BY DEF Admitted, GateAdmits, Gate!Admit
  <1>t. /\ k.type = detail[Fail(c)].type
        /\ k.by \in Telling => k.message = detail[Fail(c)].message
    BY <1>u, Tells
  <1>f. Fail(c) \in Failures /\ event.of = Fail(c) /\ event.at = clock /\ clock \in Nat
    BY FailureOf DEF SpeechInv, TimesPast
  <1> HIDE DEF k, event
  <1>s. PICK kept \in SUBSET DOMAIN seen :
           seen' = [j \in kept \cup {k} |-> IF j = k THEN clock ELSE seen[j]]
    <2>1. PICK kept \in Gate!Kept : seen' = Gate!Entered(k, kept)
      BY <1>u DEF Gate!Admit
    <2>2. kept \subseteq DOMAIN seen
      BY <2>1 DEF Gate!Kept, Gate!Unexpired
    <2> QED
      BY <2>1, <2>2 DEF Gate!Entered
  <1>1. DetailKnown' /\ TimesPast'
    BY <1>u, <1>f DEF SpeechInv, DetailKnown, TimesPast
  <1>2. SeenSpoken'
    <2> SUFFICES ASSUME NEW j \in DOMAIN seen', j.by \in Telling
                 PROVE  \E e \in events' : /\ detail[e.of].type = j.type
                                           /\ detail[e.of].message = j.message
                                           /\ e.at = seen'[j]
      BY <1>u DEF SeenSpoken, Telling
    <2>1. CASE j = k
      BY <2>1, <1>u, <1>t, <1>f, <1>s
    <2>2. CASE j # k
      <3>1. j \in DOMAIN seen /\ seen'[j] = seen[j]
        BY <2>2, <1>s
      <3> QED
        BY <3>1, <1>u DEF SpeechInv, SeenSpoken
    <2> QED
      BY <2>1, <2>2
  <1>3. RefusalsSpoken'
    BY <1>u DEF SpeechInv, RefusalsSpoken, SpokenFor
  <1> QED
    BY <1>1, <1>2, <1>3 DEF SpeechInv

LEMMA RefusedSpeaks ==
    ASSUME WayInv, SpeechInv, NEW c \in Carriers, Refused(c)
    PROVE  SpeechInv'
  <1> DEFINE k == Fingerprint(c)
             no(overBudget) == [of |-> Fail(c), place |-> place[c], at |-> clock,
                                overBudget |-> overBudget]
  <1>u. /\ step[c] = "admit"
        /\ UNCHANGED <<clock, seen, detail, events>>
        /\ \/ Gate!Duplicate(k) /\ refusals' = refusals \cup {no(FALSE)}
           \/ refusals' = refusals \cup {no(TRUE)}
    BY DEF Refused, GateRefuses, Refusal, Gate!DropDuplicate, Gate!DropOverBudget
  <1>f. Fail(c) \in Failures
    BY FailureOf
  <1>1. DetailKnown' /\ TimesPast' /\ SeenSpoken'
    BY <1>u DEF SpeechInv, DetailKnown, TimesPast, SeenSpoken
  <1>2. Gate!Duplicate(k) => place[c] \in {"code", "server"} \/ SpokenFor(no(FALSE))
    <2> SUFFICES ASSUME Gate!Duplicate(k), place[c] \notin {"code", "server"}
                 PROVE  SpokenFor(no(FALSE))
      OBVIOUS
    <2>1. k \in DOMAIN seen /\ clock - seen[k] < Window
      BY DEF Gate!Duplicate, Gate!Fresh
    <2>2. /\ k.type = detail[Fail(c)].type /\ k.message = detail[Fail(c)].message
          /\ k.by \in Telling
      BY <1>u, Tells
    <2>3. PICK e \in events : /\ detail[e.of].type = k.type /\ detail[e.of].message = k.message
                              /\ e.at = seen[k]
      BY <2>1, <2>2 DEF SpeechInv, SeenSpoken
    <2>4. e.of \in Failures /\ e.at <= clock
      BY <2>3 DEF SpeechInv, TimesPast
    <2>5. detail[e.of] = detail[Fail(c)]
      BY <2>2, <2>3, <2>4, <1>f, SameDetail DEF SpeechInv
    <2> QED
      BY <2>1, <2>3, <2>4, <2>5 DEF SpokenFor
  <1>n. no(FALSE).of = Fail(c) /\ no(FALSE).place = place[c]
    OBVIOUS
  <1>3. RefusalsSpoken'
    <2>1. \A r : SpokenFor(r)' <=> SpokenFor(r)
      BY <1>u DEF SpokenFor
    <2>3. CASE Gate!Duplicate(k) /\ refusals' = refusals \cup {no(FALSE)}
      <3> HIDE DEF no, k
      <3> SUFFICES ASSUME NEW r \in refusals'
                   PROVE  /\ r.of \in Failures
                          /\ r.overBudget \/ r.place \in {"code", "server"} \/ SpokenFor(r)'
        BY DEF RefusalsSpoken
      <3>1. CASE r \in refusals
        BY <3>1, <2>1 DEF SpeechInv, RefusalsSpoken
      <3>2. CASE r = no(FALSE)
        <4>1. r.place \in {"code", "server"} \/ SpokenFor(r)
          BY <3>2, <2>3, <1>2, <1>n
        <4> QED
          BY <4>1, <3>2, <2>1, <1>f, <1>n
      <3> QED
        BY <2>3, <3>1, <3>2
    <2>4. CASE refusals' = refusals \cup {no(TRUE)}
      BY <2>1, <2>4, <1>f DEF SpeechInv, RefusalsSpoken
    <2> QED
      BY <1>u, <2>3, <2>4
  <1> QED
    BY <1>1, <1>3 DEF SpeechInv

LEMMA NestedSpeaks ==
    ASSUME SpeechInv, NEW c \in Carriers, NestedAdmitted(c) \/ NestedRefused(c)
    PROVE  SpeechInv'
  <1> DEFINE k == NestedFingerprint
  <1>u. /\ UNCHANGED <<clock, detail, events, refusals>>
        /\ \/ UNCHANGED seen
           \/ \E kept \in Gate!Kept : seen' = Gate!Entered(k, kept)
    BY DEF NestedAdmitted, NestedRefused, history, Gate!Admit, Gate!DropDuplicate,
           Gate!DropOverBudget
  <1>k. k.by \notin Telling
    BY DEF NestedFingerprint, Telling
  <1> HIDE DEF k
  <1>1. \A j \in DOMAIN seen' : j.by \in Telling => j \in DOMAIN seen /\ seen'[j] = seen[j]
    <2>1. ASSUME NEW kept \in Gate!Kept, seen' = Gate!Entered(k, kept),
                 NEW j \in DOMAIN seen', j.by \in Telling
          PROVE  j \in DOMAIN seen /\ seen'[j] = seen[j]
      <3>1. kept \subseteq DOMAIN seen
        BY <2>1 DEF Gate!Kept, Gate!Unexpired
      <3>2. j # k
        BY <1>k, <2>1
      <3> QED
        BY <2>1, <3>1, <3>2 DEF Gate!Entered
    <2> QED
      BY <1>u, <2>1
  <1>2. SeenSpoken'
    BY <1>u, <1>1 DEF SpeechInv, SeenSpoken, Telling
  <1> QED
    BY <1>u, <1>2 DEF SpeechInv, DetailKnown, TimesPast, RefusalsSpoken, SpokenFor

LEMMA SpeechNext == WayInv /\ SpeechInv /\ [GatedNext]_gatedVars => SpeechInv'
  <1> SUFFICES ASSUME WayInv, SpeechInv, [GatedNext]_gatedVars PROVE SpeechInv'
    OBVIOUS
  <1>1. ASSUME UNCHANGED <<clock, seen, detail, events, refusals>> PROVE SpeechInv'
    BY <1>1 DEF SpeechInv, DetailKnown, TimesPast, SeenSpoken, RefusalsSpoken, SpokenFor
  <1>2. CASE Gate!Tick /\ UNCHANGED history
    <2>1. clock' = clock + 1 /\ UNCHANGED <<seen, detail, events, refusals>>
      BY <1>2 DEF Gate!Tick, history
    <2>2. TimesPast'
      BY <2>1 DEF SpeechInv, TimesPast
    <2> QED
      BY <2>1, <2>2 DEF SpeechInv, DetailKnown, SeenSpoken, RefusalsSpoken, SpokenFor
  <1>3. UNCHANGED <<gate, history>> => SpeechInv'
    BY <1>1 DEF gate, history
  <1>4. UNCHANGED gatedVars => UNCHANGED <<gate, history>>
    BY DEF gatedVars
  <1> QED
    BY <1>2, <1>3, <1>4, AdmittedSpeaks, RefusedSpeaks, NestedSpeaks DEF GatedNext

LEMMA AlwaysSpeech == GatedSpec => []SpeechInv
  <1>1. GatedSpec => []WayInv
    BY ReportersImplement, AlwaysWayInv, PTL
  <1> QED
    BY <1>1, SpeechInit, SpeechNext, PTL DEF GatedSpec

\* A failure that passed all its reporters without an event was refused by each of
\* them, and, but for want of a token, because an event of the same type and
\* message went out less than a window before: the gate's fingerprints and its
\* table silence nothing new.
THEOREM SilenceIsRepetition == GatedSpec => []SilentIsRepeat
  <1>1. GatedSpec => []SilenceWasRefused
    BY ReportersImplement, SilenceIsTheGates, PTL
  <1>2. SpeechInv /\ SilenceWasRefused => SilentIsRepeat
    BY DEF SpeechInv, RefusalsSpoken, SilentIsRepeat
  <1> QED
    BY <1>1, <1>2, AlwaysSpeech, PTL
=============================================================================
