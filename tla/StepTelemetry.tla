----------------------------- MODULE StepTelemetry -----------------------------
(***************************************************************************)
(* RequestTelemetry's steps: track_step as it is used by the tasks of one  *)
(* request, nested and side by side.                                       *)
(*                                                                         *)
(* There is one _step_start for the whole object.  Entering a step takes   *)
(* the time and then writes it there; leaving any step takes the time and  *)
(* then reads it.  Tasks of one loop do both in one go, as no await lies   *)
(* between; a thread may be switched out after its call of perf_counter.   *)
(* (It may be so again before the result is stored, which would only show  *)
(* where an entry or exit has been crossed by another.)                    *)
(* _current_step, which nothing reads, is left out.                        *)
(***************************************************************************)
EXTENDS Integers, Sequences, SequencesExt

CONSTANTS
    Tasks,      \* the tasks that work for the request
    Steps,      \* step names
    MaxClock,   \* bound on the clock
    MaxEntries, \* bound on the entries into steps
    MaxDepth    \* bound on the nesting in one task

ASSUME TelemetryAssumption == MaxClock \in Nat /\ MaxEntries \in Nat /\ MaxDepth \in Nat

VARIABLES
    clock,      \* perf_counter, in ticks
    stepStart,  \* self._step_start
    steps,      \* self.steps: a StepResult for each name, or NotRun
    open,       \* each task's stack of with blocks: name, and history (below)
    look,       \* each task's entry or exit under way, with the time it took
    entries,    \* history: how many steps were entered
    crossed,    \* history: an entry or exit began while another was under way
    truth       \* history: what the run a StepResult stands for was really like

vars == <<clock, stepStart, steps, open, look, entries, crossed, truth>>

\* How a body ends: by return, by an Exception, by asyncio's CancelledError.
Hows == {"returned", "raised", "cancelled"}

NotRun == [duration |-> 0, success |-> FALSE, ran |-> FALSE]
NoTruth == [spent |-> 0, alone |-> TRUE]
NoLook == [of |-> "nothing", at |-> 0]

Init ==
    /\ clock = 0
    /\ stepStart = 0
    /\ steps = [s \in Steps |-> NotRun]
    /\ open = [t \in Tasks |-> <<>>]
    /\ look = [t \in Tasks |-> NoLook]
    /\ entries = 0
    /\ crossed = FALSE
    /\ truth = [s \in Steps |-> NoTruth]

-----------------------------------------------------------------------------
(* track_step                                                              *)

Midway(t) == look[t] # NoLook

\* perf_counter is called, for an entry or an exit.
Look(t, what) ==
    /\ ~ Midway(t)
    /\ look' = [look EXCEPT ![t] = [of |-> what, at |-> clock]]
    /\ crossed' = (crossed \/ \E u \in Tasks : Midway(u))
    /\ UNCHANGED <<clock, stepStart, steps, open, truth>>

EnterLook(t) ==
    /\ Len(open[t]) < MaxDepth
    /\ entries < MaxEntries
    /\ entries' = entries + 1
    /\ Look(t, "entry")

\* History: an entry disturbs every step that is open.
Disturbed(blocks) == [i \in DOMAIN blocks |-> [blocks[i] EXCEPT !.alone = FALSE]]

Enter(t, s) ==
    /\ look[t].of = "entry"
    /\ look' = [look EXCEPT ![t] = NoLook]
    /\ stepStart' = look[t].at
    /\ open' = [u \in Tasks |->
                  IF u = t
                    THEN Append(Disturbed(open[u]), [name |-> s, since |-> look[t].at, alone |-> TRUE])
                    ELSE Disturbed(open[u])]
    /\ UNCHANGED <<clock, steps, entries, crossed, truth>>

ExitLook(t) ==
    /\ open[t] # <<>>
    /\ Look(t, "exit")
    /\ UNCHANGED entries

\* Below zero if another entry took the time later and wrote it in between.
Duration(t) == look[t].at - stepStart

\* Mutant: the start is cleared with the current step.
StartCleared == 0

\* The finally clause leaves _step_start as it is.
StartAfterExit == stepStart

\* error_type is stamped by "except Exception", which does not see a
\* cancellation.
Success(how) == how # "raised"

\* The finally clause.
Exit(t, how) ==
    /\ look[t].of = "exit"
    /\ look' = [look EXCEPT ![t] = NoLook]
    /\ LET block == Last(open[t])
       IN  /\ steps' = [steps EXCEPT ![block.name] =
                          [duration |-> Duration(t), success |-> Success(how), ran |-> TRUE]]
           /\ truth' = [truth EXCEPT ![block.name] =
                          [spent |-> look[t].at - block.since, alone |-> block.alone]]
    /\ open' = [open EXCEPT ![t] = Front(@)]
    /\ stepStart' = StartAfterExit
    /\ UNCHANGED <<clock, entries, crossed>>

Tick ==
    /\ clock < MaxClock
    /\ clock' = clock + 1
    /\ UNCHANGED <<stepStart, steps, open, look, entries, crossed, truth>>

Next ==
    \/ \E t \in Tasks :
         \/ EnterLook(t) \/ ExitLook(t)
         \/ \E s \in Steps : Enter(t, s)
         \/ \E how \in Hows : Exit(t, how)
    \/ Tick

Spec == Init /\ [][Next]_vars

-----------------------------------------------------------------------------
(* Properties                                                              *)

Blocks == [name : Steps, since : Nat, alone : BOOLEAN]

\* Every variable has its type, and no time taken is later than now.
TypeOK ==
    /\ clock \in Nat
    /\ stepStart \in 0..clock
    /\ steps \in [Steps -> [duration : Int, success : BOOLEAN, ran : BOOLEAN]]
    /\ open \in [Tasks -> Seq(Blocks)]
    /\ look \in [Tasks -> [of : {"entry", "exit"}, at : 0..clock] \cup {NoLook}]
    /\ \A t \in Tasks : look[t].of = "exit" => open[t] # <<>>
    /\ entries \in Nat
    /\ crossed \in BOOLEAN
    /\ truth \in [Steps -> [spent : Int, alone : BOOLEAN]]

\* However the tasks' steps overlap, no step is reported longer than it was, as
\* long as no entry or exit was crossed by another: the shared start then only
\* ever moves forward.
NeverOverstated == crossed \/ \A s \in Steps : steps[s].duration <= truth[s].spent

\* And a step during which no other was entered, by any task, is timed exactly.
ExactWhenAlone ==
    crossed \/ \A s \in Steps : steps[s].ran /\ truth[s].alone => steps[s].duration = truth[s].spent

\* What makes them so: one entry or exit at a time is under way, its time not
\* before the shared start; no block that is open was entered after the start,
\* and one that nothing disturbed was entered at it.
OneAtATime ==
    \A t \in Tasks : Midway(t) =>
        stepStart <= look[t].at /\ \A u \in Tasks : Midway(u) => u = t
StartCovers ==
    \A t \in Tasks : \A i \in 1..Len(open[t]) :
        /\ open[t][i].since <= stepStart
        /\ open[t][i].alone => open[t][i].since = stepStart

StepsInv ==
    /\ TypeOK
    /\ NeverOverstated
    /\ ExactWhenAlone
    /\ ~ crossed => OneAtATime /\ StartCovers
=============================================================================
