---------------------------- MODULE AsyncSingleton ----------------------------
(***************************************************************************)
(* async_singleton: a (getter, closer) pair around one cached resource,    *)
(* called by the tasks of one event loop.  A task runs without interruption*)
(* from one await to the next, so an action is what happens between two    *)
(* awaits.  The asyncio.Lock that guards the factory is modelled with its  *)
(* own steps: release only signals the first waiter, which takes the lock  *)
(* when it next runs, and a waiter may be cancelled before or after that.  *)
(***************************************************************************)
EXTENDS Integers, Sequences, SequencesExt

CONSTANTS
    Tasks,      \* tasks that call the getter or the closer
    MaxBuilds   \* bound on the resources the factory ever builds

ASSUME BuildsAssumption == MaxBuilds \in Nat

VARIABLES
    instance,   \* the cached resource (a number), or None
    built,      \* resources 1..built have been built
    pc,         \* where each task is suspended
    toClose,    \* the closer's to_close, None outside of a closer
    locked,     \* asyncio.Lock._locked
    waiters,    \* asyncio.Lock._waiters, first come first
    signaled    \* waiters whose future is set but who have not run yet

lock == <<locked, waiters, signaled>>
vars == <<instance, built, pc, toClose, locked, waiters, signaled>>

None == 0

Init ==
    /\ instance = None
    /\ built = 0
    /\ pc = [t \in Tasks |-> "idle"]
    /\ toClose = [t \in Tasks |-> None]
    /\ locked = FALSE
    /\ waiters = <<>>
    /\ signaled = {}

Goto(t, where) == pc' = [pc EXCEPT ![t] = where]

-----------------------------------------------------------------------------
(* asyncio.Lock                                                            *)

\* _wake_up_first on a queue: its head is signalled, if there is one.
Wake(queue) == signaled' = signaled \cup (IF queue = <<>> THEN {} ELSE {Head(queue)})

Release ==
    /\ locked' = FALSE
    /\ Wake(waiters)
    /\ UNCHANGED waiters

LeaveQueue(t) ==
    \E i \in 1..Len(waiters) : waiters[i] = t /\ waiters' = RemoveAt(waiters, i)

\* A waiter is cancelled.  If it had been signalled it signals the next one.
CancelWaiter(t) ==
    /\ pc[t] = "waiting"
    /\ LeaveQueue(t)
    /\ signaled' = (signaled \ {t}) \cup
         (IF ~ locked /\ waiters' # <<>> THEN {Head(waiters')} ELSE {})
    /\ Goto(t, "idle")
    /\ UNCHANGED <<instance, built, toClose, locked>>

-----------------------------------------------------------------------------
(* The getter                                                              *)

\* The getter without suspension: the resource is cached.
GetCached(t) ==
    /\ pc[t] = "idle"
    /\ instance # None
    /\ UNCHANGED vars

\* The lock is free and nobody queues for it: the factory is called at once.
GetBuild(t) ==
    /\ pc[t] = "idle"
    /\ instance = None
    /\ ~ locked /\ waiters = <<>>
    /\ locked' = TRUE
    /\ Goto(t, "factory")
    /\ UNCHANGED <<instance, built, toClose, waiters, signaled>>

GetWait(t) ==
    /\ pc[t] = "idle"
    /\ instance = None
    /\ locked \/ waiters # <<>>
    /\ waiters' = Append(waiters, t)
    /\ Goto(t, "waiting")
    /\ UNCHANGED <<instance, built, toClose, locked, signaled>>

\* The second check, under the lock.
StillMissing == instance = None

\* A signalled waiter runs: it takes the lock and builds if nobody has.
LockedBuild(t) ==
    /\ t \in signaled
    /\ StillMissing
    /\ LeaveQueue(t)
    /\ signaled' = signaled \ {t}
    /\ locked' = TRUE
    /\ Goto(t, "factory")
    /\ UNCHANGED <<instance, built, toClose>>

\* Or it finds the resource, returns it and passes the lock on.
LockedFound(t) ==
    /\ t \in signaled
    /\ ~ StillMissing
    /\ LeaveQueue(t)
    /\ locked' = FALSE
    /\ signaled' = (signaled \ {t}) \cup (IF waiters' = <<>> THEN {} ELSE {Head(waiters')})
    /\ Goto(t, "idle")
    /\ UNCHANGED <<instance, built, toClose>>

FactoryReturns(t) ==
    /\ pc[t] = "factory"
    /\ built < MaxBuilds
    /\ built' = built + 1
    /\ instance' = built + 1
    /\ Release
    /\ Goto(t, "idle")
    /\ UNCHANGED <<toClose>>

\* Mutant: the lock is not released when the factory raises.
FactoryRaisesHolding(t) ==
    /\ pc[t] = "factory"
    /\ Goto(t, "idle")
    /\ UNCHANGED <<instance, built, toClose, lock>>

\* The factory raises, or its task is cancelled: the slot stays empty.
FactoryRaises(t) ==
    /\ pc[t] = "factory"
    /\ Release
    /\ Goto(t, "idle")
    /\ UNCHANGED <<instance, built, toClose>>

-----------------------------------------------------------------------------
(* The closer                                                              *)

\* Nothing cached: the closer returns, even if a factory call is under way.
CloseNothing(t) ==
    /\ pc[t] = "idle"
    /\ instance = None
    /\ UNCHANGED vars

\* Mutant: tear down first, clear the cache when that is done.
CloseThenClear(t) ==
    /\ pc[t] = "idle"
    /\ instance # None
    /\ toClose' = [toClose EXCEPT ![t] = instance]
    /\ Goto(t, "closing")
    /\ UNCHANGED <<instance, built, lock>>

\* Capture, clear, then await the teardown.
CloseStart(t) ==
    /\ pc[t] = "idle"
    /\ instance # None
    /\ toClose' = [toClose EXCEPT ![t] = instance]
    /\ instance' = None
    /\ Goto(t, "closing")
    /\ UNCHANGED <<built, lock>>

\* aclose() or close() is over: it returned, raised or was cancelled.
CloseEnd(t) ==
    /\ pc[t] = "closing"
    /\ toClose' = [toClose EXCEPT ![t] = None]
    /\ Goto(t, "idle")
    /\ UNCHANGED <<instance, built, lock>>

-----------------------------------------------------------------------------
FactoryEnds(t) == FactoryReturns(t) \/ FactoryRaises(t)
Granted(t) == LockedBuild(t) \/ LockedFound(t)

Next ==
    \E t \in Tasks :
        \/ GetCached(t) \/ GetBuild(t) \/ GetWait(t)
        \/ Granted(t) \/ CancelWaiter(t) \/ FactoryEnds(t)
        \/ CloseNothing(t) \/ CloseStart(t) \/ CloseEnd(t)

Spec == Init /\ [][Next]_vars

\* The event loop runs every ready task, and a factory or a teardown ends.
FairSpec ==
    /\ Spec
    /\ \A t \in Tasks : WF_vars(Granted(t)) /\ WF_vars(FactoryEnds(t)) /\ WF_vars(CloseEnd(t))

-----------------------------------------------------------------------------
(* Properties                                                              *)

\* Every variable has its type, and a task has something to close exactly while
\* it is closing.
TypeOK ==
    /\ built \in 0..MaxBuilds
    /\ instance \in 0..built
    /\ pc \in [Tasks -> {"idle", "waiting", "factory", "closing"}]
    /\ toClose \in [Tasks -> 0..built]
    /\ \A t \in Tasks : pc[t] = "closing" <=> toClose[t] # None
    /\ locked \in BOOLEAN
    /\ waiters \in Seq(Tasks)
    /\ signaled \in SUBSET Tasks

Queued == {waiters[i] : i \in 1..Len(waiters)}

\* The lock is held exactly during a factory call, the tasks that wait are the
\* queue, and only its head is ever signalled, while the lock is free.
LockDiscipline ==
    /\ locked <=> \E t \in Tasks : pc[t] = "factory"
    /\ \A i, j \in 1..Len(waiters) : waiters[i] = waiters[j] => i = j
    /\ Queued = {t \in Tasks : pc[t] = "waiting"}
    /\ \A t \in signaled : ~ locked /\ waiters # <<>> /\ t = Head(waiters)

\* One factory call at a time, and none while a resource is cached: the leak
\* that the double check and the lock exist to prevent cannot happen.
FactoryOnlyWhenEmpty ==
    /\ \A t, u \in Tasks : pc[t] = "factory" /\ pc[u] = "factory" => t = u
    /\ \A t \in Tasks : pc[t] = "factory" => instance = None

\* No two closers have the same resource, and none has the cached one.
OneOwner ==
    \A t, u \in Tasks :
        toClose[t] # None => toClose[t] # instance /\ (toClose[u] = toClose[t] => t = u)

\* A resource that was built and is neither cached nor in a closer's hands has
\* been torn down; "leaked" is no fate ResourceSlot knows.
Closing(r) == \E t \in Tasks : toClose[t] = r
FateOf(r) ==
    IF r > built THEN "unbuilt"
    ELSE IF r = instance THEN IF Closing(r) THEN "leaked" ELSE "cached"
    ELSE IF Closing(r) THEN "closing" ELSE "torn"

\* The singleton implements the slot: each resource is built into an empty
\* slot, torn down by exactly one closer, and never lost in between.
Slot == INSTANCE ResourceSlot WITH
            Resources <- 1..MaxBuilds,
            slot <- instance,
            fate <- [r \in 1..MaxBuilds |-> FateOf(r)]
ImplementsSlot == Slot!Spec

\* A getter that queues for the lock gets its turn or is cancelled: no signal
\* is lost, whatever factories raise and whichever waiters are cancelled.
WaitersServed == \A t \in Tasks : pc[t] = "waiting" ~> pc[t] # "waiting"
=============================================================================
