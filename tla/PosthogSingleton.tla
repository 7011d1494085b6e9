--------------------------- MODULE PosthogSingleton ---------------------------
(***************************************************************************)
(* get_posthog_client, flush_posthog and shutdown_posthog: the life of the *)
(* module's _client, shared by the threads of a process.                   *)
(*                                                                         *)
(* Only the getter takes _lock.  Flush and shutdown read _client without   *)
(* it, once to test it and once to use it, and shutdown clears it without  *)
(* it after the SDK's own shutdown, which joins threads and takes its time.*)
(* Threads switch between any two of these reads and writes.               *)
(*                                                                         *)
(* What rate limit a client gets, the getter reads from the environment.   *)
(* Rates and bursts are integers, in grains of which Unit make a token.    *)
(***************************************************************************)
EXTENDS Integers, FiniteSets

CONSTANTS
    Getters,    \* threads that call get_posthog_client
    Flushers,   \* threads that call flush_posthog
    Closers,    \* threads that call shutdown_posthog
    Prefixes,   \* event_prefix arguments
    MaxClients, \* bound on the clients ever built
    Numbers,    \* finite numbers the environment may hold
    Unit,       \* one token
    DefaultRate,\* _DEFAULT_EVENTS_PER_MINUTE
    DefaultBurst\* _DEFAULT_BURST

ASSUME ClientsAssumption == MaxClients \in Nat

ASSUME LimitsAssumption ==
    /\ Numbers \subseteq Int
    /\ Unit \in Nat \ {0}
    /\ DefaultRate \in Nat \ {0}
    /\ DefaultBurst \in Nat
    /\ DefaultBurst >= Unit

VARIABLES
    client,     \* _client: the number of the cached client, or None
    built,      \* clients 1..built were constructed
    open,       \* those of them the SDK has not shut down
    pc,         \* where each thread is
    target,     \* the client whose shutdown() the thread is in
    lockFree,   \* _lock is not held
    warned,     \* _warned_prefixes
    env,        \* the two rate limit variables of the environment
    limit,      \* the limit of the newest client, or Unlimited
    failed,     \* history: calls that went wrong, by kind
    overlapped  \* history: two threads were in shutdown_posthog at once

limits == <<env, limit>>
vars == <<client, built, open, pc, target, lockFree, warned, limits, failed, overlapped>>

None == 0
Threads == Getters \cup Flushers \cup Closers

\* A variable of the environment: a finite number, or none ("unset", blank
\* included), or no number ("text"), or one that is not finite ("nan", "inf").
Raws ==
    [is : {"unset", "text", "nan", "inf"}, value : {0}] \cup [is : {"number"}, value : Numbers]

Unlimited == [limited |-> FALSE, rate |-> 0, burst |-> 0]

Init ==
    /\ client = None
    /\ built = 0
    /\ open = {}
    /\ pc = [t \in Threads |-> "idle"]
    /\ target = [t \in Threads |-> None]
    /\ lockFree = TRUE
    /\ warned = {}
    /\ env \in [rate : Raws, burst : Raws]
    /\ limit = Unlimited
    /\ failed = {}
    /\ overlapped = FALSE

At(t, here) == pc[t] = here
Goto(t, there) == pc' = [pc EXCEPT ![t] = there]

-----------------------------------------------------------------------------
(* The rate limit's configuration                                          *)

\* _read_float_env: what is no finite number gives the default.
ReadFloat(raw, default) == IF raw.is = "number" THEN raw.value ELSE default

\* Mutant: a burst below one token is taken as it is.
BurstUnclamped(burst) == IF burst <= 0 THEN DefaultBurst ELSE burst

UsableBurst(burst) ==
    IF burst <= 0 THEN DefaultBurst ELSE IF burst < Unit THEN Unit ELSE burst

\* _rate_limit_config: a rate that is not positive turns the limit off.
RateLimitConfig ==
    LET rate == ReadFloat(env.rate, DefaultRate)
        burst == ReadFloat(env.burst, DefaultBurst)
    IN  IF rate <= 0 THEN Unlimited
        ELSE [limited |-> TRUE, rate |-> rate, burst |-> UsableBurst(burst)]

-----------------------------------------------------------------------------
(* get_posthog_client                                                      *)

\* No API key: warn once per prefix and return None, all under the lock.
GetUnconfigured(t, p) ==
    /\ At(t, "idle")
    /\ lockFree
    /\ warned' = warned \cup {p}
    /\ UNCHANGED <<client, built, open, pc, target, lockFree, limits, failed, overlapped>>

GetEnter(t) ==
    /\ At(t, "idle")
    /\ lockFree
    /\ lockFree' = FALSE
    /\ Goto(t, "getCheck")
    /\ UNCHANGED <<client, built, open, target, warned, limits, failed, overlapped>>

\* _client is set: go and return it.
GetFound(t) ==
    /\ At(t, "getCheck")
    /\ client # None
    /\ Goto(t, "getReturn")
    /\ UNCHANGED <<client, built, open, target, lockFree, warned, limits, failed, overlapped>>

\* Mutant: the constructor is called without looking.
GetConstructUnchecked(t) ==
    /\ At(t, "getCheck")
    /\ built < MaxClients
    /\ built' = built + 1
    /\ open' = open \cup {built + 1}
    /\ target' = [target EXCEPT ![t] = built + 1]
    /\ limit' = RateLimitConfig
    /\ Goto(t, "getStore")
    /\ UNCHANGED <<client, lockFree, warned, env, failed, overlapped>>

\* _client is None: construct the SDK client and the proxy, if there is a limit.
GetConstruct(t) ==
    /\ At(t, "getCheck")
    /\ client = None
    /\ built < MaxClients
    /\ built' = built + 1
    /\ open' = open \cup {built + 1}
    /\ target' = [target EXCEPT ![t] = built + 1]
    /\ limit' = RateLimitConfig
    /\ Goto(t, "getStore")
    /\ UNCHANGED <<client, lockFree, warned, env, failed, overlapped>>

\* The constructor raises: the with statement releases the lock.
GetRaises(t) ==
    /\ At(t, "getCheck")
    /\ client = None
    /\ lockFree' = TRUE
    /\ Goto(t, "idle")
    /\ UNCHANGED <<client, built, open, target, warned, limits, failed, overlapped>>

GetStore(t) ==
    /\ At(t, "getStore")
    /\ client' = target[t]
    /\ target' = [target EXCEPT ![t] = None]
    /\ Goto(t, "getReturn")
    /\ UNCHANGED <<built, open, lockFree, warned, limits, failed, overlapped>>

\* "return _client" reads the variable once more.
GetReturn(t) ==
    /\ At(t, "getReturn")
    /\ lockFree' = TRUE
    /\ failed' = IF client = None THEN failed \cup {"get"} ELSE failed
    /\ Goto(t, "idle")
    /\ UNCHANGED <<client, built, open, target, warned, limits, overlapped>>

-----------------------------------------------------------------------------
(* flush_posthog                                                           *)

FlushCheck(t) ==
    /\ At(t, "idle")
    /\ client # None
    /\ Goto(t, "flushCall")
    /\ UNCHANGED <<client, built, open, target, lockFree, warned, limits, failed, overlapped>>

\* _client.flush() on what _client is by now: None has no such attribute.
FlushCall(t) ==
    /\ At(t, "flushCall")
    /\ failed' = IF client = None THEN failed \cup {"flush"} ELSE failed
    /\ Goto(t, "idle")
    /\ UNCHANGED <<client, built, open, target, lockFree, warned, limits, overlapped>>

-----------------------------------------------------------------------------
(* shutdown_posthog                                                        *)

\* The threads past shutdown_posthog's test of _client and not yet out of it.
Stopping == {t \in Threads : pc[t] \in {"shutdownCall", "shuttingDown", "shutdownClear"}}

ShutdownCheck(t) ==
    /\ At(t, "idle")
    /\ client # None
    /\ overlapped' = (overlapped \/ Stopping # {})
    /\ Goto(t, "shutdownCall")
    /\ UNCHANGED <<client, built, open, target, lockFree, warned, limits, failed>>

\* Mutant: clear the singleton first and shut the client down afterwards.
ShutdownClearsFirst(t) ==
    /\ At(t, "shutdownCall")
    /\ client # None
    /\ target' = [target EXCEPT ![t] = client]
    /\ client' = None
    /\ Goto(t, "shuttingDown")
    /\ UNCHANGED <<built, open, lockFree, warned, limits, failed, overlapped>>

\* The SDK's shutdown starts on what _client is by now.
ShutdownCall(t) ==
    /\ At(t, "shutdownCall")
    /\ client # None
    /\ target' = [target EXCEPT ![t] = client]
    /\ Goto(t, "shuttingDown")
    /\ UNCHANGED <<client, built, open, lockFree, warned, limits, failed, overlapped>>

ShutdownRaises(t) ==
    /\ At(t, "shutdownCall")
    /\ client = None
    /\ failed' = failed \cup {"shutdown"}
    /\ Goto(t, "idle")
    /\ UNCHANGED <<client, built, open, target, lockFree, warned, limits, overlapped>>

ShutdownDone(t) ==
    /\ At(t, "shuttingDown")
    /\ open' = open \ {target[t]}
    /\ target' = [target EXCEPT ![t] = None]
    /\ Goto(t, "shutdownClear")
    /\ UNCHANGED <<client, built, lockFree, warned, limits, failed, overlapped>>

\* _client = None, whichever client it holds by now.
ShutdownClear(t) ==
    /\ At(t, "shutdownClear")
    /\ client' = None
    /\ Goto(t, "idle")
    /\ UNCHANGED <<built, open, target, lockFree, warned, limits, failed, overlapped>>

-----------------------------------------------------------------------------
Get(t) ==
    \/ \E p \in Prefixes : GetUnconfigured(t, p)
    \/ GetEnter(t) \/ GetFound(t) \/ GetConstruct(t) \/ GetRaises(t) \/ GetStore(t) \/ GetReturn(t)
Flush(t) == FlushCheck(t) \/ FlushCall(t)
ShutdownProceeds(t) == ShutdownCall(t) \/ ShutdownRaises(t) \/ ShutdownDone(t) \/ ShutdownClear(t)

Next ==
    \/ \E t \in Getters : Get(t)
    \/ \E t \in Flushers : Flush(t)
    \/ \E t \in Closers : ShutdownCheck(t) \/ ShutdownProceeds(t)

Spec == Init /\ [][Next]_vars

-----------------------------------------------------------------------------
(* Properties                                                              *)

Inside == {t \in Threads : pc[t] \in {"getCheck", "getStore", "getReturn"}}

\* Every variable has its type, and _lock is held exactly while one getter is
\* inside it.
TypeOK ==
    /\ built \in 0..MaxClients
    /\ client \in 0..built
    /\ open \in SUBSET (1..built)
    /\ pc \in [Threads -> {"idle", "getCheck", "getStore", "getReturn", "flushCall",
                           "shutdownCall", "shuttingDown", "shutdownClear"}]
    /\ target \in [Threads -> 0..built]
    /\ lockFree \in BOOLEAN
    /\ lockFree <=> Inside = {}
    /\ \A t, u \in Inside : t = u
    /\ warned \in SUBSET Prefixes
    /\ failed \in SUBSET {"get", "flush", "shutdown"}
    /\ overlapped \in BOOLEAN

\* At most one client is open at a time: the process has one consumer thread,
\* one queue and one bucket, whatever the getters and the closers do, until two
\* shutdowns overlap.
OneOpenClient == overlapped \/ \A c, d \in open : c = d

\* No client is orphaned: an open one is cached, or about to be, or a shutdown
\* call is closing it.  Of two overlapping shutdowns the late one may clear a
\* client built after the first.
NoOrphan ==
    overlapped \/ \A c \in open : c = client \/ \E t \in Threads : target[t] = c

\* Why that is so while shutdowns do not overlap: a client is built only when
\* none is cached, the closer keeps its client cached until that client is shut
\* down, and so the open client is the cached one or the one about to be stored.
OneLife ==
    /\ \A t, u \in Stopping : t = u
    /\ Stopping # {} => client # None
    /\ \A t \in Threads : pc[t] = "getStore" => client = None /\ target[t] = built
    /\ \A t \in Threads : pc[t] = "shuttingDown" => target[t] = client
    /\ open = IF \E t \in Threads : pc[t] = "shutdownClear" THEN {}
              ELSE IF client # None THEN {client}
              ELSE {target[t] : t \in {u \in Threads : pc[u] = "getStore"}}

\* Until two shutdowns overlap the clients live as module ResourceSlot says: one
\* is built only when there is none, and leaves the slot into the hands of the
\* one shutdown that ends it.  A client is in the slot from its construction until
\* its shutdown begins, although _client is set later and cleared later.
Cached ==
    IF \E t \in Threads : pc[t] \in {"shuttingDown", "shutdownClear"} THEN None
    ELSE IF \E t \in Threads : pc[t] = "getStore" THEN built
    ELSE client

Fate ==
    [c \in 1..MaxClients |->
       IF c > built THEN "unbuilt"
       ELSE IF c \notin open THEN "torn"
       ELSE IF \E t \in Threads : pc[t] = "shuttingDown" /\ target[t] = c THEN "closing"
       ELSE "cached"]

Slot == INSTANCE ResourceSlot WITH Resources <- 1..MaxClients, slot <- Cached, fate <- Fate
ImplementsSlot == Slot!Init /\ [][overlapped' \/ Slot!Next]_(Slot!vars)

\* Whatever the environment holds, the proxy it makes lets captures through
\* and limits them: a burst of a token at least and a rate above zero (the
\* assumptions of module RateLimiter), each as it was set where that makes
\* sense; only a number that is not positive, set as the rate, turns the limit
\* off, and a mistake in one variable never disturbs the other.
LimitUsable ==
    LET given(raw, least) == raw.is = "number" /\ raw.value >= least
    IN  built > 0 =>
          /\ limit.limited <=> ~ (env.rate.is = "number" /\ env.rate.value <= 0)
          /\ limit.limited =>
               /\ limit.burst >= Unit /\ limit.rate > 0
               /\ given(env.rate, 1) => limit.rate = env.rate.value
               /\ given(env.burst, Unit) => limit.burst = env.burst.value

\* The docstrings: flush is a safe no-op when there is no client.
FlushIsSafe == "flush" \notin failed
=============================================================================
