---------------------------- MODULE ErrorsLifecycle ----------------------------
(***************************************************************************)
(* get_posthog_errors_client, shutdown_posthog_errors and the wiring that  *)
(* init_error_tracking does with the client it gets: the root logger's     *)
(* handler, the excepthooks and the atexit hook.                           *)
(*                                                                         *)
(* The getter works under _lock; shutdown takes no lock and clears         *)
(* _init_failed, _config and _client one after the other, the last one     *)
(* only when the SDK's own shutdown is over.                               *)
(*                                                                         *)
(* isolated_error_tracking puts all of this aside for a test's block, in   *)
(* which clients are stubs, and back afterwards.  It touches the globals   *)
(* without a lock: no call is under way when a block begins or ends.       *)
(***************************************************************************)
EXTENDS Naturals, Sequences, SequencesExt

CONSTANTS
    Inits,      \* threads that call init_error_tracking
    Getters,    \* threads that call get_posthog_errors_client themselves
    Closers,    \* threads that call shutdown_posthog_errors
    Configs,    \* (service, environment, daily_ceiling) arguments
    Unset,      \* _config's None
    MaxClients, \* bound on the clients ever built
    MaxFailures,\* bound on the builds that fail
    MaxResets,  \* bound on the shutdowns
    MaxBlocks   \* bound on the blocks of isolated_error_tracking

ASSUME LifecycleAssumption ==
    /\ Unset \notin Configs
    /\ MaxClients \in Nat
    /\ MaxFailures \in Nat

VARIABLES
    apiKey,     \* POSTHOG_ERRORS_API_KEY is set
    client,     \* _client: the number of the cached client, or None
    config,     \* _config
    initFailed, \* _init_failed
    conflicts,  \* _warned_conflicts
    lockFree,   \* _lock is not held
    exitHooks,  \* atexit's hooks, the newest last
    handlers,   \* the clients of the root logger's PosthogErrorsHandlers
    hooksInstalled, \* _hooks_installed
    hooks,      \* the clients the chained excepthooks report to, newest first
    blocks,     \* what each open block of isolated_error_tracking saved
    pc,         \* where each thread is
    wants,      \* the arguments of the call a thread is in
    held,       \* the client a thread has built, been given or is closing
    homes,      \* history: the block each client was built in
    open,       \* history: clients the SDK has not shut down
    failures,   \* history: builds that failed
    failedIn,   \* history: the blocks they failed in
    entered,    \* history: how many blocks were entered
    resets,     \* history: shutdowns begun
    overlapped  \* history: two threads were past shutdown's check at once

singleton == <<client, config, initFailed, conflicts, lockFree>>
wiring == <<exitHooks, handlers, hooksInstalled, hooks>>
isolation == <<apiKey, blocks, entered>>
history == <<homes, open, failures, failedIn, resets, overlapped>>
vars == <<singleton, wiring, isolation, pc, wants, held, history>>

None == 0
Threads == Inits \cup Getters \cup Closers
Join(n) == [hook |-> "join", of |-> n]
Wxyc == [hook |-> "wxyc", of |-> None]

Init ==
    /\ client = None
    /\ config = Unset
    /\ initFailed = FALSE
    /\ conflicts = {}
    /\ lockFree = TRUE
    /\ exitHooks = <<>>
    /\ handlers = <<>>
    /\ hooksInstalled = FALSE
    /\ hooks = <<>>
    /\ apiKey \in BOOLEAN
    /\ blocks = <<>>
    /\ entered = 0
    /\ pc = [t \in Threads |-> "idle"]
    /\ wants = [t \in Threads |-> Unset]
    /\ held = [t \in Threads |-> None]
    /\ homes = <<>>
    /\ open = {}
    /\ failures = 0
    /\ failedIn = {}
    /\ resets = 0
    /\ overlapped = FALSE

Step(t, here, there) == pc[t] = here /\ pc' = [pc EXCEPT ![t] = there]
Holds(t, n) == held' = [held EXCEPT ![t] = n]

\* The arguments are gone with the call.
Forgets(t) == wants' = [wants EXCEPT ![t] = Unset]

\* The block the process is in: 0 outside of any, else its number.
Block == IF blocks = <<>> THEN 0 ELSE blocks[Len(blocks)].number

-----------------------------------------------------------------------------
(* get_posthog_errors_client                                               *)

GetEnter(t, cfg) ==
    /\ Step(t, "idle", "getCheck")
    /\ lockFree
    /\ lockFree' = FALSE
    /\ wants' = [wants EXCEPT ![t] = cfg]
    /\ UNCHANGED <<client, config, initFailed, conflicts, wiring, held, history>>

\* Without the key, or after a failed build, which is not tried again.
GetDisabled(t) ==
    /\ Step(t, "getCheck", "idle")
    /\ initFailed \/ ~ apiKey
    /\ lockFree' = TRUE
    /\ Forgets(t)
    /\ UNCHANGED <<client, config, initFailed, conflicts, wiring, held, history>>

\* The import or the constructor raises: one warning, remembered.
BuildFails(t) ==
    /\ Step(t, "getCheck", "idle")
    /\ apiKey /\ ~ initFailed
    /\ client = None
    /\ failures < MaxFailures
    /\ initFailed' = TRUE
    /\ lockFree' = TRUE
    /\ failures' = failures + 1
    /\ failedIn' = failedIn \cup {Block}
    /\ Forgets(t)
    /\ UNCHANGED <<client, config, conflicts, wiring, held, homes, open, resets, overlapped>>

\* The SDK client is constructed and puts its own join hook on atexit's stack;
\* in a block it is a stub, which does neither.
Build(t) ==
    /\ Step(t, "getCheck", "store")
    /\ apiKey /\ ~ initFailed
    /\ client = None
    /\ Len(homes) < MaxClients
    /\ homes' = Append(homes, Block)
    /\ Holds(t, Len(homes'))
    /\ IF Block = 0
         THEN /\ open' = open \cup {Len(homes')}
              /\ exitHooks' = Append(exitHooks, Join(Len(homes')))
         ELSE UNCHANGED <<open, exitHooks>>
    /\ UNCHANGED <<singleton, handlers, hooksInstalled, hooks, wants, failures, failedIn, resets,
                   overlapped>>

StoreClient(t) ==
    /\ Step(t, "store", "storeConfig")
    /\ client' = held[t]
    /\ UNCHANGED <<config, initFailed, conflicts, lockFree, wiring, wants, held, history>>

StoreConfig(t) ==
    /\ Step(t, "storeConfig", "register")
    /\ config' = wants[t]
    /\ UNCHANGED <<client, initFailed, conflicts, lockFree, wiring, wants, held, history>>

\* Mutant: a hook registered once is not registered again.
RegisterOnce ==
    IF Wxyc \in {exitHooks[i] : i \in 1..Len(exitHooks)} THEN exitHooks
    ELSE Append(exitHooks, Wxyc)

\* atexit.unregister, then register: one live registration, the newest hook.
\* (unregister takes out every registration; there is one at most.)
Reregistered ==
    LET registered == {i \in 1..Len(exitHooks) : exitHooks[i] = Wxyc}
    IN  Append(IF registered = {} THEN exitHooks
               ELSE RemoveAt(exitHooks, CHOOSE i \in registered : TRUE), Wxyc)

Register(t) ==
    /\ Step(t, "register", "getReturn")
    /\ exitHooks' = Reregistered
    /\ UNCHANGED <<singleton, handlers, hooksInstalled, hooks, wants, held, history>>

GetExisting(t) ==
    /\ Step(t, "getCheck", "compare")
    /\ apiKey /\ ~ initFailed
    /\ client # None
    /\ UNCHANGED <<singleton, wiring, wants, held, history>>

\* A configuration that differs from the cached one and was not warned about.
IsNewConflict(cfg) == cfg # config /\ cfg \notin conflicts

Compare(t) ==
    /\ Step(t, "compare", "getReturn")
    /\ conflicts' = IF IsNewConflict(wants[t]) THEN conflicts \cup {wants[t]} ELSE conflicts
    /\ UNCHANGED <<client, config, initFailed, lockFree, wiring, wants, held, history>>

\* return _client, whatever it is by now; init_error_tracking stops on None.
GetReturn(t) ==
    /\ Step(t, "getReturn", IF t \in Inits /\ client # None THEN "wire" ELSE "idle")
    /\ lockFree' = TRUE
    /\ Holds(t, IF t \in Inits THEN client ELSE None)
    /\ Forgets(t)
    /\ UNCHANGED <<client, config, initFailed, conflicts, wiring, history>>

-----------------------------------------------------------------------------
(* init_error_tracking                                                     *)

NeedsHandler == handlers = <<>>

\* The handler list is read ...
AttachCheck(t) ==
    /\ Step(t, "wire", IF NeedsHandler THEN "attach" ELSE "hooks")
    /\ UNCHANGED <<singleton, wiring, wants, held, history>>

\* ... and extended later.
Attach(t) ==
    /\ Step(t, "attach", "hooks")
    /\ handlers' = Append(handlers, held[t])
    /\ UNCHANGED <<singleton, exitHooks, hooksInstalled, hooks, wants, held, history>>

\* Mutant: every call chains a hook of its own.
HooksOf(t) == <<held[t]>> \o hooks

\* The first call chains its hooks before those that are there; the flag turns
\* the others away.
HooksAfter(t) == IF hooksInstalled THEN hooks ELSE <<held[t]>> \o hooks

InstallHooks(t) ==
    /\ Step(t, "hooks", "idle")
    /\ hooks' = HooksAfter(t)
    /\ hooksInstalled' = TRUE
    /\ Holds(t, None)
    /\ UNCHANGED <<singleton, exitHooks, handlers, wants, history>>

-----------------------------------------------------------------------------
(* shutdown_posthog_errors, called or run by atexit                        *)

ResetFailed(t) ==
    /\ Step(t, "idle", "resetConfig")
    /\ resets < MaxResets
    /\ initFailed' = FALSE
    /\ resets' = resets + 1
    /\ UNCHANGED <<client, config, conflicts, lockFree, wiring, wants, held,
                   homes, open, failures, failedIn, overlapped>>

ResetConfig(t) ==
    /\ Step(t, "resetConfig", "shutdownCheck")
    /\ config' = Unset
    /\ UNCHANGED <<client, initFailed, conflicts, lockFree, wiring, wants, held, history>>

Stopping == {t \in Threads : pc[t] \in {"shutdownCall", "shuttingDown", "clear"}}

\* _client is tested here and read again for its shutdown.
ShutdownCheck(t) ==
    /\ Step(t, "shutdownCheck", IF client = None THEN "idle" ELSE "shutdownCall")
    /\ overlapped' = (overlapped \/ (client # None /\ Stopping # {}))
    /\ UNCHANGED <<singleton, wiring, wants, held, homes, open, failures, failedIn, resets>>

\* Mutant: the singleton is cleared before the SDK has shut it down.
ShutdownCallClears(t) ==
    /\ Step(t, "shutdownCall", IF client = None THEN "idle" ELSE "shuttingDown")
    /\ Holds(t, client)
    /\ client' = None
    /\ UNCHANGED <<config, initFailed, conflicts, lockFree, wiring, wants, history>>

\* If another closer has cleared it, None.shutdown raises and the call is over.
ShutdownCall(t) ==
    /\ Step(t, "shutdownCall", IF client = None THEN "idle" ELSE "shuttingDown")
    /\ Holds(t, client)
    /\ UNCHANGED <<singleton, wiring, wants, history>>

ShutdownDone(t) ==
    /\ Step(t, "shuttingDown", "clear")
    /\ open' = open \ {held[t]}
    /\ UNCHANGED <<singleton, wiring, wants, held, homes, failures, failedIn, resets, overlapped>>

Clear(t) ==
    /\ Step(t, "clear", "idle")
    /\ client' = None
    /\ Holds(t, None)
    /\ UNCHANGED <<config, initFailed, conflicts, lockFree, wiring, wants, history>>

-----------------------------------------------------------------------------
(* isolated_error_tracking                                                 *)

Quiet == \A t \in Threads : pc[t] = "idle"

\* What a block puts aside: root.handlers, the excepthooks, their flag, and the
\* singleton's three globals; mock.patch.dict does the environment.
Saved == [number |-> entered + 1, apiKey |-> apiKey, handlers |-> handlers,
          hooksInstalled |-> hooksInstalled, hooks |-> hooks,
          client |-> client, config |-> config, initFailed |-> initFailed]

\* Mutant: the handler that is there stays on the root logger.
HandlersKept == handlers

\* The root logger without its PosthogErrorsHandlers.
HandlersInBlock == <<>>

EnterBlock ==
    /\ Quiet
    /\ entered < MaxBlocks
    /\ entered' = entered + 1
    /\ blocks' = Append(blocks, Saved)
    /\ apiKey' = TRUE
    /\ client' = None
    /\ config' = Unset
    /\ initFailed' = FALSE
    /\ hooksInstalled' = FALSE
    /\ handlers' = HandlersInBlock
    /\ UNCHANGED <<conflicts, lockFree, exitHooks, hooks, pc, wants, held, history>>

\* Also when the body raises.  _warned_conflicts and atexit's hooks stay as the
\* block leaves them.
ExitBlock ==
    /\ Quiet
    /\ blocks # <<>>
    /\ LET saved == blocks[Len(blocks)]
       IN  /\ apiKey' = saved.apiKey
           /\ handlers' = saved.handlers
           /\ hooksInstalled' = saved.hooksInstalled
           /\ hooks' = saved.hooks
           /\ client' = saved.client
           /\ config' = saved.config
           /\ initFailed' = saved.initFailed
    /\ blocks' = SubSeq(blocks, 1, Len(blocks) - 1)
    /\ UNCHANGED <<entered, conflicts, lockFree, exitHooks, pc, wants, held, history>>

-----------------------------------------------------------------------------
Get(t) ==
    \/ \E cfg \in Configs : GetEnter(t, cfg)
    \/ GetDisabled(t) \/ BuildFails(t) \/ Build(t) \/ StoreClient(t) \/ StoreConfig(t)
    \/ Register(t) \/ GetExisting(t) \/ Compare(t) \/ GetReturn(t)
Wire(t) == AttachCheck(t) \/ Attach(t) \/ InstallHooks(t)
Close(t) ==
    ResetFailed(t) \/ ResetConfig(t) \/ ShutdownCheck(t) \/ ShutdownCall(t)
    \/ ShutdownDone(t) \/ Clear(t)

Next ==
    \/ /\ \/ \E t \in Inits : Get(t) \/ Wire(t)
          \/ \E t \in Getters : Get(t)
          \/ \E t \in Closers : Close(t)
       /\ UNCHANGED isolation
    \/ EnterBlock
    \/ ExitBlock

Spec == Init /\ [][Next]_vars

-----------------------------------------------------------------------------
(* Properties                                                              *)

InGet == {"getCheck", "store", "storeConfig", "register", "compare", "getReturn"}
Building == \E t \in Threads : pc[t] \in {"store", "storeConfig", "register"}

\* Every variable has its type, and _lock is held exactly while one thread is
\* inside the getter.
TypeOK ==
    /\ client \in 0..Len(homes)
    /\ config \in Configs \cup {Unset}
    /\ initFailed \in BOOLEAN
    /\ conflicts \in SUBSET Configs
    /\ lockFree = (\A t \in Threads : pc[t] \notin InGet)
    /\ \A t, u \in Threads : pc[t] \in InGet /\ pc[u] \in InGet => t = u
    /\ hooksInstalled => hooks # <<>>
    /\ held \in [Threads -> 0..Len(homes)]
    /\ wants \in [Threads -> Configs \cup {Unset}]
    /\ open \subseteq 1..Len(homes)

\* At interpreter exit hooks run newest first: whenever a client is cached and
\* no build is under way, the one wxyc hook is newer than that client's join
\* hook, so its flush is not left waiting for a consumer that was joined.
ExitHookFirst ==
    client # None /\ ~ Building =>
        \E w \in 1..Len(exitHooks) :
            /\ exitHooks[w] = Wxyc
            /\ \A i \in 1..Len(exitHooks) :
                 /\ exitHooks[i] = Join(client) => i < w
                 /\ exitHooks[i] = Wxyc => i = w

\* At most one client is open, whatever the getters, a failing build and a
\* closer do to each other, as long as no two closers are past their checks at
\* once; _lock is left free however a get ends (TypeOK).
OneOpenClient == TypeOK /\ (overlapped \/ \A c, d \in open : c = d)

\* However often init_error_tracking runs, there is one logging handler, and
\* the excepthooks report to the same client as it does.
WiredOnce ==
    /\ Len(handlers) <= 1
    /\ handlers # <<>> /\ hooksInstalled => handlers[1] = Head(hooks)

\* The chain of excepthooks that the block the process is in has found.
OuterHooks == IF blocks = <<>> THEN <<>> ELSE blocks[Len(blocks)].hooks

\* The cached client, the handler and the remembered failure never cross the
\* edge of a block of isolated_error_tracking, in neither direction: they are
\* always of the block the process is in, and after the last one of none.  The
\* excepthooks of the block around stay in the chain, and are all of it until
\* the block's own init_error_tracking: an exception uncaught before that still
\* goes to the outer client; from then on the newest hook is the block's own.
IsolationHolds ==
    /\ client # None => homes[client] = Block
    /\ \A i \in 1..Len(handlers) : homes[handlers[i]] = Block
    /\ IF hooksInstalled
         THEN hooks # <<>> /\ homes[Head(hooks)] = Block /\ Tail(hooks) = OuterHooks
         ELSE hooks = OuterHooks
    /\ initFailed => Block \in failedIn
=============================================================================
