------------------------------ MODULE ErrorsGate ------------------------------
(***************************************************************************)
(* The admission gate of PosthogErrorsClient: a same-fingerprint dedupe    *)
(* window, then a token bucket, then a bounded table of the fingerprints   *)
(* seen.  Dropped records are counted and logged at most once a minute.    *)
(*                                                                         *)
(* _admit decides everything under _gate_lock and only then logs or sends, *)
(* so one record is one step here; what the threads do after the lock is   *)
(* module ErrorReporting.                                                  *)
(***************************************************************************)
EXTENDS Integers, Sequences, FiniteSets

CONSTANTS
    Keys,           \* fingerprints
    Unit,           \* grains in one token
    Rate,           \* grains refilled per tick (daily_ceiling / 86400)
    Burst,          \* ERRORS_BURST, in grains
    Window,         \* dedupe_window_seconds, in ticks
    MaxTracked,     \* _MAX_TRACKED_FINGERPRINTS
    LogInterval,    \* _DROP_LOG_INTERVAL_SECONDS, in ticks
    MaxClock,       \* bound on the clock
    MaxRecords      \* bound on the records offered

ASSUME GateAssumption ==
    /\ Unit \in Nat \ {0}
    /\ Rate \in Nat
    /\ Burst \in Nat
    /\ Burst >= Unit
    /\ Window \in Nat
    /\ MaxTracked \in Nat \ {0}
    /\ LogInterval \in Nat

VARIABLES
    clock,          \* time.monotonic()
    tokens,         \* _tokens, in grains
    lastRefill,     \* _last_refill
    seen,           \* _seen: when each fingerprint of the table was admitted
    dropped,        \* _dropped
    lastDropLog,    \* _last_drop_log; Never stands for None
    admits,         \* history: the records admitted, with their times
    drops,          \* history: times of the records dropped
    logs            \* history: the drop warnings, with their times

vars == <<clock, tokens, lastRefill, seen, dropped, lastDropLog, admits, drops, logs>>

Never == -1

Init ==
    /\ clock = 0
    /\ tokens = Burst
    /\ lastRefill = 0
    /\ seen = [k \in {} |-> 0]
    /\ dropped = 0
    /\ lastDropLog = Never
    /\ admits = <<>>
    /\ drops = <<>>
    /\ logs = <<>>

-----------------------------------------------------------------------------
(* The table of fingerprints                                               *)

\* A fingerprint admitted at time at is still inside its window.
Fresh(at) == clock - at < Window

\* A record of key k repeats one admitted within the window.
Duplicate(k) == k \in DOMAIN seen /\ Fresh(seen[k])

Unexpired == {k \in DOMAIN seen : Fresh(seen[k])}
Full(ks) == Cardinality(ks) >= MaxTracked
Oldest(ks) == {k \in ks : \A j \in ks : seen[k] <= seen[j]}

\* Mutant: eviction drops one entry of any age.
EvictAnyOne ==
    IF Full(DOMAIN seen) THEN {DOMAIN seen \ {k} : k \in DOMAIN seen} ELSE {DOMAIN seen}

\* What the table may keep before one more entry goes in: everything while it
\* has room, else what has not expired, else that without one of the oldest.
Kept ==
    IF ~ Full(DOMAIN seen) THEN {DOMAIN seen}
    ELSE IF ~ Full(Unexpired) THEN {Unexpired}
    ELSE {Unexpired \ {k} : k \in Oldest(Unexpired)}

-----------------------------------------------------------------------------
(* The bucket                                                              *)

\* Mutant: the refill forgets min(burst, ...).
RefilledUncapped == tokens + (clock - lastRefill) * Rate

\* The bucket refilled at the current time.
Refilled ==
    LET full == tokens + (clock - lastRefill) * Rate
    IN  IF full < Burst THEN full ELSE Burst

HasToken == Refilled >= Unit

-----------------------------------------------------------------------------
(* _admit                                                                  *)

\* Mutant: the counter survives the warning.
KeepCount == dropped + 1

\* A warning about the drops is due.
LogDue == lastDropLog = Never \/ clock - lastDropLog >= LogInterval

\* _dropped after a warning.
ResetCount == 0

\* _count_drop_locked: count the drop, and log the count if that is due.
CountDrop ==
    /\ drops' = Append(drops, clock)
    /\ IF LogDue
         THEN /\ logs' = Append(logs, [at |-> clock, count |-> dropped + 1, upto |-> Len(drops) + 1])
              /\ dropped' = ResetCount
              /\ lastDropLog' = clock
         ELSE /\ dropped' = dropped + 1
              /\ UNCHANGED <<logs, lastDropLog>>

MayOffer == Len(admits) + Len(drops) < MaxRecords

\* Mutant: the bucket is charged before the repeat is recognised.
DropDuplicateCharged(k) ==
    /\ MayOffer
    /\ Duplicate(k)
    /\ HasToken
    /\ tokens' = Refilled - Unit
    /\ lastRefill' = clock
    /\ CountDrop
    /\ UNCHANGED <<clock, seen, admits>>

\* A repeat within the window: dropped before the bucket is looked at.
DropDuplicate(k) ==
    /\ MayOffer
    /\ Duplicate(k)
    /\ CountDrop
    /\ UNCHANGED <<clock, tokens, lastRefill, seen, admits>>

\* No token: dropped, and the key is not entered in the table.
DropOverBudget(k) ==
    /\ MayOffer
    /\ ~ Duplicate(k)
    /\ ~ HasToken
    /\ tokens' = Refilled
    /\ lastRefill' = clock
    /\ CountDrop
    /\ UNCHANGED <<clock, seen, admits>>

\* Mutant: only a key that is not in the table is entered.
EnteredOnce(k, kept) ==
    [j \in kept \cup {k} |-> IF j \in DOMAIN seen THEN seen[j] ELSE clock]

\* The table keeping the keys of kept, with k entered or brought up to date.
Entered(k, kept) == [j \in kept \cup {k} |-> IF j = k THEN clock ELSE seen[j]]

Admit(k) ==
    /\ MayOffer
    /\ ~ Duplicate(k)
    /\ HasToken
    /\ tokens' = Refilled - Unit
    /\ lastRefill' = clock
    /\ \E kept \in Kept : seen' = Entered(k, kept)
    /\ admits' = Append(admits, [key |-> k, at |-> clock])
    /\ UNCHANGED <<clock, dropped, lastDropLog, drops, logs>>

Tick ==
    /\ clock < MaxClock
    /\ clock' = clock + 1
    /\ UNCHANGED <<tokens, lastRefill, seen, dropped, lastDropLog, admits, drops, logs>>

Next ==
    \/ \E k \in Keys : DropDuplicate(k) \/ DropOverBudget(k) \/ Admit(k)
    \/ Tick

Spec == Init /\ [][Next]_vars

-----------------------------------------------------------------------------
(* Properties                                                              *)

\* Every variable has its type, the bucket stays between empty and full, and
\* the table, whatever is thrown at it, within its capacity.
TypeOK ==
    /\ clock \in Nat
    /\ tokens \in 0..Burst
    /\ lastRefill \in 0..clock
    /\ DOMAIN seen \in SUBSET Keys
    /\ \A k \in DOMAIN seen : seen[k] \in 0..lastRefill
    /\ Cardinality(DOMAIN seen) <= MaxTracked
    /\ dropped \in Nat
    /\ lastDropLog \in Nat \cup {Never}
    /\ admits \in Seq([key : Keys, at : Nat])
    /\ drops \in Seq(Nat)
    /\ logs \in Seq([at : Nat, count : Nat, upto : Nat])

\* The table is large enough: what the bucket can admit within one window, and
\* one more, fit.  The production table of 1000 meets this for every daily
\* ceiling up to 1.4 million events.
CapacitySuffices == Burst + Rate * Window < (MaxTracked + 1) * Unit

\* An eviction never drops a fingerprint whose window is still open.
NoEarlyEviction == HasToken => \A kept \in Kept : Unexpired \subseteq kept

\* What the table owes the bucket: the fingerprints entered since s, each of
\* which cost a token, and the tokens left fit what the window since s granted.
EnteredSince(s) == {k \in DOMAIN seen : seen[k] >= s}
TableFitsBudget ==
    \A s \in 0..lastRefill :
        Cardinality(EnteredSince(s)) * Unit + tokens <= Burst + Rate * (lastRefill - s)

\* An event still inside its window is in the table, under its own time or a
\* later one.
Remembers(i) ==
    clock - admits[i].at < Window
        => admits[i].key \in DOMAIN seen /\ seen[admits[i].key] >= admits[i].at
OpenWindowsRemembered == \A i \in 1..Len(admits) : Remembers(i)

\* The dedupe window is exact: two events of one fingerprint are never closer
\* than the window.
DedupeExact ==
    \A i, j \in 1..Len(admits) :
        i < j /\ admits[i].key = admits[j].key => admits[j].at - admits[i].at >= Window

\* The events sent between any two of them fit the burst plus the ceiling's
\* rate: the monthly allowance is not blown by any sequence of records.
AdmissionBound ==
    \A i \in 1..Len(admits) : \A j \in i..Len(admits) :
        (j - i + 1) * Unit <= Burst + Rate * (admits[j].at - admits[i].at)

\* A record is dropped only for a reason a caller could name: the same
\* fingerprint was sent within the window, or one more event would not fit
\* the windows behind it.  In particular repeats never use up the budget.
Repeated(k) == \E i \in 1..Len(admits) : admits[i].key = k /\ clock - admits[i].at < Window
OverBudget ==
    \E i \in 1..Len(admits) :
        (Len(admits) - i + 2) * Unit > Burst + Rate * (clock - admits[i].at)
DropsJustified ==
    [][drops' # drops =>
          OverBudget \/ \E k \in Keys : Repeated(k) /\ DropDuplicate(k)]_vars

\* The warnings and the counter tile the drops in order: no drop is counted by
\* two warnings and none falls between two of them.  The warnings are a minute
\* apart.
LogsTileDrops ==
    LET last(i) == IF i = 0 THEN 0 ELSE logs[i].upto
    IN  /\ \A i \in 1..Len(logs) : logs[i].upto - logs[i].count = last(i - 1)
        /\ Len(drops) - dropped = last(Len(logs))
        /\ \A i \in 2..Len(logs) : logs[i].at - logs[i - 1].at >= LogInterval
=============================================================================
