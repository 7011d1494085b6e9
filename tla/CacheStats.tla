------------------------------ MODULE CacheStats ------------------------------
(***************************************************************************)
(* cache_stats.py: the statistics dict in a ContextVar, as the tasks and   *)
(* threads of several requests use it.                                     *)
(*                                                                         *)
(* A task or thread that is started for a request gets a copy of the       *)
(* starter's context: the same dict object.  record reads an entry, adds,  *)
(* and writes it back.  Code on the event loop does so in one go as far as *)
(* the rest of the loop goes, but threads may run in between: the          *)
(* interpreter can switch at the call of stats.get.                        *)
(***************************************************************************)
EXTENDS Integers

CONSTANTS
    Requests,   \* the tasks that serve requests, each in a context of its own
    Helpers,    \* tasks and threads the requests start
    MaxDicts,   \* bound on the dicts made
    MaxRecords  \* bound on the records complete when one begins

ASSUME StatsAssumption ==
    /\ Requests \cap Helpers = {}
    /\ MaxDicts \in Nat \ {0}
    /\ MaxRecords \in Nat

VARIABLES
    var,        \* each context's _cache_stats_var: a dict, or Unset
    made,       \* how many dicts there are
    value,      \* each dict's entry for the one key recorded
    reading,    \* for a record under way: the value read, else NotReading
    threads,    \* the helpers that are threads
    starter,    \* history: the request each helper works for
    owner,      \* history: the request for which each dict was made
    users,      \* history: the requests that recorded in each dict
    done,       \* history: how many records in each dict are complete
    threaded    \* history: the dicts that threads recorded in

stats == <<var, made, value, reading, threads, starter, owner, users, done, threaded>>

Workers == Requests \cup Helpers
Dicts == 1..MaxDicts
Unset == 0
NotReading == -1
Nobody == "nobody"

StatsInit ==
    /\ var = [t \in Workers |-> Unset]
    /\ made = 0
    /\ value = [d \in Dicts |-> 0]
    /\ reading = [t \in Workers |-> NotReading]
    /\ threads = {}
    /\ starter = [h \in Helpers |-> Nobody]
    /\ owner = [d \in Dicts |-> Nobody]
    /\ users = [d \in Dicts |-> {}]
    /\ done = [d \in Dicts |-> 0]
    /\ threaded = {}

Family(t) == IF t \in Requests THEN t ELSE starter[t]
Started(t) == Family(t) # Nobody
Busy(t) == reading[t] # NotReading

\* Code on the loop goes on only while no other is between two of its awaits.
\* (Mutant: record awaits something.)
AlwaysHasTheLoop(t) == TRUE
HasTheLoop(t) == t \notin threads => \A u \in Workers \ (threads \cup {t}) : ~ Busy(u)

Ready(t) == Started(t) /\ ~ Busy(t) /\ HasTheLoop(t)

-----------------------------------------------------------------------------
(* A request starts a task or a thread, which copies its context.          *)

Start(h, r, asThread) ==
    /\ starter[h] = Nobody
    /\ Ready(r)
    /\ starter' = [starter EXCEPT ![h] = r]
    /\ threads' = IF asThread THEN threads \cup {h} ELSE threads
    /\ var' = [var EXCEPT ![h] = var[r]]
    /\ UNCHANGED <<made, value, reading, owner, users, done, threaded>>

-----------------------------------------------------------------------------
(* init_cache_stats                                                        *)

\* dict.fromkeys(_BASE_KEYS, 0), or extra_keys' setdefault.
Seeded == 0

\* Mutant: one dict for the whole process, as a mutable default would be.
TheDict == 1

FreshDict == made + 1

InitCacheStats(t) ==
    /\ Ready(t)
    /\ made < MaxDicts
    /\ made' = made + 1
    /\ value' = [value EXCEPT ![FreshDict] = Seeded]
    /\ owner' = [owner EXCEPT ![FreshDict] = Family(t)]
    /\ var' = [var EXCEPT ![t] = FreshDict]
    /\ UNCHANGED <<reading, threads, starter, users, done, threaded>>

-----------------------------------------------------------------------------
(* CacheStatsRecorder.record; timed_pg and timed_api end in it.  Without a *)
(* dict it does nothing.                                                   *)

RecordRead(t) ==
    /\ Ready(t)
    /\ var[t] # Unset
    /\ done[var[t]] < MaxRecords
    /\ reading' = [reading EXCEPT ![t] = value[var[t]]]
    /\ threaded' = IF t \in threads THEN threaded \cup {var[t]} ELSE threaded
    /\ users' = [users EXCEPT ![var[t]] = @ \cup {Family(t)}]
    /\ UNCHANGED <<var, made, value, threads, starter, owner, done>>

RecordWrite(t) ==
    /\ Busy(t)
    /\ value' = [value EXCEPT ![var[t]] = reading[t] + 1]
    /\ reading' = [reading EXCEPT ![t] = NotReading]
    /\ done' = [done EXCEPT ![var[t]] = @ + 1]
    /\ UNCHANGED <<var, made, threads, starter, owner, users, threaded>>

-----------------------------------------------------------------------------
StatsNext ==
    \/ \E h \in Helpers, r \in Requests, asThread \in BOOLEAN : Start(h, r, asThread)
    \/ \E t \in Workers : InitCacheStats(t) \/ RecordRead(t) \/ RecordWrite(t)

StatsSpec == StatsInit /\ [][StatsNext]_stats

-----------------------------------------------------------------------------
(* Properties                                                              *)

\* Every variable has its type, and a record under way has a dict to write to.
StatsTypeOK ==
    /\ made \in 0..MaxDicts
    /\ var \in [Workers -> 0..made]
    /\ value \in [Dicts -> Nat]
    /\ reading \in [Workers -> Nat \cup {NotReading}]
    /\ threads \in SUBSET Helpers
    /\ starter \in [Helpers -> Requests \cup {Nobody}]
    /\ owner \in [Dicts -> Requests \cup {Nobody}]
    /\ users \in [Dicts -> SUBSET Requests]
    /\ done \in [Dicts -> Nat]
    /\ threaded \in SUBSET (1..made)
    /\ \A t \in Workers : Busy(t) => var[t] # Unset

\* The module's promise of per-request statistics: a dict is only ever written
\* on behalf of the request it was made for, by whichever of its tasks.
Isolated == \A d \in 1..made : users[d] \subseteq {owner[d]}

\* The tasks of a request that stay on the loop lose no record among them.
ExactOnTheLoop == \A d \in 1..made \ threaded : value[d] = done[d]

\* Threads may lose records, but none is counted that was not made.
NeverTooMany == \A d \in 1..made : value[d] <= done[d]

-----------------------------------------------------------------------------
(* What makes them so                                                      *)

\* A context holds a dict of its own request or none; so does a helper's, once
\* it is started.
Owned ==
    \A t \in Workers :
        /\ var[t] # Unset => owner[var[t]] = Family(t) /\ Family(t) \in Requests
        /\ ~ Started(t) => var[t] = Unset

Unused == \A d \in Dicts : d > made => done[d] = 0 /\ users[d] = {}

\* Of the code on the loop one record at most is under way; a record under way
\* in a thread marks its dict; and what any of them has read is no more than
\* there is to read, and just that if no thread is at it.
Reads ==
    /\ \A t, u \in Workers \ threads : Busy(t) /\ Busy(u) => t = u
    /\ \A t \in threads : Busy(t) => var[t] \in threaded
    /\ \A t \in Workers : Busy(t) =>
         /\ reading[t] <= done[var[t]]
         /\ var[t] \notin threaded => reading[t] = value[var[t]]

StatsInv ==
    StatsTypeOK /\ Isolated /\ ExactOnTheLoop /\ NeverTooMany /\ Owned /\ Unused /\ Reads
=============================================================================
