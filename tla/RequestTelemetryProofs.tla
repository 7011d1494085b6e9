------------------------- MODULE RequestTelemetryProofs -------------------------
(***************************************************************************)
(* The steps of a request (StepTelemetry), its cache statistics            *)
(* (CacheStats), and what its header and summary say of both               *)
(* (RequestTelemetry), for any number of tasks, steps, requests, helpers,  *)
(* dicts and records.                                                      *)
(***************************************************************************)
EXTENDS RequestTelemetry, SequenceTheorems, WellFoundedInduction, TLAPS

-----------------------------------------------------------------------------
(* The steps                                                               *)

LEMMA StepsInvInit == Init => StepsInv
  <1> SUFFICES ASSUME Init PROVE StepsInv
    OBVIOUS
  <1>1. TypeOK
    <2>1. look \in [Tasks -> {NoLook}]
      BY DEF Init
    <2>2. look \in [Tasks -> [of : {"entry", "exit"}, at : 0..clock] \cup {NoLook}]
      BY <2>1, Zenon
    <2>3. \A t \in Tasks : look[t].of # "exit"
      BY <2>1 DEF NoLook
    <2>4. /\ steps \in [Steps -> [duration : Int, success : BOOLEAN, ran : BOOLEAN]]
          /\ truth \in [Steps -> [spent : Int, alone : BOOLEAN]]
      BY DEF Init, NotRun, NoTruth
    <2>5. open \in [Tasks -> Seq(Blocks)]
      BY DEF Init
    <2>6. clock = 0 /\ stepStart = 0 /\ entries = 0
      BY DEF Init
    <2>7. crossed \in BOOLEAN
      BY Zenon DEF Init
    <2>8. clock \in Nat /\ stepStart \in 0..clock /\ entries \in Nat
      BY <2>6
    <2>9. \A t \in Tasks : look[t].of = "exit" => open[t] # <<>>
      BY <2>3
    <2> QED
      BY <2>2, <2>4, <2>5, <2>7, <2>8, <2>9, Zenon DEF TypeOK
  <1>2. NeverOverstated /\ ExactWhenAlone
    BY DEF Init, NeverOverstated, ExactWhenAlone, NotRun, NoTruth
  <1>3. OneAtATime /\ StartCovers
    BY DEF Init, OneAtATime, StartCovers, Midway
  <1> QED
    BY <1>1, <1>2, <1>3 DEF StepsInv

\* A time that is taken is not before the shared start.
LEMMA LookKeeps ==
    ASSUME StepsInv, NEW t \in Tasks, NEW what \in {"entry", "exit"}, Look(t, what),
           entries' \in Nat, what = "exit" => open[t] # <<>>
    PROVE  StepsInv'
  <1>u. /\ look' = [look EXCEPT ![t] = [of |-> what, at |-> clock]]
        /\ crossed' = (crossed \/ \E u \in Tasks : Midway(u))
        /\ UNCHANGED <<clock, stepStart, steps, open, truth>>
    BY DEF Look
  <1>t. clock \in Nat /\ stepStart \in 0..clock
    BY DEF StepsInv, TypeOK
  <1>l. /\ look'[t] = [of |-> what, at |-> clock]
        /\ \A u \in Tasks \ {t} : look'[u] = look[u]
    BY <1>u DEF StepsInv, TypeOK
  <1>1. TypeOK'
    <2>1. look' \in [Tasks -> [of : {"entry", "exit"}, at : 0..clock] \cup {NoLook}]
      BY <1>u, <1>t DEF StepsInv, TypeOK
    <2>2. \A u \in Tasks : look'[u].of = "exit" => open[u] # <<>>
      BY <1>l DEF StepsInv, TypeOK
    <2> QED
      BY <1>u, <2>1, <2>2 DEF StepsInv, TypeOK
  <1>2. NeverOverstated' /\ ExactWhenAlone'
    BY <1>u DEF StepsInv, NeverOverstated, ExactWhenAlone
  <1>3. ASSUME ~ crossed' PROVE OneAtATime' /\ StartCovers'
    <2>1. StartCovers /\ \A u \in Tasks : ~ Midway(u)
      BY <1>3, <1>u DEF StepsInv
    <2>2. \A u \in Tasks \ {t} : look'[u] = NoLook
      BY <2>1, <1>l DEF Midway
    <2> QED
      BY <2>1, <2>2, <1>u, <1>l, <1>t DEF OneAtATime, StartCovers, Midway
  <1> QED
    BY <1>1, <1>2, <1>3 DEF StepsInv

\* Disturbed keeps what a block is and when it began.
LEMMA DisturbedBlocks ==
    ASSUME NEW b \in Seq(Blocks)
    PROVE  /\ Disturbed(b) \in Seq(Blocks)
           /\ Len(Disturbed(b)) = Len(b)
           /\ \A i \in 1..Len(b) :
                Disturbed(b)[i].since = b[i].since /\ Disturbed(b)[i].alone = FALSE
  <1>1. DOMAIN b = 1..Len(b) /\ Len(b) \in Nat
    OBVIOUS
  <1>2. \A i \in 1..Len(b) : b[i] \in Blocks
    OBVIOUS
  <1>3. Disturbed(b) = [i \in 1..Len(b) |-> [b[i] EXCEPT !.alone = FALSE]]
    BY <1>1 DEF Disturbed
  <1>4. \A i \in 1..Len(b) : /\ [b[i] EXCEPT !.alone = FALSE] \in Blocks
                              /\ [b[i] EXCEPT !.alone = FALSE].since = b[i].since
                              /\ [b[i] EXCEPT !.alone = FALSE].alone = FALSE
    BY <1>2 DEF Blocks
  <1>5. Disturbed(b) \in Seq(Blocks) /\ Len(Disturbed(b)) = Len(b)
    BY <1>1, <1>3, <1>4
  <1> QED
    BY <1>3, <1>4, <1>5

LEMMA EnterKeeps ==
    ASSUME StepsInv, NEW t \in Tasks, NEW s \in Steps, Enter(t, s)
    PROVE  StepsInv'
  <1> DEFINE at == look[t].at
             new == [name |-> s, since |-> at, alone |-> TRUE]
  <1>u. /\ stepStart' = at /\ look' = [look EXCEPT ![t] = NoLook]
        /\ open' = [u \in Tasks |-> IF u = t THEN Append(Disturbed(open[u]), new)
                                            ELSE Disturbed(open[u])]
        /\ UNCHANGED <<clock, steps, entries, crossed, truth>>
    BY DEF Enter
  <1>m. Midway(t) /\ look[t].of = "entry"
    BY DEF Enter, Midway, NoLook
  <1>t. /\ clock \in Nat /\ stepStart \in 0..clock /\ at \in 0..clock
        /\ \A u \in Tasks : open[u] \in Seq(Blocks)
    BY <1>m DEF StepsInv, TypeOK, Midway
  <1>k. look'[t] = NoLook /\ \A u \in Tasks \ {t} : look'[u] = look[u]
    BY <1>u DEF StepsInv, TypeOK
  <1>n. new \in Blocks /\ new.since = at
    BY <1>t DEF Blocks
  <1>c. ~ crossed =>
          /\ StartCovers /\ stepStart <= at
          /\ \A u \in Tasks \ {t} : ~ Midway(u)
    BY <1>m DEF StepsInv, OneAtATime
  <1> HIDE DEF at
  <1> HIDE DEF new
  <1>a. /\ Append(Disturbed(open[t]), new) \in Seq(Blocks)
        /\ Len(Append(Disturbed(open[t]), new)) = Len(open[t]) + 1
        /\ Append(Disturbed(open[t]), new)[Len(open[t]) + 1] = new
        /\ \A i \in 1..Len(open[t]) :
             Append(Disturbed(open[t]), new)[i] = Disturbed(open[t])[i]
    <2> DEFINE blocks == Disturbed(open[t])
    <2>0. open[t] \in Seq(Blocks) /\ Len(open[t]) \in Nat
      BY <1>t
    <2>1. blocks \in Seq(Blocks) /\ Len(blocks) = Len(open[t]) /\ Len(open[t]) \in Nat
      BY <2>0, DisturbedBlocks, Zenon
    <2> HIDE DEF blocks
    <2>2. /\ Append(blocks, new) \in Seq(Blocks)
          /\ Len(Append(blocks, new)) = Len(blocks) + 1
          /\ Append(blocks, new)[Len(blocks) + 1] = new
          /\ \A i \in 1..Len(blocks) : Append(blocks, new)[i] = blocks[i]
      BY <2>1, <1>n
    <2> QED
      BY <2>1, <2>2 DEF blocks
  <1>1. open' \in [Tasks -> Seq(Blocks)]
    <2>1. \A u \in Tasks : Disturbed(open[u]) \in Seq(Blocks)
      BY <1>t, DisturbedBlocks
    <2>2. \A u \in Tasks : (IF u = t THEN Append(Disturbed(open[u]), new) ELSE Disturbed(open[u]))
                              \in Seq(Blocks)
      BY <1>a, <2>1, Zenon
    <2> QED
      BY <1>u, <2>2, Zenon
  <1>2. TypeOK'
    <2>1. look' \in [Tasks -> [of : {"entry", "exit"}, at : 0..clock] \cup {NoLook}]
      BY <1>u DEF StepsInv, TypeOK
    <2>2. \A u \in Tasks : look'[u].of = "exit" => open'[u] # <<>>
      <3> SUFFICES ASSUME NEW u \in Tasks, look'[u].of = "exit" PROVE open'[u] # <<>>
        OBVIOUS
      <3>1. u # t /\ look'[u] = look[u]
        BY <1>k DEF NoLook
      <3>2. open[u] # <<>> /\ open[u] \in Seq(Blocks)
        BY <3>1, <1>t DEF StepsInv, TypeOK
      <3>3. open'[u] = Disturbed(open[u])
        BY <3>1, <1>u
      <3>4. Len(Disturbed(open[u])) = Len(open[u])
        BY <3>2, DisturbedBlocks, Zenon
      <3> QED
        BY <3>2, <3>3, <3>4, EmptySeq
    <2> QED
      BY <1>u, <1>t, <1>1, <2>1, <2>2 DEF StepsInv, TypeOK
  <1>3. NeverOverstated' /\ ExactWhenAlone'
    BY <1>u DEF StepsInv, NeverOverstated, ExactWhenAlone
  <1>4. ASSUME ~ crossed, NEW u \in Tasks, NEW i \in 1..Len(open'[u])
        PROVE  open'[u][i].since <= at /\ (open'[u][i].alone => open'[u][i].since = at)
    <2>0. /\ open[u] \in Seq(Blocks) /\ Len(open[u]) \in Nat
          /\ \A j \in 1..Len(open[u]) :
               /\ open[u][j].since <= at
               /\ Disturbed(open[u])[j].since = open[u][j].since
               /\ Disturbed(open[u])[j].alone = FALSE
      <3>1. open[u] \in Seq(Blocks)
        BY <1>t
      <3>2. Len(open[u]) \in Nat
        BY <3>1
      <3>3. \A j \in 1..Len(open[u]) : open[u][j] \in Blocks
        BY <3>1
      <3>4. \A j \in 1..Len(open[u]) : open[u][j].since <= stepStart
        BY <1>4, <1>c DEF StartCovers
      <3>5. \A j \in 1..Len(open[u]) : open[u][j].since \in Nat
        BY <3>3 DEF Blocks
      <3>6. \A j \in 1..Len(open[u]) : open[u][j].since <= at
        BY <3>4, <3>5, <1>t, <1>4, <1>c
      <3>7. \A j \in 1..Len(open[u]) : /\ Disturbed(open[u])[j].since = open[u][j].since
                                        /\ Disturbed(open[u])[j].alone = FALSE
        BY <3>1, DisturbedBlocks, Zenon
      <3> QED
        BY <3>1, <3>2, <3>6, <3>7
    <2>1. CASE u = t /\ i = Len(open[t]) + 1
      <3>1. open'[u][i] = new
        BY <2>1, <1>u, <1>a
      <3> QED
        BY <3>1, <1>n, <1>t
    <2>2. CASE u = t /\ i # Len(open[t]) + 1
      <3>1. i \in 1..Len(open[u]) /\ open'[u][i] = Disturbed(open[u])[i]
        BY <2>2, <2>0, <1>u, <1>a
      <3> QED
        BY <3>1, <2>0
    <2>3. CASE u # t
      <3>1. i \in 1..Len(open[u]) /\ open'[u][i] = Disturbed(open[u])[i]
        BY <2>3, <2>0, <1>u, DisturbedBlocks
      <3> QED
        BY <3>1, <2>0
    <2> QED
      BY <2>1, <2>2, <2>3
  <1>5. ~ crossed => StartCovers'
    BY <1>4, <1>u DEF StartCovers
  <1>6. ~ crossed => OneAtATime'
    BY <1>c, <1>k DEF OneAtATime, Midway
  <1> QED
    BY <1>u, <1>2, <1>3, <1>5, <1>6 DEF StepsInv

LEMMA ExitKeeps ==
    ASSUME StepsInv, NEW t \in Tasks, NEW how \in Hows, Exit(t, how)
    PROVE  StepsInv'
  <1> DEFINE block == Last(open[t])
             at == look[t].at
             result == [duration |-> Duration(t), success |-> Success(how), ran |-> TRUE]
             run == [spent |-> at - block.since, alone |-> block.alone]
  <1>u. /\ look[t].of = "exit" /\ look' = [look EXCEPT ![t] = NoLook]
        /\ steps' = [steps EXCEPT ![block.name] = result]
        /\ truth' = [truth EXCEPT ![block.name] = run]
        /\ open' = [open EXCEPT ![t] = Front(@)]
        /\ UNCHANGED <<stepStart, clock, entries, crossed>>
    BY DEF Exit, StartAfterExit
  <1>m. Midway(t)
    BY <1>u DEF Midway, NoLook
  <1>t. /\ clock \in Nat /\ stepStart \in 0..clock /\ at \in 0..clock /\ open[t] # <<>>
        /\ open \in [Tasks -> Seq(Blocks)] /\ open[t] \in Seq(Blocks)
        /\ steps \in [Steps -> [duration : Int, success : BOOLEAN, ran : BOOLEAN]]
        /\ truth \in [Steps -> [spent : Int, alone : BOOLEAN]]
    BY <1>u, <1>m DEF StepsInv, TypeOK, Midway
  <1>k. look'[t] = NoLook /\ \A u \in Tasks \ {t} : look'[u] = look[u]
    BY <1>u DEF StepsInv, TypeOK
  <1>l. Len(open[t]) \in 1..Len(open[t]) /\ block = open[t][Len(open[t])] /\ block \in Blocks
    BY <1>u, <1>t DEF Last
  <1>b. /\ block.name \in Steps /\ block.since \in Nat /\ block.alone \in BOOLEAN
        /\ ~ crossed => /\ block.since <= stepStart
                        /\ block.alone => block.since = stepStart
    BY <1>l DEF Blocks, StepsInv, StartCovers
  <1>d. /\ result.duration = at - stepStart /\ run.spent = at - block.since
        /\ result.duration \in Int /\ run.spent \in Int
        /\ result.ran = TRUE /\ run.alone = block.alone
    BY <1>t, <1>b DEF Duration
  <1>r. /\ result \in [duration : Int, success : BOOLEAN, ran : BOOLEAN]
        /\ run \in [spent : Int, alone : BOOLEAN]
    <2>1. Success(how) \in BOOLEAN
      BY DEF Success
    <2> QED
      BY <2>1, <1>d, <1>b
  <1>e. ~ crossed => result.duration <= run.spent /\ (run.alone => result.duration = run.spent)
    BY <1>d, <1>b, <1>t
  <1> HIDE DEF block, at, result, run
  <1>f. /\ Front(open[t]) \in Seq(Blocks)
        /\ Len(Front(open[t])) = Len(open[t]) - 1
        /\ \A i \in 1..(Len(open[t]) - 1) : Front(open[t])[i] = open[t][i]
    <2>1. Front(open[t]) = [i \in 1..(Len(open[t]) - 1) |-> open[t][i]]
      BY DEF Front
    <2>2. Len(open[t]) - 1 \in Nat /\ \A i \in 1..(Len(open[t]) - 1) : open[t][i] \in Blocks
      BY <1>t, <1>u, <1>l
    <2> QED
      BY <2>1, <2>2
  <1>1. TypeOK'
    <2>1. open' \in [Tasks -> Seq(Blocks)]
      BY <1>u, <1>t, <1>f
    <2>2. steps' \in [Steps -> [duration : Int, success : BOOLEAN, ran : BOOLEAN]]
      BY <1>u, <1>t, <1>b, <1>r
    <2>3. truth' \in [Steps -> [spent : Int, alone : BOOLEAN]]
      BY <1>u, <1>t, <1>b, <1>r
    <2>4. look' \in [Tasks -> [of : {"entry", "exit"}, at : 0..clock] \cup {NoLook}]
      BY <1>u DEF StepsInv, TypeOK
    <2>5. \A u \in Tasks : look'[u].of = "exit" => open'[u] # <<>>
      <3>1. \A u \in Tasks : look'[u].of = "exit" => u # t /\ open[u] # <<>>
        BY <1>k DEF NoLook, StepsInv, TypeOK
      <3> QED
        BY <3>1, <1>u, <1>t
    <2> QED
      BY <1>u, <2>1, <2>2, <2>3, <2>4, <2>5 DEF StepsInv, TypeOK
  <1>v. \A s \in Steps : IF s = block.name THEN steps'[s] = result /\ truth'[s] = run
                         ELSE steps'[s] = steps[s] /\ truth'[s] = truth[s]
    BY <1>u, <1>t, <1>b
  <1>2. NeverOverstated'
    BY <1>u, <1>v, <1>e DEF StepsInv, NeverOverstated
  <1>3. ExactWhenAlone'
    BY <1>u, <1>v, <1>e DEF StepsInv, ExactWhenAlone
  <1>4. ~ crossed => StartCovers'
    <2>1. ASSUME NEW u \in Tasks, NEW i \in 1..Len(open'[u])
          PROVE  i \in 1..Len(open[u]) /\ open'[u][i] = open[u][i]
      <3>1. CASE u = t
        BY <3>1, <1>u, <1>t, <1>f, <1>l
      <3>2. CASE u # t
        BY <3>2, <1>u, <1>t
      <3> QED
        BY <3>1, <3>2
    <2> QED
      BY <2>1, <1>u DEF StepsInv, StartCovers
  <1>5. ~ crossed => OneAtATime'
    <2>1. ~ crossed => \A u \in Tasks \ {t} : ~ Midway(u)
      BY <1>m DEF StepsInv, OneAtATime
    <2> QED
      BY <2>1, <1>k DEF OneAtATime, Midway
  <1> QED
    BY <1>u, <1>1, <1>2, <1>3, <1>4, <1>5 DEF StepsInv

LEMMA TickKeeps == ASSUME StepsInv, Tick PROVE StepsInv'
  <1>1. TypeOK'
    <2>1. clock \in Nat /\ clock' = clock + 1 /\ 0..clock \subseteq 0..clock'
      BY DEF StepsInv, TypeOK, Tick
    <2>2. look' \in [Tasks -> [of : {"entry", "exit"}, at : 0..clock'] \cup {NoLook}]
      BY <2>1 DEF StepsInv, TypeOK, Tick
    <2> QED
      BY <2>1, <2>2 DEF StepsInv, TypeOK, Tick
  <1>2. /\ NeverOverstated' /\ ExactWhenAlone'
        /\ ~ crossed' => OneAtATime' /\ StartCovers'
    BY DEF StepsInv, NeverOverstated, ExactWhenAlone, OneAtATime, Midway, StartCovers, Tick
  <1> QED
    BY <1>1, <1>2 DEF StepsInv

LEMMA StepsInvStutter == ASSUME StepsInv, UNCHANGED vars PROVE StepsInv'
  BY DEF vars, StepsInv, TypeOK, NeverOverstated, ExactWhenAlone, OneAtATime, Midway, StartCovers

-----------------------------------------------------------------------------
(* The cache statistics: one lemma for each action, with a step for each   *)
(* part of the invariant.                                                  *)

LEMMA StatsInvInit == StatsInit => StatsInv
  BY StatsAssumption
  DEF StatsInit, StatsInv, StatsAssumption, StatsTypeOK, Isolated, ExactOnTheLoop, NeverTooMany, Owned,
      Unused, Reads, Workers, Dicts, Unset, NotReading, Nobody, Busy, Started, Family

\* The request of a task or thread at work, whose dict is its own.
LEMMA ReadyOwns ==
    ASSUME StatsInv, NEW t \in Workers, Ready(t)
    PROVE  /\ Family(t) \in Requests
           /\ ~ Busy(t)
           /\ t \notin threads => \A u \in Workers \ (threads \cup {t}) : ~ Busy(u)
  BY DEF StatsInv, StatsTypeOK, Workers, Ready, Started, Family, HasTheLoop

LEMMA StartKeeps ==
    ASSUME StatsInv, NEW h \in Helpers, NEW r \in Requests, NEW asThread \in BOOLEAN,
           Start(h, r, asThread)
    PROVE  StatsInv'
  <1>u. /\ starter[h] = Nobody
        /\ starter' = [starter EXCEPT ![h] = r]
        /\ var' = [var EXCEPT ![h] = var[r]]
        /\ threads' = threads \/ threads' = threads \cup {h}
        /\ UNCHANGED <<made, value, reading, owner, users, done, threaded>>
        /\ Ready(r)
    BY DEF Start
  <1>h. /\ h \in Workers /\ r \in Workers /\ h \notin Requests /\ r # Nobody
        /\ ~ Started(h) /\ var[h] = Unset /\ ~ Busy(h)
    BY <1>u, StatsAssumption
    DEF StatsAssumption, Workers, Started, Family, Ready, StatsInv, Owned, StatsTypeOK
  <1>b. \A t \in Workers : Busy(t)' = Busy(t)
    BY <1>u DEF Busy
  <1>f. /\ Family(h)' = r /\ Family(r) = r
        /\ \A t \in Workers \ {h} : Family(t)' = Family(t) /\ Started(t)' = Started(t)
        /\ Started(h)'
    BY <1>u, <1>h, StatsAssumption DEF StatsAssumption, Family, Started, Workers, StatsInv, StatsTypeOK
  <1>v. \A t \in Workers \ {h} : var'[t] = var[t]
    BY <1>u DEF StatsInv, StatsTypeOK
  <1>w. var'[h] = var[r]
    BY <1>u, <1>h DEF StatsInv, StatsTypeOK
  <1>1. StatsTypeOK'
    BY <1>u, <1>b, <1>v, <1>w, <1>h DEF StatsInv, StatsTypeOK
  <1>2. Isolated' /\ ExactOnTheLoop' /\ NeverTooMany' /\ Unused'
    BY <1>u DEF StatsInv, Isolated, ExactOnTheLoop, NeverTooMany, Unused
  <1>3. Owned'
    BY <1>u, <1>f, <1>v, <1>w, <1>h DEF StatsInv, Owned
  <1>4. Reads'
    <2>1. threads \subseteq Workers
      BY DEF StatsInv, StatsTypeOK, Workers
    <2> QED
      BY <1>u, <1>b, <1>v, <1>h, <2>1 DEF StatsInv, Reads
  <1> QED
    BY <1>1, <1>2, <1>3, <1>4 DEF StatsInv

LEMMA InitCacheStatsKeeps ==
    ASSUME StatsInv, NEW t \in Workers, InitCacheStats(t)
    PROVE  StatsInv'
  <1>u. /\ made < MaxDicts
        /\ made' = made + 1
        /\ value' = [value EXCEPT ![made + 1] = 0]
        /\ owner' = [owner EXCEPT ![made + 1] = Family(t)]
        /\ var' = [var EXCEPT ![t] = made + 1]
        /\ UNCHANGED <<reading, threads, starter, users, done, threaded>>
        /\ Ready(t)
    BY DEF InitCacheStats, FreshDict, Seeded
  <1>n. made \in Nat /\ made + 1 \in Dicts /\ made + 1 \notin threaded
    BY <1>u, StatsAssumption DEF StatsAssumption, StatsInv, StatsTypeOK, Dicts
  <1>r. Family(t) \in Requests /\ ~ Busy(t)
    BY <1>u, ReadyOwns
  <1>b. \A u \in Workers : Busy(u)' = Busy(u) /\ Family(u)' = Family(u) /\ Started(u)' = Started(u)
    BY <1>u DEF Busy, Family, Started
  <1>s. Started(t)
    BY <1>u DEF Ready
  <1>v. /\ var'[t] = made + 1
        /\ \A u \in Workers \ {t} : var'[u] = var[u] /\ var[u] \in 0..made
    BY <1>u DEF StatsInv, StatsTypeOK
  <1>d. /\ value'[made + 1] = 0 /\ owner'[made + 1] = Family(t) /\ done[made + 1] = 0
        /\ \A d \in 1..made : d \in Dicts /\ value'[d] = value[d] /\ owner'[d] = owner[d]
    <2>1. \A d \in 1..made : d \in Dicts /\ d # made + 1
      BY <1>n, <1>u, StatsAssumption DEF StatsAssumption, Dicts
    <2>2. done[made + 1] = 0
      BY <1>n DEF StatsInv, Unused
    <2> QED
      BY <1>u, <1>n, <2>1, <2>2 DEF StatsInv, StatsTypeOK
  <1>1. StatsTypeOK'
    <2>1. made' \in 0..MaxDicts /\ 1..made \subseteq 1..made' /\ 0..made \subseteq 0..made'
      BY <1>u, <1>n, StatsAssumption DEF StatsAssumption
    <2>2. /\ value' \in [Dicts -> Nat]
          /\ owner' \in [Dicts -> Requests \cup {Nobody}]
          /\ var' \in [Workers -> 0..made']
      BY <1>u, <1>r, <1>n, <2>1 DEF StatsInv, StatsTypeOK
    <2>3. \A u \in Workers : Busy(u)' => var'[u] # Unset
      BY <1>b, <1>r, <1>v DEF StatsInv, StatsTypeOK
    <2> QED
      BY <1>u, <2>1, <2>2, <2>3 DEF StatsInv, StatsTypeOK
  <1>2. users[made + 1] = {}
    BY <1>n DEF StatsInv, Unused
  <1>x. 1..made' = (1..made) \cup {made + 1}
    BY <1>u, <1>n
  <1>3. Isolated'
    BY <1>u, <1>d, <1>x, <1>2 DEF StatsInv, Isolated
  <1>4. ExactOnTheLoop' /\ NeverTooMany'
    BY <1>u, <1>d, <1>x DEF StatsInv, ExactOnTheLoop, NeverTooMany
  <1>5. Unused'
    BY <1>u, <1>n DEF StatsInv, Unused, Dicts
  <1>6. Owned'
    <2>1. \A u \in Workers \ {t} : var[u] # Unset => var[u] \in 1..made
      BY <1>v, <1>n DEF Unset
    <2> QED
      BY <1>b, <1>s, <1>v, <1>d, <1>r, <2>1 DEF StatsInv, Owned
  <1>7. Reads'
    <2>1. \A u \in Workers : Busy(u) => u # t /\ var[u] \in 1..made
      BY <1>r, <1>v, <1>n DEF StatsInv, StatsTypeOK, Unset
    <2>2. threads \subseteq Workers
      BY DEF StatsInv, StatsTypeOK, Workers
    <2> QED
      BY <1>u, <1>b, <1>v, <1>d, <2>1, <2>2 DEF StatsInv, Reads
  <1> QED
    BY <1>1, <1>3, <1>4, <1>5, <1>6, <1>7 DEF StatsInv

LEMMA RecordReadKeeps ==
    ASSUME StatsInv, NEW t \in Workers, RecordRead(t)
    PROVE  StatsInv'
  <1> DEFINE d == var[t]
  <1>u. /\ d # Unset
        /\ reading' = [reading EXCEPT ![t] = value[d]]
        /\ threaded' = IF t \in threads THEN threaded \cup {d} ELSE threaded
        /\ users' = [users EXCEPT ![d] = @ \cup {Family(t)}]
        /\ UNCHANGED <<var, made, value, threads, starter, owner, done>>
        /\ Ready(t)
    BY DEF RecordRead
  <1>d. d \in 1..made /\ d \in Dicts
    BY <1>u, StatsAssumption DEF StatsAssumption, StatsInv, StatsTypeOK, Unset, Dicts
  <1>r. /\ Family(t) \in Requests /\ ~ Busy(t) /\ owner[d] = Family(t)
        /\ t \notin threads => \A u \in Workers \ (threads \cup {t}) : ~ Busy(u)
    BY <1>u, ReadyOwns DEF StatsInv, Owned
  <1>b. \A u \in Workers : /\ Family(u)' = Family(u) /\ Started(u)' = Started(u)
                           /\ u # t => Busy(u)' = Busy(u) /\ reading'[u] = reading[u]
    BY <1>u DEF Busy, Family, Started, StatsInv, StatsTypeOK
  <1>v. reading'[t] = value[d] /\ value[d] \in Nat /\ done[d] \in Nat
    BY <1>u, <1>d DEF StatsInv, StatsTypeOK
  <1>1. StatsTypeOK'
    <2>1. reading' \in [Workers -> Nat \cup {NotReading}]
      BY <1>u, <1>v DEF StatsInv, StatsTypeOK
    <2>2. users' \in [Dicts -> SUBSET Requests] /\ threaded' \in SUBSET (1..made)
      BY <1>u, <1>d, <1>r DEF StatsInv, StatsTypeOK
    <2>3. \A u \in Workers : Busy(u)' => var'[u] # Unset
      BY <1>u, <1>b DEF StatsInv, StatsTypeOK
    <2> QED
      BY <1>u, <2>1, <2>2, <2>3 DEF StatsInv, StatsTypeOK, Dicts
  <1>2. Isolated'
    <2>1. users'[d] = users[d] \cup {Family(t)} /\ \A e \in Dicts \ {d} : users'[e] = users[e]
      BY <1>u, <1>d DEF StatsInv, StatsTypeOK
    <2>2. \A e \in 1..made : e \in Dicts
      BY StatsAssumption DEF StatsAssumption, StatsInv, StatsTypeOK, Dicts
    <2> QED
      BY <1>u, <1>r, <2>1, <2>2 DEF StatsInv, Isolated
  <1>3. ExactOnTheLoop' /\ NeverTooMany'
    BY <1>u DEF StatsInv, ExactOnTheLoop, NeverTooMany
  <1>4. Unused'
    BY <1>u, <1>d DEF StatsInv, StatsTypeOK, Unused
  <1>5. Owned'
    BY <1>u, <1>b DEF StatsInv, Owned
  <1>6. Reads'
    <2>0. threads \subseteq Workers /\ threaded \subseteq threaded'
      BY <1>u DEF StatsInv, StatsTypeOK, Workers
    <2>1. \A u, w \in Workers \ threads : Busy(u)' /\ Busy(w)' => u = w
      BY <1>b, <1>r DEF StatsInv, Reads
    <2>2. \A u \in threads : Busy(u)' => var[u] \in threaded'
      BY <1>u, <1>b, <2>0 DEF StatsInv, Reads
    <2>3. ASSUME NEW u \in Workers, Busy(u)'
          PROVE  reading'[u] <= done[var[u]]
                 /\ (var[u] \notin threaded' => reading'[u] = value[var[u]])
      <3>1. CASE u = t
        <4>1. value[d] <= done[d]
          BY <1>d DEF StatsInv, NeverTooMany
        <4> QED
          BY <3>1, <4>1, <1>v
      <3>2. CASE u # t
        BY <3>2, <2>3, <1>b, <2>0 DEF StatsInv, Reads
      <3> QED
        BY <3>1, <3>2
    <2> QED
      BY <1>u, <2>1, <2>2, <2>3 DEF Reads
  <1> QED
    BY <1>1, <1>2, <1>3, <1>4, <1>5, <1>6 DEF StatsInv

LEMMA RecordWriteKeeps ==
    ASSUME StatsInv, NEW t \in Workers, RecordWrite(t)
    PROVE  StatsInv'
  <1> DEFINE d == var[t]
  <1>u. /\ Busy(t)
        /\ value' = [value EXCEPT ![d] = reading[t] + 1]
        /\ reading' = [reading EXCEPT ![t] = NotReading]
        /\ done' = [done EXCEPT ![d] = @ + 1]
        /\ UNCHANGED <<var, made, threads, starter, owner, users, threaded>>
    BY DEF RecordWrite
  <1>d. d \in 1..made /\ d \in Dicts
    BY <1>u, StatsAssumption DEF StatsAssumption, StatsInv, StatsTypeOK, Unset, Dicts
  <1>t. reading[t] \in Nat /\ value[d] \in Nat /\ done[d] \in Nat
    BY <1>u, <1>d DEF Busy, StatsInv, StatsTypeOK
  <1>v. /\ value'[d] = reading[t] + 1 /\ done'[d] = done[d] + 1
        /\ \A e \in Dicts \ {d} : value'[e] = value[e] /\ done'[e] = done[e]
    BY <1>u, <1>d DEF StatsInv, StatsTypeOK
  <1>b. /\ ~ Busy(t)'
        /\ \A u \in Workers : /\ Family(u)' = Family(u) /\ Started(u)' = Started(u)
                              /\ u # t => Busy(u)' = Busy(u) /\ reading'[u] = reading[u]
    BY <1>u DEF Busy, Family, Started, StatsInv, StatsTypeOK
  <1>r. /\ reading[t] <= done[d]
        /\ d \notin threaded => reading[t] = value[d]
    BY <1>u DEF StatsInv, Reads
  <1>e. \A e \in 1..made : e \in Dicts
    BY StatsAssumption DEF StatsAssumption, StatsInv, StatsTypeOK, Dicts
  <1>1. StatsTypeOK'
    <2>1. reading' \in [Workers -> Nat \cup {NotReading}]
      BY <1>u DEF StatsInv, StatsTypeOK
    <2>2. value' \in [Dicts -> Nat] /\ done' \in [Dicts -> Nat]
      <3>1. reading[t] + 1 \in Nat /\ done[d] + 1 \in Nat
        BY <1>t
      <3>2. value \in [Dicts -> Nat] /\ done \in [Dicts -> Nat]
        BY DEF StatsInv, StatsTypeOK
      <3> QED
        BY <1>u, <3>1, <3>2
    <2>3. \A u \in Workers : Busy(u)' => var'[u] # Unset
      <3>1. \A u \in Workers : Busy(u)' => Busy(u)
        BY <1>u, <1>b
      <3> QED
        BY <1>u, <3>1 DEF StatsInv, StatsTypeOK
    <2> QED
      BY <1>u, <2>1, <2>2, <2>3 DEF StatsInv, StatsTypeOK, Dicts
  <1>2. Isolated' /\ Owned'
    BY <1>u, <1>b DEF StatsInv, Isolated, Owned
  <1>3. ExactOnTheLoop'
    BY <1>u, <1>v, <1>r, <1>e DEF StatsInv, ExactOnTheLoop
  <1>4. NeverTooMany'
    BY <1>u, <1>v, <1>r, <1>e, <1>t DEF StatsInv, NeverTooMany
  <1>5. Unused'
    <2>1. \A e \in Dicts : e > made => e # d
      BY <1>d DEF StatsInv, StatsTypeOK, Dicts
    <2> QED
      BY <1>u, <1>v, <2>1 DEF StatsInv, Unused
  <1>6. Reads'
    <2>0. threads \subseteq Workers
      BY DEF StatsInv, StatsTypeOK, Workers
    <2>1. \A u, w \in Workers \ threads : Busy(u)' /\ Busy(w)' => u = w
      BY <1>b DEF StatsInv, Reads
    <2>2. \A u \in threads : Busy(u)' => var[u] \in threaded
      BY <1>b, <2>0 DEF StatsInv, Reads
    <2>3. ASSUME NEW u \in Workers, Busy(u)'
          PROVE  reading'[u] <= done'[var[u]]
                 /\ (var[u] \notin threaded => reading'[u] = value'[var[u]])
      <3>0. u # t /\ Busy(u) /\ reading'[u] = reading[u]
        BY <2>3, <1>b
      <3>1. var[u] \in Dicts /\ reading[u] \in Nat
        BY <3>0, <1>e DEF Busy, StatsInv, StatsTypeOK, Unset
      <3>2. /\ reading[u] <= done[var[u]]
            /\ var[u] \notin threaded => reading[u] = value[var[u]]
        BY <3>0 DEF StatsInv, Reads
      <3>3. CASE var[u] # d
        BY <3>0, <3>1, <3>2, <3>3, <1>v
      <3>4. CASE var[u] = d
        <4>1. d \in threaded
          BY <3>0, <3>4, <1>u DEF StatsInv, Reads
        <4> QED
          BY <3>0, <3>1, <3>2, <3>4, <4>1, <1>v, <1>t
      <3> QED
        BY <3>3, <3>4
    <2> QED
      BY <1>u, <2>1, <2>2, <2>3 DEF Reads
  <1> QED
    BY <1>1, <1>2, <1>3, <1>4, <1>5, <1>6 DEF StatsInv

LEMMA StatsInvNext == StatsInv /\ [StatsNext]_stats => StatsInv'
  <1> SUFFICES ASSUME StatsInv, [StatsNext]_stats PROVE StatsInv'
    OBVIOUS
  <1>1. ASSUME NEW h \in Helpers, NEW r \in Requests, NEW asThread \in BOOLEAN,
               Start(h, r, asThread)
        PROVE  StatsInv'
    BY <1>1, StartKeeps
  <1>2. ASSUME NEW t \in Workers, InitCacheStats(t) PROVE StatsInv'
    BY <1>2, InitCacheStatsKeeps
  <1>3. ASSUME NEW t \in Workers, RecordRead(t) PROVE StatsInv'
    BY <1>3, RecordReadKeeps
  <1>4. ASSUME NEW t \in Workers, RecordWrite(t) PROVE StatsInv'
    BY <1>4, RecordWriteKeeps
  <1>5. CASE UNCHANGED stats
    BY <1>5 DEF stats, StatsInv, StatsTypeOK, Isolated, ExactOnTheLoop, NeverTooMany, Owned, Unused,
                Reads, Busy, Started, Family
  <1> QED
    BY <1>1, <1>2, <1>3, <1>4, <1>5 DEF StatsNext

LEMMA StatsStutter == ASSUME StatsInv, UNCHANGED stats PROVE StatsInv'
  BY StatsInvNext

LEMMA AlwaysStatsInv == StatsSpec => []StatsInv
  BY StatsInvInit, StatsInvNext, PTL DEF StatsSpec

\* A statistics dict is only ever written on behalf of the request for which
\* init_cache_stats made it, whichever of the request's tasks or threads writes.
THEOREM DictsServeOneRequest == StatsSpec => []Isolated
  BY AlwaysStatsInv, PTL DEF StatsInv

\* Records that the tasks of a request make on the event loop are never lost:
\* a dict no thread recorded in counts exactly what was recorded.
THEOREM LoopCountsExactly == StatsSpec => []ExactOnTheLoop
  BY AlwaysStatsInv, PTL DEF StatsInv

-----------------------------------------------------------------------------
(* The request                                                             *)

\* The steps' own fields leave OrderInv alone.
LEMMA OrderKept == ASSUME OrderInv, UNCHANGED <<order, steps>> PROVE OrderInv'
  BY DEF OrderInv

LEMMA RequestInvInit == RequestInit => RequestInv
  BY StepsInvInit, StatsInvInit DEF RequestInit, Init, RequestInv, OrderInv, CrossedByThreads

LEMMA StepEndedKeepsOrder ==
    ASSUME RequestInv, NEW t \in Tasks, NEW how \in Hows, StepEnded(t, how)
    PROVE  OrderInv'
  <1> DEFINE block == Last(open[t])
  <1>u. /\ Exit(t, how)
        /\ order' = IF Contains(order, block.name) THEN order ELSE Append(order, block.name)
    BY DEF StepEnded
  <1>t. /\ open[t] \in Seq(Blocks) /\ open[t] # <<>>
        /\ steps \in [Steps -> [duration : Int, success : BOOLEAN, ran : BOOLEAN]]
    BY <1>u DEF RequestInv, StepsInv, TypeOK, Exit
  <1>b. block \in Blocks
    BY <1>t DEF Last
  <1>n. block.name \in Steps
    BY <1>b DEF Blocks
  <1> HIDE DEF block
  <1>r. steps'[block.name].ran /\ \A s \in Steps : steps[s].ran => steps'[s].ran
    BY <1>u, <1>t, <1>n DEF Exit, block
  <1>o. order \in Seq(Steps) /\ \A i \in 1..Len(order) : order[i] \in Steps /\ steps[order[i]].ran
    BY DEF RequestInv, OrderInv
  <1>1. CASE order' = order
    BY <1>1, <1>o, <1>r DEF OrderInv
  <1>2. CASE order' = Append(order, block.name)
    <2>1. order' \in Seq(Steps) /\ Len(order') = Len(order) + 1 /\ Len(order) \in Nat
      BY <1>2, <1>o, <1>n
    <2>2. /\ order'[Len(order) + 1] = block.name
          /\ \A i \in 1..Len(order) : order'[i] = order[i]
      BY <1>2, <1>o, <1>n
    <2>3. \A i \in 1..Len(order') : i = Len(order) + 1 \/ i \in 1..Len(order)
      BY <2>1
    <2> QED
      BY <2>1, <2>2, <2>3, <1>o, <1>r DEF OrderInv
  <1> QED
    BY <1>u, <1>1, <1>2

\* No thread is lost, and who crosses on the loop crosses a thread.
LEMMA CrossedKept ==
    ASSUME CrossedByThreads, threads \subseteq threads', crossed' = crossed
    PROVE  CrossedByThreads'
  BY DEF CrossedByThreads

LEMMA LookCrossesThreads ==
    ASSUME RequestInv, NEW t \in Tasks, NEW what \in {"entry", "exit"}, Works(t), Look(t, what),
           UNCHANGED stats
    PROVE  CrossedByThreads'
  <1>1. crossed' = (crossed \/ \E u \in Tasks : Midway(u)) /\ threads' = threads
    BY DEF Look, stats
  <1>2. \A u \in Tasks : Midway(u) => u \in threads \/ t \in threads
    BY DEF Works, Free
  <1> QED
    BY <1>1, <1>2 DEF RequestInv, CrossedByThreads

LEMMA RecordingIsStats ==
    ASSUME Recording
    PROVE  StatsNext /\ threads \subseteq threads' /\ UNCHANGED <<vars, order>>
  <1>1. StatsNext /\ UNCHANGED <<vars, order>>
    BY DEF Recording, StatsNext
  <1>2. threads \subseteq threads'
    BY DEF Recording, Start, InitCacheStats, RecordRead, RecordWrite
  <1> QED
    BY <1>1, <1>2

LEMMA RequestInvNext == RequestInv /\ [RequestNext]_allVars => RequestInv'
  <1> SUFFICES ASSUME RequestInv, [RequestNext]_allVars PROVE RequestInv'
    OBVIOUS
  <1>i. StepsInv /\ StatsInv /\ OrderInv /\ CrossedByThreads
    BY DEF RequestInv
  <1>1. ASSUME NEW t \in Tasks, StepBegins(t) \/ StepEnds(t) PROVE RequestInv'
    <2> PICK what \in {"entry", "exit"} :
          /\ Works(t) /\ Look(t, what) /\ (what = "exit" => open[t] # <<>>)
          /\ entries' = entries \/ entries' = entries + 1
      BY <1>1 DEF StepBegins, StepEnds, EnterLook, ExitLook
    <2>1. UNCHANGED stats /\ UNCHANGED <<order, steps>>
      BY <1>1 DEF StepBegins, StepEnds, Look
    <2>2. entries' \in Nat
      BY <1>i DEF StepsInv, TypeOK
    <2> QED
      BY <1>i, <2>1, <2>2, LookKeeps, LookCrossesThreads, StatsStutter, OrderKept DEF RequestInv
  <1>2. ASSUME NEW t \in Tasks, NEW s \in Steps, StepBegun(t, s) PROVE RequestInv'
    <2>1. Enter(t, s) /\ UNCHANGED stats /\ UNCHANGED <<order, steps>>
          /\ threads' = threads /\ crossed' = crossed
      BY <1>2 DEF StepBegun, Enter, stats
    <2> QED
      BY <1>i, <2>1, EnterKeeps, StatsStutter, OrderKept, CrossedKept DEF RequestInv
  <1>3. ASSUME NEW t \in Tasks, NEW how \in Hows, StepEnded(t, how) PROVE RequestInv'
    <2>1. Exit(t, how) /\ UNCHANGED stats /\ threads' = threads /\ crossed' = crossed
      BY <1>3 DEF StepEnded, Exit, stats
    <2> QED
      BY <1>i, <1>3, <2>1, ExitKeeps, StatsStutter, StepEndedKeepsOrder, CrossedKept DEF RequestInv
  <1>4. CASE Recording
    <2>1. StatsNext /\ threads \subseteq threads' /\ UNCHANGED <<vars, order>>
      BY <1>4, RecordingIsStats
    <2>2. UNCHANGED vars /\ UNCHANGED <<order, steps>> /\ crossed' = crossed
      BY <2>1 DEF vars
    <2> QED
      BY <1>i, <2>1, <2>2, StepsInvStutter, StatsInvNext, OrderKept, CrossedKept DEF RequestInv
  <1>5. CASE Tick /\ UNCHANGED <<stats, order>>
    <2>1. /\ Tick /\ UNCHANGED stats /\ UNCHANGED <<order, steps>>
          /\ threads' = threads /\ crossed' = crossed
      BY <1>5 DEF Tick, stats
    <2> QED
      BY <1>i, <2>1, TickKeeps, StatsStutter, OrderKept, CrossedKept DEF RequestInv
  <1>6. CASE UNCHANGED <<vars, stats, order>>
    <2>1. /\ UNCHANGED vars /\ UNCHANGED stats /\ UNCHANGED <<order, steps>>
          /\ threads' = threads /\ crossed' = crossed
      BY <1>6 DEF vars, stats
    <2> QED
      BY <1>i, <2>1, StepsInvStutter, StatsStutter, OrderKept, CrossedKept DEF RequestInv
  <1>7. ASSUME NEW t \in Tasks, NEW service, RecordApiCall(t, service)
        PROVE  UNCHANGED <<vars, stats, order>>
    BY <1>7 DEF RecordApiCall
  <1>8. Answer => UNCHANGED <<vars, stats, order>>
    BY DEF Answer
  <1>9. UNCHANGED allVars => UNCHANGED <<vars, stats, order>>
    BY DEF allVars
  <1> QED
    BY <1>1, <1>2, <1>3, <1>4, <1>5, <1>6, <1>7, <1>8, <1>9 DEF RequestNext

LEMMA AlwaysRequestInv == RequestSpec => []RequestInv
  BY RequestInvInit, RequestInvNext, PTL DEF RequestSpec

-----------------------------------------------------------------------------

LEMMA InvIsTruthful == RequestInv => SummaryTruthful
  <1> SUFFICES ASSUME RequestInv PROVE SummaryTruthful
    OBVIOUS
  <1> DEFINE dict == var[Served]
  <1>1. ASSUME ~ crossed, NEW i \in 1..Len(order)
        PROVE  LET run == truth[order[i]]
               IN  /\ Summary.steps[i] <= run.spent
                   /\ run.alone => Summary.steps[i] = run.spent
    <2>1. Summary.steps[i] = steps[order[i]].duration
      BY DEF Summary
    <2>2. order[i] \in Steps /\ steps[order[i]].ran
      BY DEF RequestInv, OrderInv
    <2> QED
      BY <1>1, <2>1, <2>2 DEF RequestInv, StepsInv, NeverOverstated, ExactWhenAlone
  <1>2. dict = Unset => Summary.cache = 0
    BY DEF Summary
  <1>3. ASSUME dict # Unset
        PROVE  /\ users[dict] \subseteq {Served}
               /\ Summary.cache <= done[dict]
               /\ dict \notin threaded => Summary.cache = done[dict]
    <2>1. Served \in Workers /\ Family(Served) = Served
      BY RequestAssumption DEF RequestAssumption, Workers, Family
    <2>2. dict \in 1..made /\ owner[dict] = Served
      BY <1>3, <2>1, RequestAssumption
      DEF RequestAssumption, RequestInv, StatsInv, StatsTypeOK, Owned, Unset
    <2>3. Summary.cache = value[dict]
      BY <1>3 DEF Summary
    <2> QED
      BY <2>2, <2>3
      DEF RequestInv, StatsInv, Isolated, NeverTooMany, ExactOnTheLoop
  <1> QED
    BY <1>1, <1>2, <1>3 DEF SummaryTruthful, RequestInv, CrossedByThreads

\* The summary of a request (send_to_posthog) speaks of that request alone and of
\* no more than there was, however its tasks' steps and records and those of
\* other requests interleave; as to the steps, unless one of its threads was
\* switched out between taking a time and using it, or another beside it.
THEOREM SummaryIsTruthful == RequestSpec => []SummaryTruthful
  BY AlwaysRequestInv, InvIsTruthful, PTL

\* A step in which no other was entered is timed exactly by the one _step_start
\* of the object, unless entries or exits crossed; they never do among tasks of
\* the loop.
THEOREM AloneIsExact == RequestSpec => [](ExactWhenAlone /\ CrossedByThreads)
  <1>1. RequestInv => ExactWhenAlone /\ CrossedByThreads
    BY DEF RequestInv, StepsInv
  <1> QED
    BY <1>1, AlwaysRequestInv, PTL

\* The records the request's tasks make on the loop are all counted.
THEOREM LoopIsExact == RequestSpec => []ExactOnTheLoop
  BY AlwaysRequestInv, PTL DEF RequestInv, StatsInv, ExactOnTheLoop

-----------------------------------------------------------------------------
(* Induction and recursion over texts.  The model's readers and its        *)
(* replacements are recursive functions over the prefixes of a text; what  *)
(* follows shows that each of them makes one more step with one more       *)
(* character, and that what holds of the empty text and is kept by one     *)
(* more character holds of every text.  The induction is over sets, from   *)
(* the well-foundedness of <.                                              *)

\* A set of natural numbers has a least one.
LEMMA NatMin == ASSUME NEW T, T \subseteq Nat, T # {} PROVE \E x \in T : \A y \in T : ~ (y < x)
  <1>1. \E x \in T : \A y \in T : ~ (<<y, x>> \in OpToRel(<, Nat))
    BY NatLessThanWellFounded, WFMin
  <1>2. \A x, y \in Nat : y < x => <<y, x>> \in OpToRel(<, Nat)
    BY DEF OpToRel
  <1> QED
    BY <1>1, <1>2

\* What holds of 0 and is handed on as far as N holds of all up to N.
LEMMA Upto ==
    ASSUME NEW N \in Nat, NEW T, 0 \in T, \A n \in Nat : n < N /\ n \in T => n + 1 \in T
    PROVE  \A n \in 0..N : n \in T
  <1> SUFFICES ASSUME NEW m \in 0..N, m \notin T PROVE FALSE
    OBVIOUS
  <1> DEFINE U == (0..N) \ T
  <1>0. U \subseteq Nat /\ U # {}
    OBVIOUS
  <1>1. PICK x \in U : \A y \in U : ~ (y < x)
    <2> HIDE DEF U
    <2> QED
      BY <1>0, NatMin
  <1>2. x # 0 /\ x - 1 \in Nat /\ x - 1 < N /\ x - 1 \in 0..N /\ x - 1 < x
    BY <1>1
  <1>3. x - 1 \in T
    BY <1>1, <1>2
  <1>4. (x - 1) + 1 = x
    BY <1>1
  <1> QED
    BY <1>1, <1>2, <1>3, <1>4

\* Induction over sequences.
LEMMA SeqInduction ==
    ASSUME NEW S, NEW T, <<>> \in T, \A s \in Seq(S), e \in S : s \in T => Append(s, e) \in T
    PROVE  Seq(S) \subseteq T
  <1> SUFFICES ASSUME NEW t \in Seq(S) PROVE t \in T
    OBVIOUS
  <1> DEFINE U == {n \in Nat : \A s \in Seq(S) : Len(s) = n => s \in T}
  <1>1. 0 \in U
    BY EmptySeq
  <1>2. ASSUME NEW n \in Nat, n \in U PROVE n + 1 \in U
    <2> SUFFICES ASSUME NEW s \in Seq(S), Len(s) = n + 1 PROVE s \in T
      OBVIOUS
    <2>1. s # <<>>
      OBVIOUS
    <2>2. PICK r \in Seq(S), e \in S : s = Append(r, e)
      BY <2>1, SequenceEmptyOrAppend
    <2>3. Len(r) = n
      BY <2>2
    <2> QED
      BY <1>2, <2>2, <2>3
  <1>3. Len(t) \in Nat
    OBVIOUS
  <1> HIDE DEF U
  <1>4. \A n \in 0..Len(t) : n \in U
    BY <1>1, <1>2, <1>3, Upto
  <1> QED
    BY <1>3, <1>4 DEF U

\* step takes a value in V and a character in D to a value, from start.
Scan(V, D, start, step, t) == start \in V /\ step \in [V \X D -> V] /\ t \in Seq(D)

\* g holds what step makes of start along the text t.
Follows(g, V, start, step, t) ==
    /\ g \in [0..Len(t) -> V]
    /\ g[0] = start
    /\ \A n \in 1..Len(t) : g[n] = step[<<g[n - 1], t[n]>>]

\* f does so wherever what comes before is known to be in V.
Tracks(f, V, start, step, t) ==
    /\ f[0] = start
    /\ \A n \in 1..Len(t) : f[n - 1] \in V => f[n] = step[<<f[n - 1], t[n]>>]

\* There is such a function, and what tracks is it.
LEMMA ScanExists ==
    ASSUME NEW V, NEW D, NEW start, NEW step, NEW t, Scan(V, D, start, step, t)
    PROVE  \E g : Follows(g, V, start, step, t)
  <1> USE DEF Scan
  <1> DEFINE Part(n, g) == /\ g \in [0..n -> V]
                           /\ g[0] = start
                           /\ \A i \in 1..n : g[i] = step[<<g[i - 1], t[i]>>]
             T == {n \in Nat : \E g : Part(n, g)}
  <1>0. Len(t) \in Nat /\ \A i \in 1..Len(t) : t[i] \in D
    OBVIOUS
  <1>1. 0 \in T
    <2>1. Part(0, [n \in 0..0 |-> start])
      OBVIOUS
    <2> QED
      BY <2>1
  <1>2. ASSUME NEW n \in Nat, n < Len(t), n \in T PROVE n + 1 \in T
    <2>1. PICK g : Part(n, g)
      BY <1>2
    <2> DEFINE h == [i \in 0..(n + 1) |-> IF i <= n THEN g[i] ELSE step[<<g[n], t[n + 1]>>]]
    <2>2. t[n + 1] \in D /\ g[n] \in V
      BY <1>0, <1>2, <2>1
    <2>3. step[<<g[n], t[n + 1]>>] \in V
      BY <2>2
    <2>4. h \in [0..(n + 1) -> V] /\ h[0] = start
      BY <2>1, <2>3
    <2>5. \A i \in 1..(n + 1) : h[i] = step[<<h[i - 1], t[i]>>]
      <3> SUFFICES ASSUME NEW i \in 1..(n + 1) PROVE h[i] = step[<<h[i - 1], t[i]>>]
        OBVIOUS
      <3>1. i - 1 \in 0..n /\ h[i - 1] = g[i - 1]
        OBVIOUS
      <3>2. CASE i <= n
        <4>1. h[i] = g[i] /\ i \in 1..n
          BY <3>2
        <4> QED
          BY <3>1, <4>1, <2>1
      <3>3. CASE i = n + 1
        <4>1. h[i] = step[<<g[n], t[n + 1]>>] /\ i - 1 = n
          BY <3>3
        <4> QED
          BY <3>1, <3>3, <4>1
      <3> QED
        BY <3>2, <3>3
    <2> HIDE DEF h
    <2> QED
      BY <2>4, <2>5
  <1>3. Len(t) \in T
    <2> HIDE DEF T
    <2>1. \A n \in 0..Len(t) : n \in T
      BY <1>0, <1>1, <1>2, Upto
    <2> QED
      BY <2>1, <1>0
  <1> QED
    BY <1>3 DEF Follows

LEMMA ScanUnique ==
    ASSUME NEW V, NEW D, NEW start, NEW step, NEW t, Scan(V, D, start, step, t),
           NEW g, Follows(g, V, start, step, t), NEW f, Tracks(f, V, start, step, t)
    PROVE  \A n \in 0..Len(t) : f[n] = g[n]
  <1> USE DEF Scan
  <1> DEFINE T == {n \in Nat : n \in 0..Len(t) => f[n] = g[n]}
  <1>0. Len(t) \in Nat
    OBVIOUS
  <1>1. 0 \in T
    BY DEF Follows, Tracks
  <1>2. ASSUME NEW n \in Nat, n < Len(t), n \in T PROVE n + 1 \in T
    <2>1. f[n] = g[n] /\ g[n] \in V /\ n + 1 \in 1..Len(t) /\ (n + 1) - 1 = n
      BY <1>0, <1>2 DEF Follows
    <2>2. g[n + 1] = step[<<g[n], t[n + 1]>>]
      BY <2>1 DEF Follows
    <2>3. f[n + 1] = step[<<f[n], t[n + 1]>>]
      BY <2>1 DEF Tracks
    <2> QED
      BY <2>1, <2>2, <2>3
  <1> HIDE DEF T
  <1>3. \A n \in 0..Len(t) : n \in T
    BY <1>0, <1>1, <1>2, Upto
  <1> QED
    BY <1>3 DEF T

\* One more character is one more step.
LEMMA ScanAppend ==
    ASSUME NEW V, NEW D, NEW start, NEW step, NEW t, Scan(V, D, start, step, t), NEW c \in D,
           NEW g, Follows(g, V, start, step, t), NEW h, Follows(h, V, start, step, Append(t, c))
    PROVE  g[Len(t)] \in V /\ h[Len(Append(t, c))] = step[<<g[Len(t)], c>>]
  <1> DEFINE u == Append(t, c)
  <1>0. /\ Len(t) \in Nat /\ Len(u) = Len(t) + 1 /\ u[Len(u)] = c
        /\ \A n \in 1..Len(t) : u[n] = t[n]
    BY DEF Scan
  <1> HIDE DEF u
  <1>1. h[0] = start /\ \A n \in 1..Len(u) : h[n] = step[<<h[n - 1], u[n]>>]
    BY DEF u, Follows
  <1>2. Tracks(h, V, start, step, t)
    BY <1>0, <1>1 DEF Tracks
  <1>3. \A n \in 0..Len(t) : h[n] = g[n]
    BY <1>2, ScanUnique
  <1>4. h[Len(t)] = g[Len(t)] /\ Len(u) - 1 = Len(t) /\ Len(u) \in 1..Len(u)
    BY <1>0, <1>3
  <1>5. h[Len(u)] = step[<<h[Len(u) - 1], u[Len(u)]>>]
    BY <1>1, <1>4
  <1>6. g[Len(t)] \in V
    BY <1>0 DEF Follows
  <1> QED
    BY <1>0, <1>4, <1>5, <1>6 DEF u

-----------------------------------------------------------------------------
(* Splitting                                                               *)

\* What a split may give: one part or more.
Parts(D) == {p \in Seq(Seq(D)) : p # <<>>}

\* What a character does to the parts before it.
Take(parts, c, ch) ==
    IF c = ch THEN Append(parts, <<>>) ELSE [parts EXCEPT ![Len(parts)] = Append(@, c)]

LEMMA TakeParts ==
    ASSUME NEW D, NEW ch, NEW p \in Parts(D), NEW c \in D PROVE Take(p, c, ch) \in Parts(D)
  <1>1. Len(p) \in Nat /\ Len(p) \in 1..Len(p) /\ p[Len(p)] \in Seq(D) /\ p \in Seq(Seq(D))
    BY EmptySeq DEF Parts
  <1>2. <<>> \in Seq(D)
    OBVIOUS
  <1>3. Append(p, <<>>) \in Parts(D)
    BY <1>1, <1>2, AppendProperties DEF Parts
  <1>4. Append(p[Len(p)], c) \in Seq(D)
    BY <1>1
  <1> DEFINE q == [p EXCEPT ![Len(p)] = Append(p[Len(p)], c)]
  <1>5. q \in Seq(Seq(D)) /\ Len(q) = Len(p)
    BY <1>1, <1>4, ExceptSeq
  <1>6. q # <<>>
    BY <1>1, <1>5
  <1> QED
    BY <1>3, <1>5, <1>6 DEF Take, Parts

TakeStep(D, ch) == [pc \in Parts(D) \X D |-> Take(pc[1], pc[2], ch)]

LEMMA SplitScan ==
    ASSUME NEW D, NEW ch, NEW t \in Seq(D)
    PROVE  Scan(Parts(D), D, << <<>> >>, TakeStep(D, ch), t)
  <1>1. TakeStep(D, ch) \in [Parts(D) \X D -> Parts(D)]
    BY TakeParts DEF TakeStep
  <1>2. << <<>> >> \in Parts(D)
    BY DEF Parts
  <1> QED
    BY <1>1, <1>2 DEF Scan

LEMMA SplitFollows ==
    ASSUME NEW D, NEW ch, NEW t \in Seq(D)
    PROVE  \E g : /\ Follows(g, Parts(D), << <<>> >>, TakeStep(D, ch), t)
                  /\ SplitAt(t, ch) = g[Len(t)]
  <1> DEFINE Def(f) == [n \in 0..Len(t) |->
                          IF n = 0 THEN << <<>> >> ELSE Take(f[n - 1], t[n], ch)]
  <1>1. Scan(Parts(D), D, << <<>> >>, TakeStep(D, ch), t)
    BY SplitScan
  <1>3. PICK g : Follows(g, Parts(D), << <<>> >>, TakeStep(D, ch), t)
    BY <1>1, ScanExists
  <1>4. g = Def(g)
    <2>1. /\ g \in [0..Len(t) -> Parts(D)] /\ g[0] = << <<>> >>
          /\ \A n \in 1..Len(t) : g[n] = TakeStep(D, ch)[<<g[n - 1], t[n]>>]
      BY <1>3 DEF Follows
    <2>2. \A n \in 1..Len(t) : g[n - 1] \in Parts(D) /\ t[n] \in D /\ n # 0
      BY <2>1
    <2>3. \A n \in 1..Len(t) : g[n] = Take(g[n - 1], t[n], ch)
      BY <2>1, <2>2 DEF TakeStep
    <2>4. ASSUME NEW n \in 0..Len(t) PROVE g[n] = Def(g)[n]
      <3>1. CASE n = 0
        BY <2>1, <3>1
      <3>2. CASE n # 0
        <4>1. n \in 1..Len(t)
          BY <3>2
        <4> QED
          BY <2>3, <4>1
      <3> QED
        BY <3>1, <3>2
    <2> QED
      BY <2>1, <2>4
  <1> DEFINE f == CHOOSE f : f = Def(f)
  <1>5. f = Def(f)
    BY <1>4
  <1>6. SplitAt(t, ch) = f[Len(t)]
    BY DEF SplitAt, Take
  <1> HIDE DEF f
  <1>7. Len(t) \in Nat /\ \A n \in 1..Len(t) : t[n] \in D
    OBVIOUS
  <1>8. f[0] = << <<>> >> /\ \A n \in 1..Len(t) : f[n] = Take(f[n - 1], t[n], ch)
    BY <1>5, <1>7
  <1>9. Tracks(f, Parts(D), << <<>> >>, TakeStep(D, ch), t)
    BY <1>7, <1>8 DEF TakeStep, Tracks
  <1>10. f[Len(t)] = g[Len(t)]
    <2>1. \A n \in 0..Len(t) : f[n] = g[n]
      BY <1>1, <1>3, <1>9, ScanUnique
    <2> QED
      BY <2>1, <1>7
  <1> QED
    BY <1>3, <1>6, <1>10

LEMMA SplitAppend ==
    ASSUME NEW D, NEW ch, NEW t \in Seq(D), NEW c \in D
    PROVE  /\ SplitAt(t, ch) \in Parts(D)
           /\ SplitAt(Append(t, c), ch) = Take(SplitAt(t, ch), c, ch)
  <1>0. Append(t, c) \in Seq(D)
    OBVIOUS
  <1>1. PICK g : Follows(g, Parts(D), << <<>> >>, TakeStep(D, ch), t) /\ SplitAt(t, ch) = g[Len(t)]
    BY SplitFollows
  <1>2. PICK h : /\ Follows(h, Parts(D), << <<>> >>, TakeStep(D, ch), Append(t, c))
                 /\ SplitAt(Append(t, c), ch) = h[Len(Append(t, c))]
    BY <1>0, SplitFollows
  <1>3. Scan(Parts(D), D, << <<>> >>, TakeStep(D, ch), t)
    BY SplitScan
  <1>4. g[Len(t)] \in Parts(D) /\ h[Len(Append(t, c))] = TakeStep(D, ch)[<<g[Len(t)], c>>]
    BY <1>1, <1>2, <1>3, ScanAppend
  <1> QED
    BY <1>1, <1>2, <1>4 DEF TakeStep

LEMMA SplitNothing == ASSUME NEW ch PROVE SplitAt(<<>>, ch) = << <<>> >>
  <1>1. <<>> \in Seq({})
    OBVIOUS
  <1>2. PICK g : Follows(g, Parts({}), << <<>> >>, TakeStep({}, ch), <<>>)
                 /\ SplitAt(<<>>, ch) = g[Len(<<>>)]
    BY <1>1, SplitFollows
  <1> QED
    BY <1>2 DEF Follows

\* Text without the delimiter goes to the last part.
Extend(p, u) == [p EXCEPT ![Len(p)] = @ \o u]

LEMMA SplitExtends ==
    ASSUME NEW D, NEW ch, NEW t \in Seq(D)
    PROVE  \A u \in Seq(D \ {ch}) : SplitAt(t \o u, ch) = Extend(SplitAt(t, ch), u)
  <1> DEFINE p == SplitAt(t, ch)
             T == {u \in Seq(D \ {ch}) : SplitAt(t \o u, ch) = Extend(p, u)}
  <1>0. p \in Seq(Seq(D)) /\ Len(p) \in Nat /\ Len(p) \in 1..Len(p) /\ p[Len(p)] \in Seq(D)
    <2>1. p \in Parts(D)
      <3>1. CASE t = <<>>
        <4>1. p = << <<>> >>
          BY <3>1, SplitNothing
        <4> QED
          BY <4>1 DEF Parts
      <3>2. CASE t # <<>>
        <4>1. PICK c \in D : TRUE
          BY <3>2, EmptySeq
        <4> QED
          BY <4>1, SplitAppend
      <3> QED
        BY <3>1, <3>2
    <2> HIDE DEF p
    <2> QED
      BY <2>1, EmptySeq DEF Parts
  <1> HIDE DEF p
  <1>1. <<>> \in T
    <2>1. t \o <<>> = t /\ p[Len(p)] \o <<>> = p[Len(p)]
      BY <1>0
    <2>2. Extend(p, <<>>) = p
      BY <1>0, <2>1 DEF Extend
    <2> QED
      BY <2>1, <2>2 DEF p
  <1>2. ASSUME NEW u \in Seq(D \ {ch}), NEW c \in D \ {ch}, u \in T PROVE Append(u, c) \in T
    <2> DEFINE q == Extend(p, u)
    <2>1. SplitAt(t \o u, ch) = q /\ u \in Seq(D) /\ t \o u \in Seq(D)
      BY <1>2
    <2>2. t \o Append(u, c) = Append(t \o u, c)
      BY <2>1
    <2>3. SplitAt(t \o Append(u, c), ch) = Take(q, c, ch)
      BY <2>1, <2>2, SplitAppend
    <2>4. Len(q) = Len(p) /\ q[Len(p)] = p[Len(p)] \o u /\ q = [p EXCEPT ![Len(p)] = p[Len(p)] \o u]
      BY <1>0, <2>1, ExceptSeq DEF Extend
    <2> HIDE DEF q
    <2>5. Take(q, c, ch) = [q EXCEPT ![Len(p)] = Append(p[Len(p)] \o u, c)]
      BY <2>4 DEF Take
    <2>6. Append(p[Len(p)] \o u, c) = p[Len(p)] \o Append(u, c)
      <3>1. \A s \in Seq(D) : Append(s \o u, c) = s \o Append(u, c)
        BY <2>1
      <3> QED
        BY <1>0, <3>1
    <2>7. Take(q, c, ch) = Extend(p, Append(u, c))
      BY <1>0, <2>4, <2>5, <2>6 DEF Extend
    <2> QED
      BY <2>3, <2>7
  <1> HIDE DEF T
  <1>3. Seq(D \ {ch}) \subseteq T
    BY <1>1, <1>2, SeqInduction
  <1> QED
    BY <1>3 DEF T, p

LEMMA SplitWhole ==
    ASSUME NEW D, NEW ch, NEW u \in Seq(D \ {ch}) PROVE SplitAt(u, ch) = <<u>>
  <1>1. u \in Seq(D)
    OBVIOUS
  <1>2. \A t \in Seq(D) : SplitAt(t \o u, ch) = Extend(SplitAt(t, ch), u)
    BY SplitExtends
  <1>3. SplitAt(u, ch) = Extend(<< <<>> >>, u)
    <2>1. <<>> \in Seq(D) /\ <<>> \o u = u
      OBVIOUS
    <2> QED
      BY <1>2, <2>1, SplitNothing
  <1>4. Extend(<< <<>> >>, u) = <<u>>
    BY <1>1 DEF Extend
  <1> QED
    BY <1>3, <1>4

\* A delimiter begins a part.
Delimited(D, ch, t, u) == ch \in D /\ t \in Seq(D) /\ u \in Seq(D \ {ch})
BeginsPart(t, ch, u) == SplitAt(Append(t, ch) \o u, ch) = Append(SplitAt(t, ch), u)

LEMMA SplitOnce ==
    ASSUME NEW D, NEW ch, NEW t, NEW u, Delimited(D, ch, t, u) PROVE BeginsPart(t, ch, u)
  <1> DEFINE p == SplitAt(t, ch)
  <1> USE DEF Delimited
  <1>1. p \in Parts(D) /\ SplitAt(Append(t, ch), ch) = Take(p, ch, ch)
    BY SplitAppend
  <1>2. \A s \in Seq(D) : SplitAt(s \o u, ch) = Extend(SplitAt(s, ch), u)
    BY SplitExtends
  <1>3. SplitAt(Append(t, ch) \o u, ch) = Extend(SplitAt(Append(t, ch), ch), u)
    <2>1. Append(t, ch) \in Seq(D)
      OBVIOUS
    <2> QED
      BY <1>2, <2>1
  <1> HIDE DEF p
  <1>4. Take(p, ch, ch) = Append(p, <<>>) /\ p \in Seq(Seq(D)) /\ u \in Seq(D)
    BY <1>1 DEF Take, Parts
  <1> DEFINE q == Append(p, <<>>)
  <1>5. /\ q \in Seq(Seq(D)) /\ Len(q) = Len(p) + 1 /\ Len(p) \in Nat
        /\ q[Len(p) + 1] = <<>> /\ \A i \in 1..Len(p) : q[i] = p[i]
    BY <1>4
  <1> HIDE DEF q
  <1>6. Extend(q, u) = [q EXCEPT ![Len(p) + 1] = u]
    BY <1>4, <1>5 DEF Extend
  <1>7. [q EXCEPT ![Len(p) + 1] = u] = Append(p, u)
    <2> DEFINE r == [q EXCEPT ![Len(p) + 1] = u]
    <2>1. /\ r \in Seq(Seq(D)) /\ Len(r) = Len(p) + 1
          /\ \A i \in 1..(Len(p) + 1) : r[i] = IF i = Len(p) + 1 THEN u ELSE q[i]
      BY <1>4, <1>5, ExceptSeq
    <2>2. /\ Append(p, u) \in Seq(Seq(D)) /\ Len(Append(p, u)) = Len(p) + 1
          /\ Append(p, u)[Len(p) + 1] = u /\ \A i \in 1..Len(p) : Append(p, u)[i] = p[i]
      BY <1>4
    <2> HIDE DEF r
    <2>3. ASSUME NEW i \in 1..Len(r) PROVE r[i] = Append(p, u)[i]
      <3>1. i = Len(p) + 1 \/ i \in 1..Len(p)
        BY <1>5, <2>1
      <3> QED
        BY <3>1, <1>5, <2>1, <2>2
    <2> QED
      BY <2>1, <2>2, <2>3, SeqEqual DEF r
  <1> QED
    BY <1>1, <1>3, <1>4, <1>6, <1>7 DEF p, q, BeginsPart

-----------------------------------------------------------------------------
(* Joining                                                                 *)

Join(D) == [two \in Seq(D) \X Seq(D) |-> two[1] \o two[2]]

LEMMA JoinScan ==
    ASSUME NEW D, NEW s \in Seq(Seq(D)) PROVE Scan(Seq(D), Seq(D), <<>>, Join(D), s)
  <1>1. \A a, b \in Seq(D) : a \o b \in Seq(D)
    OBVIOUS
  <1>2. Join(D) \in [Seq(D) \X Seq(D) -> Seq(D)]
    BY <1>1 DEF Join
  <1>3. <<>> \in Seq(D)
    OBVIOUS
  <1> QED
    BY <1>2, <1>3 DEF Scan

LEMMA FlattenFollows ==
    ASSUME NEW D, NEW s \in Seq(Seq(D))
    PROVE  \E g : /\ Follows(g, Seq(D), <<>>, Join(D), s)
                  /\ FlattenSeq(s) = g[Len(s)]
  <1> DEFINE Def(f) == [i \in 1..Len(s) |-> IF i = 1 THEN s[i] ELSE f[i - 1] \o s[i]]
  <1>1. Scan(Seq(D), Seq(D), <<>>, Join(D), s)
    BY JoinScan
  <1>2. PICK g : Follows(g, Seq(D), <<>>, Join(D), s)
    BY <1>1, ScanExists
  <1>3. CASE s = <<>>
    <2>1. FlattenSeq(s) = <<>> /\ g[Len(s)] = <<>>
      BY <1>2, <1>3 DEF FlattenSeq, Follows
    <2> QED
      BY <1>2, <2>1
  <1>4. CASE s # <<>>
    <2>1. Len(s) \in Nat /\ Len(s) # 0 /\ \A i \in 1..Len(s) : s[i] \in Seq(D)
      BY <1>4, EmptySeq
    <2>2. /\ g \in [0..Len(s) -> Seq(D)] /\ g[0] = <<>>
          /\ \A i \in 1..Len(s) : g[i] = Join(D)[<<g[i - 1], s[i]>>]
      BY <1>2 DEF Follows
    <2>3. \A i \in 1..Len(s) : g[i - 1] \in Seq(D)
      <3>1. \A i \in 1..Len(s) : i - 1 \in 0..Len(s)
        BY <2>1
      <3> QED
        BY <2>2, <3>1
    <2>4. \A i \in 1..Len(s) : g[i] = g[i - 1] \o s[i]
      BY <2>1, <2>2, <2>3 DEF Join
    <2> DEFINE r == [i \in 1..Len(s) |-> g[i]]
    <2>5. r = Def(r)
      <3>1. ASSUME NEW i \in 1..Len(s) PROVE r[i] = Def(r)[i]
        <4>1. CASE i = 1
          <5>1. g[1] = <<>> \o s[1] /\ s[1] \in Seq(D)
            <6>1. 1 \in 1..Len(s) /\ 1 - 1 = 0
              BY <4>1
            <6>2. g[1] = g[1 - 1] \o s[1]
              BY <2>4, <6>1
            <6> QED
              BY <2>1, <2>2, <6>1, <6>2
          <5>2. <<>> \o s[1] = s[1]
            BY <5>1, ConcatEmptySeq
          <5> QED
            BY <4>1, <5>1, <5>2
        <4>2. CASE i # 1
          <5>1. i - 1 \in 1..Len(s)
            BY <4>2
          <5> QED
            BY <2>4, <4>2, <5>1
        <4> QED
          BY <4>1, <4>2
      <3> QED
        BY <3>1
    <2> DEFINE f == CHOOSE f : f = Def(f)
    <2>6. f = Def(f)
      BY <2>5
    <2>7. FlattenSeq(s) = f[Len(s)]
      BY <2>1 DEF FlattenSeq
    <2> HIDE DEF f, r
    <2> DEFINE h == [n \in 0..Len(s) |-> IF n = 0 THEN <<>> ELSE f[n]]
    <2>8. h[0] = <<>> /\ \A n \in 1..Len(s) : h[n] = f[n]
      BY <2>1
    <2> HIDE DEF h
    <2>9. ASSUME NEW n \in 1..Len(s), h[n - 1] \in Seq(D) PROVE h[n] = h[n - 1] \o s[n]
      <3>1. CASE n = 1
        <4>1. h[n] = s[1] /\ h[n - 1] = <<>> /\ s[1] \in Seq(D)
          BY <2>1, <2>6, <2>8, <3>1
        <4> QED
          BY <3>1, <4>1, ConcatEmptySeq
      <3>2. CASE n # 1
        <4>1. n - 1 \in 1..Len(s)
          BY <3>2
        <4>2. f[n] = f[n - 1] \o s[n]
          BY <2>6, <3>2
        <4> QED
          BY <2>8, <4>1, <4>2
      <3> QED
        BY <3>1, <3>2
    <2>10. Tracks(h, Seq(D), <<>>, Join(D), s)
      BY <2>1, <2>8, <2>9 DEF Tracks, Join
    <2>11. \A n \in 0..Len(s) : h[n] = g[n]
      BY <1>1, <1>2, <2>10, ScanUnique
    <2>12. h[Len(s)] = g[Len(s)] /\ Len(s) \in 1..Len(s)
      BY <2>1, <2>11
    <2> QED
      BY <1>2, <2>7, <2>8, <2>12
  <1> QED
    BY <1>3, <1>4

LEMMA FlattenAppend ==
    ASSUME NEW D, NEW s \in Seq(Seq(D)), NEW e \in Seq(D)
    PROVE  FlattenSeq(s) \in Seq(D) /\ FlattenSeq(Append(s, e)) = FlattenSeq(s) \o e
  <1>0. Append(s, e) \in Seq(Seq(D))
    OBVIOUS
  <1>1. PICK g : Follows(g, Seq(D), <<>>, Join(D), s) /\ FlattenSeq(s) = g[Len(s)]
    BY FlattenFollows
  <1>2. PICK h : /\ Follows(h, Seq(D), <<>>, Join(D), Append(s, e))
                 /\ FlattenSeq(Append(s, e)) = h[Len(Append(s, e))]
    BY <1>0, FlattenFollows
  <1>3. Scan(Seq(D), Seq(D), <<>>, Join(D), s)
    BY JoinScan
  <1>4. g[Len(s)] \in Seq(D) /\ h[Len(Append(s, e))] = Join(D)[<<g[Len(s)], e>>]
    BY <1>1, <1>2, <1>3, ScanAppend
  <1> QED
    BY <1>1, <1>2, <1>4 DEF Join

LEMMA FlattenNothing == FlattenSeq(<<>>) = <<>>
  BY DEF FlattenSeq

\* f is m with e behind it.
OneLonger(V, m, e, f) ==
    /\ m \in Seq(V) /\ e \in V
    /\ f = [i \in 1..(Len(m) + 1) |-> IF i = Len(m) + 1 THEN e ELSE m[i]]

LEMMA OneMore ==
    ASSUME NEW V, NEW m, NEW e, NEW f, OneLonger(V, m, e, f) PROVE f = Append(m, e)
  <1>0. /\ m \in Seq(V) /\ e \in V
        /\ f = [i \in 1..(Len(m) + 1) |-> IF i = Len(m) + 1 THEN e ELSE m[i]]
    BY DEF OneLonger
  <1> DEFINE y == Append(m, e)
  <1>1. /\ y \in Seq(V) /\ Len(y) = Len(m) + 1 /\ Len(m) \in Nat
        /\ \A i \in 1..(Len(m) + 1) : y[i] = IF i = Len(m) + 1 THEN e ELSE m[i]
    BY <1>0
  <1>2. \A i \in 1..(Len(m) + 1) : (IF i = Len(m) + 1 THEN e ELSE m[i]) \in V
    BY <1>0, <1>1
  <1>3. /\ f \in Seq(V) /\ Len(f) = Len(m) + 1
        /\ \A i \in 1..(Len(m) + 1) : f[i] = IF i = Len(m) + 1 THEN e ELSE m[i]
    BY <1>0, <1>1, <1>2
  <1> HIDE DEF y
  <1>4. f = y
    BY <1>1, <1>3, SeqEqual
  <1> QED
    BY <1>4 DEF y

-----------------------------------------------------------------------------
(* Replacing characters                                                    *)

\* What a replacement makes of one character.
By(c, chars, by) == IF c \in chars THEN by ELSE <<c>>
Turns(D, E, chars, by) == \A c \in D : By(c, chars, by) \in Seq(E)

LEMMA ReplacedNothing == ASSUME NEW chars, NEW by PROVE Replaced(<<>>, chars, by) = <<>>
  <1>1. [i \in 1..Len(<<>>) |-> IF <<>>[i] \in chars THEN by ELSE << <<>>[i] >>] = <<>>
    OBVIOUS
  <1> QED
    BY <1>1, FlattenNothing DEF Replaced

LEMMA ReplacedAppend ==
    ASSUME NEW D, NEW E, NEW chars, NEW by, Turns(D, E, chars, by), NEW t \in Seq(D), NEW c \in D
    PROVE  /\ Replaced(t, chars, by) \in Seq(E)
           /\ Replaced(Append(t, c), chars, by) = Replaced(t, chars, by) \o By(c, chars, by)
  <1> DEFINE map(u) == [i \in 1..Len(u) |-> By(u[i], chars, by)]
             m == map(t)
             e == By(c, chars, by)
             a == Append(t, c)
  <1>1. \A u : Replaced(u, chars, by) = FlattenSeq(map(u))
    BY DEF Replaced, By
  <1>2. Len(t) \in Nat /\ \A i \in 1..Len(t) : t[i] \in D
    OBVIOUS
  <1>3. m \in Seq(Seq(E)) /\ Len(m) = Len(t) /\ \A i \in 1..Len(t) : m[i] = By(t[i], chars, by)
    <2>1. \A i \in 1..Len(t) : By(t[i], chars, by) \in Seq(E)
      BY <1>2 DEF Turns
    <2> HIDE DEF By
    <2> QED
      BY <1>2, <2>1
  <1>4. e \in Seq(E)
    BY DEF Turns
  <1>5. /\ Len(a) = Len(t) + 1 /\ a[Len(t) + 1] = c
        /\ \A i \in 1..Len(t) : a[i] = t[i]
    OBVIOUS
  <1>6. map(a) = [i \in 1..(Len(t) + 1) |-> IF i = Len(t) + 1 THEN e ELSE m[i]]
    <2>1. ASSUME NEW i \in 1..(Len(t) + 1)
          PROVE  By(a[i], chars, by) = IF i = Len(t) + 1 THEN e ELSE m[i]
      <3>1. CASE i = Len(t) + 1
        BY <1>5, <3>1
      <3>2. CASE i # Len(t) + 1
        <4>1. i \in 1..Len(t)
          BY <1>2, <3>2
        <4> QED
          BY <1>3, <1>5, <3>2, <4>1
      <3> QED
        BY <3>1, <3>2
    <2> HIDE DEF m, e, a
    <2> QED
      BY <1>5, <2>1
  <1> HIDE DEF m, e, a, map
  <1>7. map(a) = Append(m, e)
    <2>1. OneLonger(Seq(E), m, e, map(a))
      BY <1>2, <1>3, <1>4, <1>6 DEF OneLonger
    <2> QED
      BY <2>1, OneMore
  <1>8. FlattenSeq(m) \in Seq(E) /\ FlattenSeq(Append(m, e)) = FlattenSeq(m) \o e
    BY <1>3, <1>4, FlattenAppend
  <1> QED
    BY <1>1, <1>7, <1>8 DEF m, e, a

LEMMA ReplacedIn ==
    ASSUME NEW D, NEW chars, NEW by, Turns(D, D, chars, by)
    PROVE  \A t \in Seq(D), c \in D :
             /\ Replaced(t, chars, by) \in Seq(D)
             /\ Replaced(Append(t, c), chars, by) = Replaced(t, chars, by) \o By(c, chars, by)
  <1> SUFFICES ASSUME NEW t \in Seq(D), NEW c \in D
               PROVE  /\ Replaced(t, chars, by) \in Seq(D)
                      /\ Replaced(Append(t, c), chars, by)
                            = Replaced(t, chars, by) \o By(c, chars, by)
    OBVIOUS
  <1> QED
    BY ReplacedAppend

LEMMA ReplacedText ==
    ASSUME NEW D, NEW E, NEW chars, NEW by, Turns(D, E, chars, by), NEW t \in Seq(D)
    PROVE  Replaced(t, chars, by) \in Seq(E)
  <1>1. CASE t = <<>>
    <2>1. Replaced(t, chars, by) = <<>>
      BY <1>1, ReplacedNothing
    <2> QED
      BY <2>1
  <1>2. CASE t # <<>>
    <2>1. PICK c \in D : TRUE
      BY <1>2, EmptySeq
    <2> QED
      BY <2>1, ReplacedAppend
  <1> QED
    BY <1>1, <1>2

-----------------------------------------------------------------------------
(* Escaping, and reading what was escaped                                  *)

\* What the whitelist keeps, and what of it is escaped.
Safe == Chars \ {"foreign", ",", ";", "="}
Special == {"quote", "backslash"}

LEMMA WhitelistedIsSafe == ASSUME NEW t \in Seq(Chars) PROVE Whitelisted(t) \in Seq(Safe)
  <1> DEFINE bad == {"foreign", ",", ";", "="}
  <1>1. <<>> \in Seq(Safe) /\ \A c \in Safe : <<c>> \in Seq(Safe)
    OBVIOUS
  <1>2. \A c \in Chars : c \in bad \/ c \in Safe
    BY DEF Safe
  <1> HIDE DEF bad
  <1>3. Turns(Chars, Safe, bad, <<>>)
    BY <1>1, <1>2 DEF Turns, By
  <1>4. Replaced(t, bad, <<>>) \in Seq(Safe)
    BY <1>3, ReplacedText
  <1> QED
    BY <1>4 DEF Whitelisted, bad

LEMMA EscapedAppend ==
    ASSUME NEW t \in Seq(Safe), NEW c \in Safe
    PROVE  /\ Escaped(t) \in Seq(Safe)
           /\ Escaped(Append(t, c)) = IF c \in Special THEN Append(Append(Escaped(t), "backslash"), c)
                                     ELSE Append(Escaped(t), c)
  <1> DEFINE BB == <<"backslash", "backslash">>
             BQ == <<"backslash", "quote">>
             R1(u) == Replaced(u, {"backslash"}, BB)
             R2(u) == Replaced(u, {"quote"}, BQ)
  <1>s. "backslash" \in Safe /\ "quote" \in Safe
    BY DEF Safe, Chars
  <1>b. BB \in Seq(Safe) /\ BQ \in Seq(Safe) /\ \A d \in Safe : <<d>> \in Seq(Safe)
    BY <1>s
  <1>1. \A u \in Seq(Safe), d \in Safe :
          R1(u) \in Seq(Safe) /\ R1(Append(u, d)) = R1(u) \o By(d, {"backslash"}, BB)
    <2> DEFINE it == {"backslash"}
    <2> HIDE DEF BB, it
    <2>1. Turns(Safe, Safe, it, BB)
      BY <1>b DEF By, Turns
    <2>2. \A u \in Seq(Safe), d \in Safe :
            /\ Replaced(u, it, BB) \in Seq(Safe)
            /\ Replaced(Append(u, d), it, BB) = Replaced(u, it, BB) \o By(d, it, BB)
      BY <2>1, ReplacedIn
    <2> QED
      BY <2>2 DEF it
  <1>2. \A u \in Seq(Safe), d \in Safe :
          R2(u) \in Seq(Safe) /\ R2(Append(u, d)) = R2(u) \o By(d, {"quote"}, BQ)
    <2> DEFINE it == {"quote"}
    <2> HIDE DEF BQ, it
    <2>1. Turns(Safe, Safe, it, BQ)
      BY <1>b DEF By, Turns
    <2>2. \A u \in Seq(Safe), d \in Safe :
            /\ Replaced(u, it, BQ) \in Seq(Safe)
            /\ Replaced(Append(u, d), it, BQ) = Replaced(u, it, BQ) \o By(d, it, BQ)
      BY <2>1, ReplacedIn
    <2> QED
      BY <2>2 DEF it
  <1>3. \A u : Escaped(u) = R2(R1(u))
    BY DEF Escaped
  <1>t. R1(t) \in Seq(Safe) /\ R2(R1(t)) \in Seq(Safe)
    BY <1>1, <1>2, <1>s
  <1> HIDE DEF R1, R2
  <1>a. \A u \in Seq(Safe), d \in Safe : Append(u, d) \in Seq(Safe) /\ u \o <<d>> = Append(u, d)
    OBVIOUS
  <1>p. \A u \in Seq(Safe), d, e \in Safe : u \o <<d, e>> = Append(Append(u, d), e)
    OBVIOUS
  <1>4. \A u \in Seq(Safe), d \in Safe \ {"quote"} : R2(Append(u, d)) = Append(R2(u), d)
    BY <1>2, <1>a DEF By
  <1>5. CASE c = "backslash"
    <2>1. R1(Append(t, c)) = Append(Append(R1(t), c), c)
      BY <1>1, <1>5, <1>s, <1>t, <1>p DEF By
    <2>2. Append(R1(t), c) \in Seq(Safe) /\ c \in Safe \ {"quote"}
      BY <1>5, <1>s, <1>t
    <2>3. R2(R1(Append(t, c))) = Append(Append(R2(R1(t)), c), c)
      BY <2>1, <2>2, <1>4, <1>t
    <2> QED
      BY <1>3, <1>5, <1>t, <2>3 DEF Special
  <1>6. CASE c # "backslash"
    <2>1. R1(Append(t, c)) = Append(R1(t), c)
      BY <1>1, <1>6, <1>t, <1>a DEF By
    <2>2. CASE c = "quote"
      <3>1. R2(Append(R1(t), c)) = R2(R1(t)) \o BQ
        BY <1>2, <1>t, <2>2 DEF By
      <3>2. R2(R1(t)) \o BQ = Append(Append(R2(R1(t)), "backslash"), c)
        BY <1>p, <1>s, <1>t, <2>2
      <3> QED
        BY <1>3, <1>t, <2>1, <2>2, <3>1, <3>2 DEF Special
    <2>3. CASE c # "quote"
      <3>1. R2(R1(Append(t, c))) = Append(R2(R1(t)), c)
        BY <2>1, <2>3, <1>4, <1>t
      <3> QED
        BY <1>3, <1>6, <1>t, <2>3, <3>1 DEF Special
    <2> QED
      BY <2>2, <2>3
  <1> QED
    BY <1>5, <1>6

LEMMA EscapedNothing == Escaped(<<>>) = <<>>
  BY ReplacedNothing DEF Escaped

Readings(D) == [text : Seq(D), escaped : BOOLEAN, ok : BOOLEAN]
NothingRead == [text |-> <<>>, escaped |-> FALSE, ok |-> TRUE]

\* What a reader makes of the next character.
ReadOne(so, c) ==
    IF so.escaped THEN [so EXCEPT !.text = Append(@, c), !.escaped = FALSE]
    ELSE IF c = "backslash" THEN [so EXCEPT !.escaped = TRUE]
    ELSE IF c = "quote" THEN [so EXCEPT !.ok = FALSE]
    ELSE [so EXCEPT !.text = Append(@, c)]

ReadStep(D) == [sc \in Readings(D) \X D |-> ReadOne(sc[1], sc[2])]

LEMMA ReadScan ==
    ASSUME NEW D, NEW t \in Seq(D) PROVE Scan(Readings(D), D, NothingRead, ReadStep(D), t)
  <1>1. ASSUME NEW so \in Readings(D), NEW c \in D PROVE ReadOne(so, c) \in Readings(D)
    <2>1. so.text \in Seq(D)
      BY DEF Readings
    <2>2. Append(so.text, c) \in Seq(D)
      BY <2>1
    <2> QED
      BY <2>2 DEF ReadOne, Readings
  <1>2. ReadStep(D) \in [Readings(D) \X D -> Readings(D)]
    BY <1>1 DEF ReadStep
  <1>3. NothingRead \in Readings(D)
    BY DEF NothingRead, Readings
  <1> QED
    BY <1>2, <1>3 DEF Scan

LEMMA ReadFollows ==
    ASSUME NEW D, NEW t \in Seq(D)
    PROVE  \E g : Follows(g, Readings(D), NothingRead, ReadStep(D), t) /\ Read(t) = g[Len(t)]
  <1> DEFINE Def(f) == [n \in 0..Len(t) |->
                          IF n = 0 THEN NothingRead ELSE ReadOne(f[n - 1], t[n])]
  <1>1. Scan(Readings(D), D, NothingRead, ReadStep(D), t)
    BY ReadScan
  <1>3. PICK g : Follows(g, Readings(D), NothingRead, ReadStep(D), t)
    BY <1>1, ScanExists
  <1>4. g = Def(g)
    <2>1. /\ g \in [0..Len(t) -> Readings(D)] /\ g[0] = NothingRead
          /\ \A n \in 1..Len(t) : g[n] = ReadStep(D)[<<g[n - 1], t[n]>>]
      BY <1>3 DEF Follows
    <2>2. \A n \in 1..Len(t) : g[n - 1] \in Readings(D) /\ t[n] \in D /\ n # 0
      BY <2>1
    <2>3. \A n \in 1..Len(t) : g[n] = ReadOne(g[n - 1], t[n])
      BY <2>1, <2>2 DEF ReadStep
    <2>4. ASSUME NEW n \in 0..Len(t) PROVE g[n] = Def(g)[n]
      <3>1. CASE n = 0
        BY <2>1, <3>1
      <3>2. CASE n # 0
        <4>1. n \in 1..Len(t)
          BY <3>2
        <4> QED
          BY <2>3, <4>1
      <3> QED
        BY <3>1, <3>2
    <2> QED
      BY <2>1, <2>4
  <1> DEFINE f == CHOOSE f : f = Def(f)
  <1>5. f = Def(f)
    BY <1>4
  <1>6. Read(t) = f[Len(t)]
    BY DEF Read, ReadOne, NothingRead
  <1> HIDE DEF f
  <1>7. Len(t) \in Nat /\ \A n \in 1..Len(t) : t[n] \in D
    OBVIOUS
  <1>8. f[0] = NothingRead /\ \A n \in 1..Len(t) : f[n] = ReadOne(f[n - 1], t[n])
    BY <1>5, <1>7
  <1>9. Tracks(f, Readings(D), NothingRead, ReadStep(D), t)
    BY <1>7, <1>8 DEF ReadStep, Tracks
  <1>10. f[Len(t)] = g[Len(t)]
    <2>1. \A n \in 0..Len(t) : f[n] = g[n]
      BY <1>1, <1>3, <1>9, ScanUnique
    <2> QED
      BY <2>1, <1>7
  <1> QED
    BY <1>3, <1>6, <1>10

LEMMA ReadAppend ==
    ASSUME NEW D, NEW t \in Seq(D), NEW c \in D PROVE Read(Append(t, c)) = ReadOne(Read(t), c)
  <1>0. Append(t, c) \in Seq(D)
    OBVIOUS
  <1>1. PICK g : Follows(g, Readings(D), NothingRead, ReadStep(D), t) /\ Read(t) = g[Len(t)]
    BY ReadFollows
  <1>2. PICK h : /\ Follows(h, Readings(D), NothingRead, ReadStep(D), Append(t, c))
                 /\ Read(Append(t, c)) = h[Len(Append(t, c))]
    BY <1>0, ReadFollows
  <1>3. Scan(Readings(D), D, NothingRead, ReadStep(D), t)
    BY ReadScan
  <1>4. g[Len(t)] \in Readings(D) /\ h[Len(Append(t, c))] = ReadStep(D)[<<g[Len(t)], c>>]
    BY <1>1, <1>2, <1>3, ScanAppend
  <1> QED
    BY <1>1, <1>2, <1>4 DEF ReadStep

LEMMA ReadNothing == Read(<<>>) = NothingRead
  <1>1. <<>> \in Seq({})
    OBVIOUS
  <1>2. PICK g : Follows(g, Readings({}), NothingRead, ReadStep({}), <<>>) /\ Read(<<>>) = g[Len(<<>>)]
    BY <1>1, ReadFollows
  <1> QED
    BY <1>2 DEF Follows

\* What was escaped is read as it was.
LEMMA EscapedReadsBack ==
    ASSUME NEW t \in Seq(Safe)
    PROVE  /\ Escaped(t) \in Seq(Safe)
           /\ Read(Escaped(t)) = [text |-> t, escaped |-> FALSE, ok |-> TRUE]
           /\ Escaped(t) = <<>> => t = <<>>
  <1> DEFINE Full(u) == [text |-> u, escaped |-> FALSE, ok |-> TRUE]
             T == {u \in Seq(Safe) : Escaped(u) \in Seq(Safe) /\ Read(Escaped(u)) = Full(u)}
  <1>1. <<>> \in T
    <2>1. <<>> \in Seq(Safe)
      OBVIOUS
    <2> QED
      BY <2>1, EscapedNothing, ReadNothing DEF NothingRead
  <1>2. ASSUME NEW u \in Seq(Safe), NEW c \in Safe, u \in T PROVE Append(u, c) \in T
    <2> DEFINE e == Escaped(u)
               a == Append(e, "backslash")
    <2>1. e \in Seq(Safe) /\ Read(e) = Full(u) /\ "backslash" \in Safe
      BY <1>2 DEF Safe, Chars
    <2>2. Append(u, c) \in Seq(Safe)
      OBVIOUS
    <2>3. Escaped(Append(u, c)) = IF c \in Special THEN Append(a, c) ELSE Append(e, c)
      BY EscapedAppend
    <2> HIDE DEF e
    <2>4. a \in Seq(Safe) /\ Append(e, c) \in Seq(Safe)
      BY <2>1
    <2>5. Read(a) = ReadOne(Full(u), "backslash") /\ Read(Append(e, c)) = ReadOne(Full(u), c)
      BY <2>1, ReadAppend
    <2> HIDE DEF a
    <2>6. CASE c \in Special
      <3>1. Read(Append(a, c)) = ReadOne(ReadOne(Full(u), "backslash"), c)
        BY <2>4, <2>5, ReadAppend
      <3>2. ReadOne(ReadOne(Full(u), "backslash"), c) = Full(Append(u, c))
        BY DEF ReadOne
      <3>3. Append(a, c) \in Seq(Safe)
        BY <2>4
      <3> QED
        BY <2>2, <2>3, <2>6, <3>1, <3>2, <3>3
    <2>7. CASE c \notin Special
      <3>1. ReadOne(Full(u), c) = Full(Append(u, c))
        BY <2>7 DEF ReadOne, Special
      <3> QED
        BY <2>2, <2>3, <2>4, <2>5, <2>7, <3>1
    <2> QED
      BY <2>6, <2>7
  <1> HIDE DEF T
  <1>3. t \in T
    BY <1>1, <1>2, SeqInduction
  <1>4. Escaped(t) \in Seq(Safe) /\ Read(Escaped(t)) = Full(t)
    BY <1>3 DEF T
  <1>5. ASSUME Escaped(t) = <<>> PROVE t = <<>>
    BY <1>4, <1>5, ReadNothing DEF NothingRead
  <1> QED
    BY <1>4, <1>5

-----------------------------------------------------------------------------
(* Entries                                                                 *)

\* The legs of a header with these names and durations, the characters of an
\* entry, and the parameter that holds a description.
Legged(Tokens) == [name : Tokens, desc : Seq(Chars), dur : Tokens]
Bits(Tokens) == Tokens \cup Safe \cup {"desc", "dur", "=", ";"}
Body(text) == <<"desc", "=", "quote">> \o text \o <<"quote">>

LEMMA BodyReads ==
    ASSUME NEW t \in Seq(Safe) PROVE Unquoted(Body(Escaped(t))) = t
  <1> DEFINE e == Escaped(t)
             b == Body(e)
             D == Safe \cup {"desc", "="}
  <1>1. e \in Seq(Safe) /\ Read(e) = [text |-> t, escaped |-> FALSE, ok |-> TRUE]
    BY EscapedReadsBack
  <1> HIDE DEF e
  <1>2. e \in Seq(D) /\ Len(e) \in Nat
    BY <1>1, SeqMonotonic
  <1> HIDE DEF D
  <1>3. Len(b) = Len(e) + 4 /\ \A i \in 1..Len(e) : b[i + 3] = e[i]
    BY <1>2 DEF Body
  <1> HIDE DEF b
  <1>4. SubSeq(b, 4, Len(b) - 1) = e
    <2> DEFINE u == SubSeq(b, 4, Len(b) - 1)
    <2>1. \A i \in 4..(Len(b) - 1) : b[i] \in D
      <3> SUFFICES ASSUME NEW i \in 4..(Len(b) - 1) PROVE b[i] \in D
        OBVIOUS
      <3>1. i - 3 \in 1..Len(e) /\ (i - 3) + 3 = i
        BY <1>2, <1>3
      <3>2. b[(i - 3) + 3] = e[i - 3] /\ e[i - 3] \in D
        BY <1>2, <1>3, <3>1
      <3> QED
        BY <1>2, <1>3, <3>1, <3>2
    <2>2. 4 \in Int /\ Len(b) - 1 \in Int /\ Len(b) - 1 = Len(e) + 3
      BY <1>2, <1>3
    <2>3. /\ u \in Seq(D) /\ Len(u) = IF 4 <= Len(b) - 1 THEN (Len(b) - 1) - 4 + 1 ELSE 0
          /\ \A i \in 1..((Len(b) - 1) - 4 + 1) : u[i] = b[4 + i - 1]
      BY <2>1, <2>2, SubSeqProperties
    <2> HIDE DEF u
    <2>4. Len(u) = Len(e) /\ \A i \in 1..Len(u) : u[i] = e[i]
      BY <1>2, <1>3, <2>2, <2>3
    <2> QED
      BY <1>2, <2>3, <2>4, SeqEqual DEF u
  <1> QED
    <2>1. Unquoted(b) = LET whole == Read(e)
                        IN  IF whole.ok /\ ~ whole.escaped THEN whole.text ELSE <<"unreadable">>
      BY <1>4 DEF Unquoted
    <2>2. Unquoted(b) = t
      BY <1>1, <2>1
    <2> QED
      BY <2>2 DEF b, e

\* Where the semicolons of an entry are.
LayoutArgs(D, pad, n, semi, q, e, c, last) ==
    /\ pad \in Seq(D) /\ last \in Seq(D) /\ q \in Seq(D) /\ e \in Seq(D)
    /\ n \in D /\ semi \in D /\ c \in D

Laid(pad, n, semi, q, e, c, last) ==
    /\ pad \o (<<n, semi>> \o <<>> \o last) = Append(Append(pad, n), semi) \o last
    /\ pad \o (<<n, semi>> \o (q \o e \o <<c, semi>>) \o last)
         = Append(Append(Append(pad, n), semi) \o (q \o e \o <<c>>), semi) \o last

LEMMA Layout ==
    ASSUME NEW D, NEW pad, NEW n, NEW semi, NEW q, NEW e, NEW c, NEW last,
           LayoutArgs(D, pad, n, semi, q, e, c, last)
    PROVE  Laid(pad, n, semi, q, e, c, last)
  <1>0. /\ pad \in Seq(D) /\ last \in Seq(D) /\ q \in Seq(D) /\ e \in Seq(D)
        /\ n \in D /\ semi \in D /\ c \in D
    BY DEF LayoutArgs
  <1> DEFINE A == <<n, semi>>
             X == Append(Append(pad, n), semi)
             B == q \o e
             Y == B \o <<c>>
             Q == B \o <<c, semi>>
             Z == A \o Q
  <1>1. A \in Seq(D) /\ X \in Seq(D) /\ B \in Seq(D) /\ pad \o A = X
    BY <1>0
  <1> HIDE DEF A, B
  <1>2. Y \in Seq(D) /\ Q \in Seq(D)
    BY <1>0, <1>1
  <1>3. Q = Append(Y, semi) /\ A \o <<>> = A
    BY <1>0, <1>1
  <1> HIDE DEF X, Y, Q
  <1>a. A \in Seq(D)
    BY <1>1
  <1>p. pad \in Seq(D) /\ last \in Seq(D)
    BY <1>0
  <1>4. Z \in Seq(D) /\ X \o Q = Append(X \o Y, semi)
    BY <1>0, <1>1, <1>2, <1>3
  <1>5. pad \o Z = X \o Q
    <2>1. (pad \o A) \o Q = pad \o (A \o Q)
      BY <1>p, <1>a, <1>2
    <2> QED
      BY <1>1, <2>1
  <1> HIDE DEF Z
  <1>z. Z \in Seq(D)
    BY <1>4
  <1>6. (pad \o Z) \o last = pad \o (Z \o last)
    BY <1>p, <1>z
  <1>7. (pad \o A) \o last = pad \o (A \o last)
    BY <1>p, <1>a
  <1>8. pad \o (A \o <<>> \o last) = X \o last
    BY <1>1, <1>3, <1>7
  <1>9. pad \o (A \o Q \o last) = Append(X \o Y, semi) \o last
    BY <1>4, <1>5, <1>6 DEF Z
  <1> QED
    BY <1>8, <1>9 DEF A, B, X, Y, Q, Laid

LEMMA Tuples ==
    \A a, b, c : Append(<<a>>, b) = <<a, b>> /\ Append(Append(<<a>>, b), c) = <<a, b, c>>
  <1>1. ASSUME NEW D, NEW a \in D, NEW b \in D PROVE Append(<<a>>, b) = <<a, b>>
    <2> DEFINE s == Append(<<a>>, b)
               t == <<a, b>>
    <2>1. s \in Seq(D) /\ Len(s) = 2 /\ s[1] = a /\ s[2] = b
      OBVIOUS
    <2>2. t \in Seq(D) /\ Len(t) = 2 /\ t[1] = a /\ t[2] = b
      OBVIOUS
    <2> HIDE DEF s, t
    <2>3. \A i \in 1..Len(s) : s[i] = t[i]
      BY <2>1, <2>2
    <2>4. s = t
      BY <2>1, <2>2, <2>3, SeqEqual
    <2> QED
      BY <2>4 DEF s, t
  <1>2. ASSUME NEW D, NEW a \in D, NEW b \in D, NEW c \in D PROVE Append(<<a, b>>, c) = <<a, b, c>>
    <2> DEFINE s == Append(<<a, b>>, c)
               t == <<a, b, c>>
    <2>1. s \in Seq(D) /\ Len(s) = 3 /\ s[1] = a /\ s[2] = b /\ s[3] = c
      OBVIOUS
    <2>2. t \in Seq(D) /\ Len(t) = 3 /\ t[1] = a /\ t[2] = b /\ t[3] = c
      OBVIOUS
    <2> HIDE DEF s, t
    <2>3. \A i \in 1..Len(s) : s[i] = t[i]
      BY <2>1, <2>2
    <2>4. s = t
      BY <2>1, <2>2, <2>3, SeqEqual
    <2> QED
      BY <2>4 DEF s, t
  <1>3. ASSUME NEW a, NEW b, NEW c
        PROVE  Append(<<a>>, b) = <<a, b>> /\ Append(Append(<<a>>, b), c) = <<a, b, c>>
    <2>1. a \in {a, b, c} /\ b \in {a, b, c} /\ c \in {a, b, c}
      OBVIOUS
    <2>2. Append(<<a>>, b) = <<a, b>>
      BY <1>1, <2>1, Zenon
    <2>3. Append(<<a, b>>, c) = <<a, b, c>>
      BY <1>2, <2>1, Zenon
    <2> QED
      BY <2>2, <2>3, Zenon
  <1> QED
    BY <1>3, Zenon

LEMMA ReadTwo ==
    ASSUME NEW x, NEW a, NEW b, SplitAt(x, ";") = <<a, b>>
    PROVE  ReadEntry(x) = [name |-> Last(a), desc |-> <<>>, dur |-> Last(b), params |-> 2]
  <1>1. Last(<<a, b>>) = b /\ <<a, b>>[1] = a /\ Len(<<a, b>>) = 2
    BY DEF Last
  <1> QED
    BY <1>1 DEF ReadEntry

LEMMA NotTwo == 3 # 2
  OBVIOUS

LEMMA ReadThree ==
    ASSUME NEW x, NEW a, NEW m, NEW b, SplitAt(x, ";") = <<a, m, b>>
    PROVE  ReadEntry(x) = [name |-> Last(a), desc |-> Unquoted(m), dur |-> Last(b), params |-> 3]
  <1> DEFINE p == <<a, m, b>>
  <1>1. Last(p) = b /\ p[1] = a /\ p[2] = m /\ Len(p) = 3 /\ SplitAt(x, ";") = p
    BY DEF Last
  <1> HIDE DEF p
  <1>2. Last(Last(p)) = Last(b) /\ Last(p[1]) = Last(a) /\ Unquoted(p[2]) = Unquoted(m) /\ Len(p) # 2
    BY <1>1, NotTwo, Zenon
  <1>3. ReadEntry(x) = [name |-> Last(p[1]), desc |-> Unquoted(p[2]), dur |-> Last(Last(p)), params |-> Len(p)]
    BY <1>1, <1>2 DEF ReadEntry
  <1> QED
    BY <1>1, <1>2, <1>3

\* What a split at the commas leaves before an entry.
Pads == {<<>>, <<"x">>}

\* An entry, be it the first or one after a comma and a blank, is read as its leg.
LEMMA EntryReads ==
    ASSUME NEW Tokens, Tokens \cap Chars = {}, NEW leg \in Legged(Tokens), NEW pad \in Pads
    PROVE  /\ Render(leg) \in Seq(Bits(Tokens))
           /\ ReadEntry(pad \o Render(leg))
                 = [name |-> leg.name, desc |-> Whitelisted(leg.desc), dur |-> leg.dur,
                    params |-> IF Whitelisted(leg.desc) = <<>> THEN 2 ELSE 3]
  <1> DEFINE D == Bits(Tokens)
             F == D \ {";"}
             w == Whitelisted(leg.desc)
             e == Escaped(w)
             name == <<leg.name>>
             first == Append(pad, leg.name)
             last == <<"dur", "=", leg.dur>>
             quoted == <<"desc", "=", "quote">> \o e \o <<"quote", ";">>
             read == [name |-> leg.name, desc |-> w, dur |-> leg.dur,
                      params |-> IF w = <<>> THEN 2 ELSE 3]
  <1>w. w \in Seq(Safe) /\ e \in Seq(Safe) /\ (e = <<>> <=> w = <<>>)
    BY WhitelistedIsSafe, EscapedReadsBack, EscapedNothing DEF Legged
  <1>t. leg.name \in F /\ leg.dur \in F
    BY DEF Bits, Legged, Chars
  <1>d. /\ "x" \in F /\ "desc" \in F /\ "dur" \in F /\ "=" \in F /\ "quote" \in F
        /\ ";" \in D /\ Safe \subseteq F
    BY DEF Bits, Safe, Chars
  <1>f. F = D \ {";"} /\ F \subseteq D
    OBVIOUS
  <1>r. Render(leg) = <<leg.name, ";">> \o (IF e = <<>> THEN <<>> ELSE quoted) \o last
    BY DEF Render, SanitizeDesc
  <1>b. Unquoted(Body(e)) = w
    BY <1>w, BodyReads
  <1> HIDE DEF D, F, w, e
  <1>s. <<>> \in Seq(F) /\ \A a, b, c \in F : <<a>> \in Seq(F) /\ <<a, b, c>> \in Seq(F)
    OBVIOUS
  <1>e. e \in Seq(F)
    BY <1>w, <1>d, SeqMonotonic
  <1>1. pad \in Seq(F) /\ first \in Seq(F) /\ last \in Seq(F) /\ Last(first) = leg.name /\ Last(last) = leg.dur
    <2>1. pad \in Seq(F)
      BY <1>s, <1>d DEF Pads
    <2>2. first \in Seq(F) /\ Len(first) = Len(pad) + 1 /\ first[Len(pad) + 1] = leg.name
      BY <1>t, <2>1
    <2>3. last \in Seq(F)
      BY <1>s, <1>t, <1>d
    <2>4. Last(first) = leg.name
      BY <2>2 DEF Last
    <2>5. Last(last) = leg.dur
      BY DEF Last
    <2> QED
      BY <2>1, <2>2, <2>3, <2>4, <2>5
  <1>2. \A u \in Seq(F) : u \in Seq(D)
    BY <1>f, SeqMonotonic
  <1>3. Body(e) \in Seq(F)
    <2>1. <<"desc", "=", "quote">> \in Seq(F) /\ <<"quote">> \in Seq(F)
      BY <1>s, <1>d
    <2>2. \A s, t, u \in Seq(F) : s \o t \o u \in Seq(F)
      OBVIOUS
    <2> QED
      BY <1>e, <2>1, <2>2 DEF Body
  <1>4. SplitAt(first, ";") = <<first>>
    BY <1>f, <1>1, SplitWhole
  <1>5. ";" \in D /\ leg.name \in D /\ e \in Seq(D) /\ pad \in Seq(D) /\ last \in Seq(D) /\ first \in Seq(D)
    BY <1>1, <1>2, <1>d, <1>e, <1>f, <1>t
  <1>6. Laid(pad, leg.name, ";", <<"desc", "=", "quote">>, e, "quote", last)
    <2>1. "quote" \in D /\ <<"desc", "=", "quote">> \in Seq(D)
      BY <1>s, <1>d, <1>2, <1>f
    <2>2. LayoutArgs(D, pad, leg.name, ";", <<"desc", "=", "quote">>, e, "quote", last)
      BY <1>5, <2>1 DEF LayoutArgs
    <2> QED
      BY <2>2, Layout
  <1>v. Last(first) = leg.name /\ Last(last) = leg.dur
    BY <1>1
  <1>j. \A s, t \in Seq(D) : Append(s, ";") \o t \in Seq(D)
    <2>1. ASSUME NEW s \in Seq(D), NEW t \in Seq(D), NEW c \in D PROVE Append(s, c) \o t \in Seq(D)
      OBVIOUS
    <2> QED
      BY <1>5, <2>1, Zenon
  <1>x. Render(leg) \in Seq(D)
    <2>1. \A a, b \in Seq(D) : a \o b \in Seq(D)
      OBVIOUS
    <2>2. \A a, b \in D : <<a, b>> \in Seq(D)
      OBVIOUS
    <2>3. \A a, b, c \in D : <<a, b, c>> \in Seq(D)
      OBVIOUS
    <2>4. <<leg.name, ";">> \in Seq(D) /\ <<>> \in Seq(D)
      BY <1>5, <2>2, EmptySeq, Zenon
    <2>5. <<"desc", "=", "quote">> \in Seq(D) /\ <<"quote", ";">> \in Seq(D)
      BY <1>d, <1>f, <2>2, <2>3, Zenon
    <2>6. quoted \in Seq(D)
      BY <1>5, <2>1, <2>5, Zenon
    <2>7. (IF e = <<>> THEN <<>> ELSE quoted) \in Seq(D)
      BY <2>4, <2>6, Zenon
    <2> DEFINE A == <<leg.name, ";">>
               I == IF e = <<>> THEN <<>> ELSE quoted
    <2>8. Render(leg) = A \o I \o last /\ A \in Seq(D) /\ I \in Seq(D)
      BY <1>r, <2>4, <2>7, Zenon
    <2> HIDE DEF A, I
    <2>9. A \o I \in Seq(D)
      BY <2>1, <2>8, Zenon
    <2>10. A \o I \o last \in Seq(D)
      BY <1>5, <2>1, <2>9, Zenon
    <2> QED
      BY <2>8, <2>10, Zenon
  <1>7. CASE e = <<>>
    <2>1. pad \o Render(leg) = Append(first, ";") \o last
      BY <1>6, <1>7, <1>r DEF Laid
    <2>2. SplitAt(Append(first, ";") \o last, ";") = Append(<<first>>, last)
      <3>1. Delimited(D, ";", first, last)
        BY <1>1, <1>5, <1>f DEF Delimited
      <3>2. BeginsPart(first, ";", last)
        BY <3>1, SplitOnce, Zenon
      <3> QED
        BY <1>4, <3>2, Zenon DEF BeginsPart
    <2>4. SplitAt(pad \o Render(leg), ";") = <<first, last>>
      BY <2>1, <2>2, Tuples, Zenon
    <2>5. ReadEntry(pad \o Render(leg)) = [name |-> leg.name, desc |-> <<>>, dur |-> leg.dur, params |-> 2]
      BY <1>v, <2>4, ReadTwo, Zenon
    <2> QED
      BY <1>w, <1>x, <1>7, <2>5 DEF D, w
  <1>8. CASE e # <<>>
    <2> DEFINE body == Body(e)
               whole == Append(first, ";") \o body
    <2>1. pad \o Render(leg) = Append(whole, ";") \o last
      BY <1>6, <1>8, <1>r DEF Laid, Body, body, whole
    <2>2. body \in Seq(F) /\ body \in Seq(D) /\ Unquoted(body) = w
      BY <1>2, <1>3, <1>b
    <2> HIDE DEF body, whole
    <2>3. whole \in Seq(D)
      BY <1>5, <1>j, <2>2, Zenon DEF whole
    <2>4. SplitAt(whole, ";") = Append(<<first>>, body)
      <3>1. Delimited(D, ";", first, body)
        BY <1>1, <1>5, <1>f, <2>2 DEF Delimited
      <3>2. BeginsPart(first, ";", body)
        BY <3>1, SplitOnce, Zenon
      <3> QED
        BY <1>4, <3>2, Zenon DEF BeginsPart, whole
    <2>5. SplitAt(Append(whole, ";") \o last, ";") = Append(SplitAt(whole, ";"), last)
      <3>1. Delimited(D, ";", whole, last)
        BY <1>1, <1>5, <1>f, <2>3 DEF Delimited
      <3>2. BeginsPart(whole, ";", last)
        BY <3>1, SplitOnce, Zenon
      <3> QED
        BY <3>2, Zenon DEF BeginsPart
    <2>6. SplitAt(pad \o Render(leg), ";") = <<first, body, last>>
      <3>1. Append(Append(<<first>>, body), last) = <<first, body, last>>
        BY Tuples, Zenon
      <3> QED
        BY <2>1, <2>4, <2>5, <3>1, Zenon
    <2>8. ReadEntry(pad \o Render(leg)) = [name |-> leg.name, desc |-> w, dur |-> leg.dur, params |-> 3]
      BY <1>v, <2>2, <2>6, ReadThree, Zenon
    <2> QED
      BY <1>w, <1>x, <1>8, <2>8 DEF D, w
  <1> QED
    BY <1>7, <1>8

-----------------------------------------------------------------------------
(* The header                                                              *)

\* The entries, each but the first led by lead.
Lead(i, lead) == IF i = 1 THEN <<>> ELSE lead
Led(legs, lead) == [i \in 1..Len(legs) |-> Lead(i, lead) \o Render(legs[i])]
Rendered(L, D) == \A leg \in L : Render(leg) \in Seq(D)

LedArgs(D, L, lead, legs, leg) ==
    Rendered(L, D) /\ lead \in Seq(D) /\ legs \in Seq(L) /\ leg \in L

LedGrows(D, lead, legs, leg) ==
    /\ Led(legs, lead) \in Seq(Seq(D))
    /\ Lead(Len(legs) + 1, lead) \o Render(leg) \in Seq(D)
    /\ Led(Append(legs, leg), lead)
         = Append(Led(legs, lead), Lead(Len(legs) + 1, lead) \o Render(leg))

LEMMA LedAppend ==
    ASSUME NEW D, NEW L, NEW lead, NEW legs, NEW leg, LedArgs(D, L, lead, legs, leg)
    PROVE  LedGrows(D, lead, legs, leg)
  <1>0. Rendered(L, D) /\ lead \in Seq(D) /\ legs \in Seq(L) /\ leg \in L
    BY DEF LedArgs
  <1> DEFINE m == Led(legs, lead)
             a == Append(legs, leg)
             e == Lead(Len(legs) + 1, lead) \o Render(leg)
             f == Led(a, lead)
  <1>1. \A s, t \in Seq(D) : s \o t \in Seq(D)
    OBVIOUS
  <1>2. \A i : Lead(i, lead) \in Seq(D)
    BY <1>0, EmptySeq DEF Lead
  <1>3. \A i, x : x \in L => Lead(i, lead) \o Render(x) \in Seq(D)
    BY <1>0, <1>1, <1>2, Zenon DEF Rendered
  <1>4. e \in Seq(D)
    BY <1>0, <1>3, Zenon
  <1>5. /\ Len(legs) \in Nat /\ a \in Seq(L) /\ Len(a) = Len(legs) + 1
        /\ \A i \in 1..Len(legs) : legs[i] \in L /\ a[i] = legs[i]
        /\ a[Len(legs) + 1] = leg
    BY <1>0
  <1>6. m \in Seq(Seq(D)) /\ Len(m) = Len(legs)
        /\ \A i \in 1..Len(legs) : m[i] = Lead(i, lead) \o Render(legs[i])
    <2> DEFINE g(i) == Lead(i, lead) \o Render(legs[i])
    <2>1. \A i \in 1..Len(legs) : g(i) \in Seq(D)
      BY <1>3, <1>5, Zenon
    <2>2. m = [i \in 1..Len(legs) |-> g(i)]
      BY DEF Led
    <2> HIDE DEF m, g
    <2>3. m \in Seq(Seq(D)) /\ Len(m) = Len(legs) /\ \A i \in 1..Len(legs) : m[i] = g(i)
      BY <1>5, <2>1, <2>2
    <2> QED
      BY <2>3 DEF g
  <1>7. f = [i \in 1..(Len(m) + 1) |-> IF i = Len(m) + 1 THEN e ELSE m[i]]
    <2> DEFINE h(i) == Lead(i, lead) \o Render(a[i])
    <2>1. f = [i \in 1..Len(a) |-> h(i)]
      BY DEF Led
    <2>2. h(Len(legs) + 1) = e
      BY <1>5
    <2>3. \A i \in 1..Len(legs) : h(i) = m[i]
      BY <1>5, <1>6
    <2> HIDE DEF a, h, e, m, f
    <2> QED
      BY <1>5, <1>6, <2>1, <2>2, <2>3
  <1> HIDE DEF f, m, e
  <1>8. f = Append(m, e)
    <2>1. OneLonger(Seq(D), m, e, f)
      BY <1>4, <1>6, <1>7 DEF OneLonger
    <2> QED
      BY <2>1, OneMore
  <1> QED
    BY <1>4, <1>6, <1>8, Zenon DEF LedGrows, f, m, e, a

\* The comma ends what comes before, the blank begins the next entry.
Apart(D, s, c, x, r) == s \in Seq(D) /\ c \in D /\ x \in D /\ r \in Seq(D)
SameText(s, c, x, r) == s \o (<<c, x>> \o r) = Append(s, c) \o (<<x>> \o r)

LEMMA CommaFirst ==
    ASSUME NEW D, NEW s, NEW c, NEW x, NEW r, Apart(D, s, c, x, r) PROVE SameText(s, c, x, r)
  <1>0. s \in Seq(D) /\ c \in D /\ x \in D /\ r \in Seq(D)
    BY DEF Apart
  <1> DEFINE u == <<c, x>> \o r
             v == <<x>> \o r
             a == Append(s, c)
             p == s \o u
             q == a \o v
  <1>1. /\ u \in Seq(D) /\ Len(u) = Len(r) + 2 /\ u[1] = c /\ u[2] = x
        /\ \A i \in 3..(Len(r) + 2) : u[i] = r[i - 2]
    BY <1>0
  <1>2. /\ v \in Seq(D) /\ Len(v) = Len(r) + 1 /\ v[1] = x
        /\ \A i \in 2..(Len(r) + 1) : v[i] = r[i - 1]
    BY <1>0
  <1>3. Len(r) \in Nat /\ Len(s) \in Nat
    BY <1>0
  <1>4. u[1] = c /\ \A i \in 2..Len(u) : u[i] = v[i - 1]
    BY <1>1, <1>2, <1>3
  <1>a. a \in Seq(D) /\ Len(a) = Len(s) + 1 /\ a[Len(s) + 1] = c /\ \A i \in 1..Len(s) : a[i] = s[i]
    BY <1>0
  <1> HIDE DEF u, v, a
  <1>c. a \in Seq(D)
    BY <1>a
  <1>b. u \in Seq(D) /\ v \in Seq(D) /\ Len(u) = Len(v) + 1 /\ Len(v) \in Nat
    BY <1>1, <1>2, <1>3
  <1>s. s \in Seq(D)
    BY <1>0
  <1>5. /\ p \in Seq(D) /\ Len(p) = Len(s) + Len(u)
        /\ \A i \in 1..Len(p) : p[i] = IF i <= Len(s) THEN s[i] ELSE u[i - Len(s)]
    BY <1>b, <1>s
  <1>q. /\ q \in Seq(D) /\ Len(q) = Len(a) + Len(v)
        /\ \A i \in 1..Len(q) : q[i] = IF i <= Len(a) THEN a[i] ELSE v[i - Len(a)]
    BY <1>b, <1>c
  <1> HIDE DEF p, q
  <1>6. Len(p) = Len(q) /\ \A i \in 1..Len(p) : p[i] = q[i]
    <2>1. Len(p) = Len(q) /\ Len(p) = Len(s) + 1 + Len(v)
      BY <1>3, <1>5, <1>a, <1>b, <1>q
    <2>2. ASSUME NEW i \in 1..Len(p) PROVE p[i] = q[i]
      <3>0. /\ p[i] = IF i <= Len(s) THEN s[i] ELSE u[i - Len(s)]
            /\ q[i] = IF i <= Len(a) THEN a[i] ELSE v[i - Len(a)]
        BY <1>5, <1>q, <2>1, <2>2
      <3>1. CASE i <= Len(s)
        <4>1. i \in 1..Len(s) /\ i <= Len(a)
          BY <1>3, <1>a, <2>1, <3>1
        <4> QED
          BY <1>a, <3>0, <3>1, <4>1
      <3>2. CASE i = Len(s) + 1
        <4>1. ~ (i <= Len(s)) /\ i <= Len(a) /\ i - Len(s) = 1
          BY <1>3, <1>a, <3>2
        <4> QED
          BY <1>4, <1>a, <3>0, <3>2, <4>1
      <3>3. CASE i > Len(s) + 1
        <4>1. ~ (i <= Len(s)) /\ ~ (i <= Len(a)) /\ i - Len(s) \in 2..Len(u)
              /\ (i - Len(s)) - 1 = i - Len(a)
          BY <1>3, <1>a, <1>b, <2>1, <3>3
        <4> QED
          BY <1>4, <3>0, <4>1
      <3> QED
        BY <1>3, <2>1, <3>1, <3>2, <3>3
    <2> QED
      BY <2>1, <2>2
  <1> HIDE DEF p, q
  <1>7. p = q
    BY <1>5, <1>6, <1>q, SeqEqual
  <1> QED
    BY <1>7 DEF p, q, u, v, a, SameText

\* Entries set apart by a comma and a blank are found by a split at the comma.
SetApart(G, comma, blank, L, legs) ==
    comma \in G /\ blank \in G \ {comma} /\ Rendered(L, G \ {comma}) /\ legs \in Seq(L)

Found(G, comma, blank, legs) ==
    /\ FlattenSeq(Led(legs, <<comma, blank>>)) \in Seq(G)
    /\ legs # <<>> => SplitAt(FlattenSeq(Led(legs, <<comma, blank>>)), comma) = Led(legs, <<blank>>)

LEMMA Separated ==
    ASSUME NEW G, NEW comma, NEW blank, NEW L, NEW legs, SetApart(G, comma, blank, L, legs)
    PROVE  Found(G, comma, blank, legs)
  <1> DEFINE D == G \ {comma}
             long == <<comma, blank>>
             short == <<blank>>
             All(s) == FlattenSeq(Led(s, long))
             T == {s \in Seq(L) : /\ All(s) \in Seq(G)
                                  /\ s # <<>> => SplitAt(All(s), comma) = Led(s, short)}
  <1>0. D = G \ {comma} /\ blank \in D /\ blank \in G /\ comma \in G
    BY DEF SetApart
  <1>l. short \in Seq(D) /\ long \in Seq(G) /\ Rendered(L, D)
    BY <1>0 DEF SetApart
  <1> HIDE DEF D, long, short
  <1>g. \A s \in Seq(D) : s \in Seq(G)
    BY <1>0, SeqMonotonic
  <1>r. Rendered(L, G)
    BY <1>g, <1>l DEF Rendered
  <1>1. <<>> \in T
    <2>1. Led(<<>>, long) = <<>>
      BY DEF Led
    <2>2. All(<<>>) = <<>>
      BY <2>1, FlattenNothing
    <2> QED
      BY <2>2, EmptySeq
  <1>2. ASSUME NEW s \in Seq(L), NEW leg \in L, s \in T PROVE Append(s, leg) \in T
    <2> DEFINE a == Append(s, leg)
               r == Render(leg)
               N == Len(s) + 1
               piece == Lead(N, long) \o r
               entry == Lead(N, short) \o r
    <2>0. a \in Seq(L) /\ r \in Seq(D) /\ r \in Seq(G)
      BY <1>g, <1>l DEF Rendered
    <2>1. /\ Led(s, long) \in Seq(Seq(G)) /\ piece \in Seq(G)
          /\ Led(a, long) = Append(Led(s, long), piece)
      <3>1. LedArgs(G, L, long, s, leg)
        BY <1>2, <1>l, <1>r DEF LedArgs
      <3>2. LedGrows(G, long, s, leg)
        BY <3>1, LedAppend, Zenon
      <3> QED
        BY <3>2 DEF LedGrows
    <2>2. /\ Led(s, short) \in Seq(Seq(D)) /\ entry \in Seq(D)
          /\ Led(a, short) = Append(Led(s, short), entry)
      <3>1. LedArgs(D, L, short, s, leg)
        BY <1>2, <1>l DEF LedArgs
      <3>2. LedGrows(D, short, s, leg)
        BY <3>1, LedAppend, Zenon
      <3> QED
        BY <3>2 DEF LedGrows
    <2>3. All(a) = All(s) \o piece /\ All(s) \in Seq(G)
      BY <2>1, FlattenAppend
    <2>4. All(a) \in Seq(G)
      <3>1. \A x, y \in Seq(G) : x \o y \in Seq(G)
        OBVIOUS
      <3> QED
        BY <2>1, <2>3, <3>1, Zenon
    <2>5. SplitAt(All(a), comma) = Led(a, short)
      <3>1. CASE s = <<>>
        <4>1. N = 1 /\ piece = <<>> \o r /\ entry = <<>> \o r
          BY <3>1, EmptySeq DEF Lead
        <4>2. <<>> \o r = r
          BY <2>0
        <4>3. Led(s, long) = <<>> /\ Led(s, short) = <<>>
          BY <3>1 DEF Led
        <4>4. All(s) = <<>> /\ Append(Led(s, short), entry) = <<r>>
          BY <4>1, <4>2, <4>3, FlattenNothing
        <4>5. All(a) = r
          BY <2>3, <4>1, <4>2, <4>4
        <4>6. SplitAt(r, comma) = <<r>>
          BY <1>0, <2>0, SplitWhole
        <4> QED
          BY <2>2, <4>4, <4>5, <4>6, Zenon
      <3>2. CASE s # <<>>
        <4>1. N # 1 /\ piece = long \o r /\ entry = short \o r
          <5>1. N # 1
            BY <3>2, EmptySeq
          <5> QED
            BY <5>1 DEF Lead
        <4>2. All(s) \o (long \o r) = Append(All(s), comma) \o (short \o r)
          <5>1. Apart(G, All(s), comma, blank, r)
            BY <1>0, <2>0, <2>3 DEF Apart
          <5>2. SameText(All(s), comma, blank, r)
            BY <5>1, CommaFirst, Zenon
          <5> QED
            BY <5>2, Zenon DEF SameText, long, short
        <4>3. SplitAt(Append(All(s), comma) \o entry, comma) = Append(SplitAt(All(s), comma), entry)
          <5>1. Delimited(G, comma, All(s), entry)
            BY <1>0, <2>2, <2>3 DEF Delimited
          <5>2. BeginsPart(All(s), comma, entry)
            BY <5>1, SplitOnce, Zenon
          <5> QED
            BY <5>2, Zenon DEF BeginsPart
        <4>4. SplitAt(All(s), comma) = Led(s, short)
          BY <1>2, <3>2
        <4> QED
          BY <2>2, <2>3, <4>1, <4>2, <4>3, <4>4, Zenon
      <3> QED
        BY <3>1, <3>2
    <2> QED
      BY <2>0, <2>4, <2>5
  <1> HIDE DEF T
  <1>3. legs \in T
    <2>1. legs \in Seq(L)
      BY DEF SetApart
    <2> QED
      BY <1>1, <1>2, <2>1, SeqInduction
  <1> QED
    BY <1>3, Zenon DEF T, long, short, Found

\* Any legs whose names and durations are no characters of a text.
LEMMA LegsReadBack ==
    ASSUME NEW Tokens, Tokens \cap Chars = {}, NEW legs \in Seq(Legged(Tokens)), legs # <<>>
    PROVE  ReadsBack(legs)
  <1> DEFINE L == Legged(Tokens)
             B == Bits(Tokens)
             G == B \cup {","}
             lead(i) == Lead(i, <<"x">>)
             header == Header(legs)
             parts == Led(legs, <<"x">>)
  <1>1. B = G \ {","} /\ "," \in G /\ "x" \in B /\ "foreign" \notin G
    BY DEF Bits, Safe, Chars
  <1>2. \A leg \in L, pad \in Pads :
           /\ Render(leg) \in Seq(B)
           /\ ReadEntry(pad \o Render(leg))
                 = [name |-> leg.name, desc |-> Whitelisted(leg.desc), dur |-> leg.dur,
                    params |-> IF Whitelisted(leg.desc) = <<>> THEN 2 ELSE 3]
    BY EntryReads
  <1>3. Rendered(L, B)
    BY <1>2 DEF Rendered, Pads
  <1>4. header = FlattenSeq(Led(legs, <<",", "x">>))
    BY DEF Header, Led, Lead
  <1>5. header \in Seq(G) /\ SplitAt(header, ",") = parts
    <2>1. Rendered(L, G \ {","}) /\ "x" \in G \ {","}
      BY <1>1, <1>3, Zenon
    <2>2. legs \in Seq(L)
      OBVIOUS
    <2> HIDE DEF L, B, G, parts, header
    <2>3. SetApart(G, ",", "x", L, legs)
      BY <1>1, <2>1, <2>2, Zenon DEF SetApart
    <2>4. Found(G, ",", "x", legs)
      BY <2>3, Separated, Zenon
    <2> QED
      BY <1>4, <2>4, Zenon DEF parts, Found
  <1>6. ReadHeader(header) = Expected(legs)
    <2>1. Len(parts) = Len(legs) /\ \A i \in 1..Len(legs) : parts[i] = lead(i) \o Render(legs[i])
      BY DEF Led
    <2>2. \A i \in 1..Len(legs) : legs[i] \in L /\ lead(i) \in Pads
      BY DEF Lead, Pads
    <2>3. ReadHeader(header) = [i \in 1..Len(parts) |-> ReadEntry(parts[i])]
      BY <1>5, Zenon DEF ReadHeader
    <2>4. \A i \in 1..Len(legs) : ReadEntry(parts[i]) = Expected(legs)[i]
      <3> SUFFICES ASSUME NEW i \in 1..Len(legs) PROVE ReadEntry(parts[i]) = Expected(legs)[i]
        BY Zenon
      <3>1. parts[i] = lead(i) \o Render(legs[i]) /\ legs[i] \in L /\ lead(i) \in Pads
        BY <2>1, <2>2, Zenon
      <3>2. Expected(legs)[i]
              = [name |-> legs[i].name, desc |-> Whitelisted(legs[i].desc), dur |-> legs[i].dur,
                 params |-> IF Whitelisted(legs[i].desc) = <<>> THEN 2 ELSE 3]
        BY Zenon DEF Expected
      <3> QED
        BY <1>2, <3>1, <3>2, Zenon
    <2>5. Expected(legs) = [i \in 1..Len(legs) |-> Expected(legs)[i]]
      BY Zenon DEF Expected
    <2> QED
      BY <2>1, <2>3, <2>4, <2>5, Zenon
  <1>7. ~ Contains(header, "foreign")
    <2>1. header \in Seq(G) /\ "foreign" \notin G
      BY <1>1, <1>5
    <2> HIDE DEF header, G
    <2>2. \A i \in 1..Len(header) : header[i] \in G
      BY <2>1
    <2> QED
      BY <2>1, <2>2, Zenon DEF Contains
  <1> QED
    BY <1>6, <1>7 DEF ReadsBack

-----------------------------------------------------------------------------
(* The header of a request                                                 *)

Durations == {ToString(n) : n \in (-MaxClock)..MaxClock}
Tokens == Steps \cup {"total"} \cup Durations

\* What is timed fits in the clock.
ClockInv == clock \in 0..MaxClock /\ \A s \in Steps : steps[s].duration \in (-MaxClock)..MaxClock

LEMMA ClockInvInit == RequestInit => ClockInv
  BY TelemetryAssumption DEF RequestInit, Init, ClockInv, NotRun

LEMMA ClockKept == ASSUME ClockInv, UNCHANGED <<clock, steps>> PROVE ClockInv'
  BY DEF ClockInv

LEMMA ClockInvNext == RequestInv /\ ClockInv /\ [RequestNext]_allVars => ClockInv'
  <1> SUFFICES ASSUME RequestInv, ClockInv, [RequestNext]_allVars PROVE ClockInv'
    OBVIOUS
  <1>t. TypeOK /\ MaxClock \in Nat
    BY TelemetryAssumption DEF RequestInv, StepsInv
  <1>1. ASSUME NEW t \in Tasks, StepBegins(t) \/ StepEnds(t) \/ (\E s \in Steps : StepBegun(t, s))
        PROVE  ClockInv'
    BY <1>1, ClockKept DEF StepBegins, StepBegun, StepEnds, EnterLook, ExitLook, Look, Enter
  <1>2. ASSUME NEW t \in Tasks, NEW how \in Hows, StepEnded(t, how) PROVE ClockInv'
    <2> DEFINE name == Last(open[t]).name
    <2>1. /\ steps' = [steps EXCEPT ![name] = [duration |-> Duration(t), success |-> Success(how), ran |-> TRUE]]
          /\ clock' = clock /\ look[t].of = "exit"
      BY <1>2 DEF StepEnded, Exit
    <2>2. look[t].at \in 0..clock
      BY <1>t, <2>1 DEF TypeOK, NoLook
    <2>3. Duration(t) \in (-MaxClock)..MaxClock
      BY <1>t, <2>2 DEF Duration, TypeOK, ClockInv
    <2> HIDE DEF name
    <2>4. \A s \in Steps : steps'[s].duration \in (-MaxClock)..MaxClock
      BY <1>t, <2>1, <2>3 DEF TypeOK, ClockInv
    <2> QED
      BY <2>1, <2>4 DEF ClockInv
  <1>3. CASE Recording
    BY <1>3, ClockKept DEF Recording, vars
  <1>4. CASE Tick
    BY <1>4, <1>t DEF Tick, ClockInv
  <1>5. ASSUME NEW t \in Tasks, NEW service, RecordApiCall(t, service) PROVE ClockInv'
    BY <1>5, ClockKept DEF RecordApiCall, vars
  <1>6. CASE Answer \/ UNCHANGED allVars
    BY <1>6, ClockKept DEF Answer, allVars, vars
  <1> QED
    BY <1>1, <1>2, <1>3, <1>4, <1>5, <1>6 DEF RequestNext

HeaderInv == RequestInv /\ ClockInv

LEMMA AlwaysHeaderInv == RequestSpec => []HeaderInv
  <1>1. RequestInit => HeaderInv
    BY RequestInvInit, ClockInvInit DEF HeaderInv
  <1>2. HeaderInv /\ [RequestNext]_allVars => HeaderInv'
    BY RequestInvNext, ClockInvNext DEF HeaderInv
  <1> QED
    BY <1>1, <1>2, PTL DEF RequestSpec

\* Whatever the legs are described with, and however long the descriptions are.
EveryHeaderReadsBack ==
    \A describe \in [Steps \cup {"total"} -> Seq(Chars)] : ReadsBack(Legs(describe))

LEMMA InvReadsBack == HeaderInv => EveryHeaderReadsBack
  <1> SUFFICES ASSUME HeaderInv, NEW describe \in [Steps \cup {"total"} -> Seq(Chars)]
               PROVE  ReadsBack(Legs(describe))
    BY DEF EveryHeaderReadsBack
  <1> DEFINE L == Legged(Tokens)
             leg(name) == [name |-> name, desc |-> describe[name], dur |-> ToString(steps[name].duration)]
             ran == [i \in 1..Len(order) |-> leg(order[i])]
             total == [name |-> "total", desc |-> describe["total"], dur |-> ToString(clock)]
  <1>1. Tokens \cap Chars = {}
    BY TokenAssumption DEF Tokens, Durations, Chars
  <1>2. order \in Seq(Steps)
    BY DEF HeaderInv, RequestInv, OrderInv
  <1>3. \A s \in Steps : leg(s) \in L
    BY DEF HeaderInv, ClockInv, Legged, Tokens, Durations
  <1>4. total \in L
    <2>1. clock \in (-MaxClock)..MaxClock
      BY TelemetryAssumption DEF HeaderInv, ClockInv
    <2> QED
      BY <2>1 DEF HeaderInv, ClockInv, Legged, Tokens, Durations
  <1> HIDE DEF L, leg, total
  <1>5. ran \in Seq(L)
    BY <1>2, <1>3
  <1>6. Legs(describe) = ran \o <<total>>
    BY DEF Legs, leg, total
  <1> HIDE DEF ran
  <1>7. ran \o <<total>> \in Seq(L) /\ ran \o <<total>> # <<>>
    BY <1>4, <1>5
  <1> QED
    BY <1>1, <1>6, <1>7, LegsReadBack DEF L

\* Whatever a request did and whatever its steps and the total are described
\* with, what request-o-matic and a reader of quoted strings make of its header
\* is its legs (telemetry.py, as_server_timing and _sanitize_desc).
THEOREM HeaderIsReadBack == RequestSpec => []EveryHeaderReadsBack
  BY AlwaysHeaderInv, InvReadsBack, PTL

\* In particular with the descriptions TLC tries.
THEOREM DescriptionsReadBack == RequestSpec => []HeaderReadsBack
  <1>1. EveryHeaderReadsBack => HeaderReadsBack
    <2> SUFFICES ASSUME EveryHeaderReadsBack, NEW text \in Texts,
                        NEW described \in SUBSET (ToSet(order) \cup {"total"})
                 PROVE  ReadsBack(Legs([n \in Steps \cup {"total"} |-> IF n \in described THEN text ELSE <<>>]))
      BY DEF HeaderReadsBack
    <2>1. text \in Seq(Chars)
      BY TokenAssumption DEF Texts
    <2> DEFINE describe == [n \in Steps \cup {"total"} |-> IF n \in described THEN text ELSE <<>>]
    <2>2. describe \in [Steps \cup {"total"} -> Seq(Chars)]
      BY <2>1, EmptySeq
    <2> QED
      BY <2>2 DEF EveryHeaderReadsBack
  <1> QED
    BY <1>1, HeaderIsReadBack, PTL

=============================================================================
