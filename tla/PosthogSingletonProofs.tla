----------------------- MODULE PosthogSingletonProofs -----------------------
(***************************************************************************)
(* Until two shutdowns overlap, a process never has two open clients and   *)
(* never orphans one, for every set of getters, flushers and closers: the  *)
(* getter's lock and the closer's order of steps are enough.               *)
(***************************************************************************)
EXTENDS PosthogSingleton, TLAPS

Life == TypeOK /\ OneLife

\* The inductive invariant: nothing is claimed once two shutdowns overlapped.
IInv == overlapped \/ Life

Places == {"idle", "getCheck", "getStore", "getReturn", "flushCall",
           "shutdownCall", "shuttingDown", "shutdownClear"}

\* A thread that moves between two places moves no other thread.
LEMMA Moves ==
    ASSUME TypeOK, NEW t \in Threads, NEW there \in Places, Goto(t, there)
    PROVE  /\ pc' \in [Threads -> Places]
           /\ pc'[t] = there
           /\ \A u \in Threads : u # t => pc'[u] = pc[u]
  BY DEF TypeOK, Goto, Places

LEMMA Initially == Init => Life
  <1> SUFFICES ASSUME Init PROVE Life
    OBVIOUS
  <1>1. built = 0 /\ client = 0 /\ open = {} /\ built \in 0..MaxClients
    BY ClientsAssumption DEF Init, None, ClientsAssumption
  <1>2. pc \in [Threads -> {"idle"}] /\ target \in [Threads -> {0}]
    BY DEF Init, None
  <1>3. Inside = {} /\ Stopping = {}
    BY <1>2 DEF Inside, Stopping
  <1>4. TypeOK
    <2>1. lockFree = TRUE /\ overlapped = FALSE /\ warned = {} /\ failed = {} /\ target \in [Threads -> 0..built]
      BY <1>1, <1>2 DEF Init
    <2>2. /\ lockFree \in BOOLEAN /\ overlapped \in BOOLEAN
          /\ warned \in SUBSET Prefixes /\ failed \in SUBSET {"get", "flush", "shutdown"}
      BY <2>1
    <2>3. (lockFree <=> Inside = {}) /\ \A t, u \in Inside : t = u
      BY <2>1, <1>3
    <2>4. pc \in [Threads -> {"idle", "getCheck", "getStore", "getReturn", "flushCall",
                             "shutdownCall", "shuttingDown", "shutdownClear"}]
      BY <1>2
    <2> QED
      BY <1>1, <2>1, <2>2, <2>3, <2>4 DEF TypeOK
  <1>5. OneLife
    BY <1>1, <1>2, <1>3 DEF OneLife, None
  <1> QED
    BY <1>4, <1>5 DEF Life

-----------------------------------------------------------------------------
(* The getter                                                              *)

LEMMA GetUnconfiguredKeeps ==
    ASSUME Life, NEW t \in Threads, NEW p \in Prefixes, GetUnconfigured(t, p)
    PROVE  Life'
  <1>1. UNCHANGED <<client, built, open, pc, target, lockFree, failed, overlapped>>
        /\ warned' \in SUBSET Prefixes
    BY DEF GetUnconfigured, Life, TypeOK
  <1> QED
    BY <1>1 DEF Life, TypeOK, OneLife, Inside, Stopping

LEMMA GetEnterKeeps == ASSUME Life, NEW t \in Threads, GetEnter(t) PROVE Life'
  <1>1. /\ pc[t] = "idle" /\ Goto(t, "getCheck") /\ lockFree /\ lockFree' = FALSE
        /\ UNCHANGED <<client, built, open, target, warned, failed, overlapped>>
    BY DEF GetEnter, At
  <1>2. /\ pc' \in [Threads -> Places] /\ pc'[t] = "getCheck"
        /\ \A u \in Threads : u # t => pc'[u] = pc[u]
    BY <1>1, Moves DEF Life, Places
  <1>3. Inside = {} /\ Inside' = {t}
    BY <1>1, <1>2 DEF Life, TypeOK, Inside
  <1>4. TypeOK'
    BY <1>1, <1>2, <1>3 DEF Life, TypeOK, Places
  <1>5. OneLife'
    BY <1>1, <1>2 DEF Life, OneLife, Stopping
  <1> QED
    BY <1>4, <1>5 DEF Life

\* A step inside the lock that changes the thread's place and nothing else that
\* TypeOK is about keeps the lock with the same getter.
LEMMA StaysInside ==
    ASSUME Life, NEW t \in Threads, NEW there \in {"getCheck", "getStore", "getReturn"},
           t \in Inside, Goto(t, there), lockFree' = lockFree
    PROVE  /\ Inside' = {t} /\ Inside = {t}
           /\ lockFree' \in BOOLEAN /\ (lockFree' <=> Inside' = {})
           /\ \A u, v \in Inside' : u = v
           /\ pc' \in [Threads -> Places]
           /\ Stopping' = Stopping
  <1>1. /\ pc' \in [Threads -> Places] /\ pc'[t] = there
        /\ \A u \in Threads : u # t => pc'[u] = pc[u]
    BY Moves DEF Life, Places
  <1>2. Inside = {t} /\ Inside' = {t}
    BY <1>1 DEF Life, TypeOK, Inside
  <1>3. Stopping' = Stopping
    BY <1>1, <1>2 DEF Stopping, Inside
  <1> QED
    BY <1>1, <1>2, <1>3 DEF Life, TypeOK

LEMMA GetFoundKeeps == ASSUME Life, NEW t \in Threads, GetFound(t) PROVE Life'
  <1>1. /\ pc[t] = "getCheck" /\ Goto(t, "getReturn") /\ client # None
        /\ UNCHANGED <<client, built, open, target, lockFree, warned, failed, overlapped>>
    BY DEF GetFound, At
  <1>2. t \in Inside
    BY <1>1 DEF Inside
  <1>3. /\ pc'[t] = "getReturn" /\ \A u \in Threads : u # t => pc'[u] = pc[u]
    BY <1>1, Moves DEF Life, Places
  <1>4. TypeOK'
    BY <1>1, <1>2, StaysInside DEF Life, TypeOK, Places
  <1>5. OneLife'
    <2>1. Stopping' = Stopping
      BY <1>1, <1>2, StaysInside
    <2> QED
      BY <1>1, <1>3, <2>1 DEF Life, OneLife
  <1> QED
    BY <1>4, <1>5 DEF Life

LEMMA GetConstructKeeps == ASSUME Life, NEW t \in Threads, GetConstruct(t) PROVE Life'
  <1>1. /\ pc[t] = "getCheck" /\ Goto(t, "getStore") /\ client = None
        /\ built < MaxClients /\ built' = built + 1 /\ open' = open \cup {built + 1}
        /\ target' = [target EXCEPT ![t] = built + 1]
        /\ UNCHANGED <<client, lockFree, warned, failed, overlapped>>
    BY DEF GetConstruct, At
  <1>2. t \in Inside
    BY <1>1 DEF Inside
  <1>3. /\ pc'[t] = "getStore" /\ \A u \in Threads : u # t => pc'[u] = pc[u]
    BY <1>1, Moves DEF Life, Places
  <1>4. Inside = {t} /\ Stopping' = Stopping
    BY <1>1, <1>2, StaysInside
  <1>5. /\ built' \in 0..MaxClients /\ client' \in 0..built' /\ open' \in SUBSET (1..built')
        /\ target' \in [Threads -> 0..built'] /\ target'[t] = built + 1
    BY <1>1, ClientsAssumption DEF Life, TypeOK, ClientsAssumption
  <1>6. TypeOK'
    BY <1>1, <1>2, <1>5, StaysInside DEF Life, TypeOK, Places
  <1>7. Stopping = {}
    BY <1>1 DEF Life, OneLife
  <1>8. \A u \in Threads : pc'[u] = "getStore" <=> u = t
    BY <1>3, <1>4 DEF Inside
  <1>9. open = {}
    <2>1. {target[u] : u \in {v \in Threads : pc[v] = "getStore"}} = {}
      BY <1>1, <1>4 DEF Inside
    <2>2. ~ \E u \in Threads : pc[u] = "shutdownClear"
      BY <1>7 DEF Stopping
    <2> QED
      BY <1>1, <2>1, <2>2 DEF Life, OneLife
  <1>10. \A u \in Threads : pc'[u] \notin {"shuttingDown", "shutdownClear"}
    BY <1>4, <1>7 DEF Stopping
  <1>11. open' = {target'[u] : u \in {v \in Threads : pc'[v] = "getStore"}}
    BY <1>1, <1>5, <1>8, <1>9
  <1>12. OneLife'
    BY <1>1, <1>4, <1>5, <1>7, <1>8, <1>10, <1>11 DEF OneLife
  <1> QED
    BY <1>6, <1>12 DEF Life

LEMMA GetStoreKeeps == ASSUME Life, NEW t \in Threads, GetStore(t) PROVE Life'
  <1>1. /\ pc[t] = "getStore" /\ Goto(t, "getReturn") /\ client' = target[t]
        /\ target' = [target EXCEPT ![t] = None]
        /\ UNCHANGED <<built, open, lockFree, warned, failed, overlapped>>
    BY DEF GetStore, At
  <1>2. t \in Inside
    BY <1>1 DEF Inside
  <1>3. /\ pc'[t] = "getReturn" /\ \A u \in Threads : u # t => pc'[u] = pc[u]
    BY <1>1, Moves DEF Life, Places
  <1>4. Inside = {t} /\ Stopping' = Stopping
    BY <1>1, <1>2, StaysInside
  <1>5. client' \in 0..built' /\ target' \in [Threads -> 0..built']
    BY <1>1 DEF Life, TypeOK, None
  <1>6. TypeOK'
    BY <1>1, <1>2, <1>5, StaysInside DEF Life, TypeOK, Places
  <1>7. client = None /\ Stopping = {}
    BY <1>1 DEF Life, OneLife
  <1>8. open = {target[t]} /\ target[t] # None
    <2>1. {v \in Threads : pc[v] = "getStore"} = {t}
      BY <1>1, <1>4 DEF Inside
    <2>2. ~ \E u \in Threads : pc[u] = "shutdownClear"
      BY <1>7 DEF Stopping
    <2>3. open = {target[t]}
      BY <1>7, <2>1, <2>2 DEF Life, OneLife
    <2> QED
      BY <2>3 DEF Life, TypeOK, None
  <1>9. \A u \in Threads : pc'[u] \notin {"shuttingDown", "shutdownClear", "getStore"}
    BY <1>3, <1>4, <1>7 DEF Stopping, Inside
  <1>10. OneLife'
    BY <1>1, <1>4, <1>7, <1>8, <1>9 DEF OneLife
  <1> QED
    BY <1>6, <1>10 DEF Life

\* A getter that leaves the lock, by returning or by raising.
LEMMA LeavesLock ==
    ASSUME Life, NEW t \in Inside, pc[t] # "getStore", Goto(t, "idle"), lockFree' = TRUE,
           failed' \in SUBSET {"get", "flush", "shutdown"},
           UNCHANGED <<client, built, open, target, warned, overlapped>>
    PROVE  Life'
  <1>1. t \in Threads /\ pc[t] \in {"getCheck", "getReturn"} /\ Inside = {t}
    BY DEF Inside, Life, TypeOK
  <1>2. /\ pc' \in [Threads -> Places] /\ pc'[t] = "idle"
        /\ \A u \in Threads : u # t => pc'[u] = pc[u]
    BY <1>1, Moves DEF Life, Places
  <1>3. Inside' = {}
    BY <1>1, <1>2 DEF Inside
  <1>4. TypeOK'
    BY <1>2, <1>3 DEF Life, TypeOK, Places
  <1>5. Stopping' = Stopping
    BY <1>1, <1>2 DEF Stopping
  <1>6. \A u \in Threads : \A here \in {"getStore", "shuttingDown", "shutdownClear"} :
           pc'[u] = here <=> pc[u] = here
    BY <1>1, <1>2
  <1>7. OneLife'
    BY <1>5, <1>6 DEF Life, OneLife
  <1> QED
    BY <1>4, <1>7 DEF Life

LEMMA GetLeavesKeeps ==
    ASSUME Life, NEW t \in Threads, GetReturn(t) \/ GetRaises(t)
    PROVE  Life'
  <1>1. failed' \in SUBSET {"get", "flush", "shutdown"}
    BY DEF GetReturn, GetRaises, Life, TypeOK
  <1>2. pc[t] \in {"getCheck", "getReturn"} /\ t \in Inside
    BY DEF GetReturn, GetRaises, At, Inside
  <1> QED
    BY <1>1, <1>2, LeavesLock DEF GetReturn, GetRaises

-----------------------------------------------------------------------------
(* Flush and shutdown                                                      *)

LEMMA FlushKeeps == ASSUME Life, NEW t \in Flushers, Flush(t) PROVE Life'
  <1>1. t \in Threads /\ pc[t] \in {"idle", "flushCall"}
    BY DEF Threads, Flush, FlushCheck, FlushCall, At
  <1>2. PICK there \in {"idle", "flushCall"} : Goto(t, there)
    BY DEF Flush, FlushCheck, FlushCall
  <1>3. failed' \in SUBSET {"get", "flush", "shutdown"}
        /\ UNCHANGED <<client, built, open, target, lockFree, warned, overlapped>>
    BY DEF Flush, FlushCheck, FlushCall, Life, TypeOK
  <1>4. /\ pc' \in [Threads -> Places] /\ pc'[t] = there
        /\ \A u \in Threads : u # t => pc'[u] = pc[u]
    BY <1>1, <1>2, Moves DEF Life, Places
  <1>5. Inside' = Inside /\ Stopping' = Stopping
    BY <1>1, <1>4 DEF Inside, Stopping
  <1>6. TypeOK'
    BY <1>3, <1>4, <1>5 DEF Life, TypeOK, Places
  <1>7. \A u \in Threads : \A here \in {"getStore", "shuttingDown", "shutdownClear"} :
           pc'[u] = here <=> pc[u] = here
    BY <1>1, <1>4
  <1>8. OneLife'
    BY <1>3, <1>5, <1>7 DEF Life, OneLife
  <1> QED
    BY <1>6, <1>8 DEF Life

LEMMA ShutdownKeeps ==
    ASSUME Life, ~ overlapped', NEW t \in Closers, ShutdownCheck(t) \/ ShutdownProceeds(t)
    PROVE  Life'
  <1> DEFINE Stops == {"shutdownCall", "shuttingDown", "shutdownClear"}
  <1>1. t \in Threads /\ pc[t] \in {"idle"} \cup Stops
    BY DEF Threads, ShutdownCheck, ShutdownProceeds, ShutdownCall, ShutdownRaises, ShutdownDone,
           ShutdownClear, At
  <1>2. PICK there \in {"idle"} \cup Stops : Goto(t, there)
    BY DEF ShutdownCheck, ShutdownProceeds, ShutdownCall, ShutdownRaises, ShutdownDone,
           ShutdownClear
  <1>3. /\ pc' \in [Threads -> Places] /\ pc'[t] = there
        /\ \A u \in Threads : u # t => pc'[u] = pc[u]
    BY <1>1, <1>2, Moves DEF Life, Places
  <1>4. UNCHANGED <<built, lockFree, warned>>
        /\ failed' \in SUBSET {"get", "flush", "shutdown"}
    BY DEF ShutdownCheck, ShutdownProceeds, ShutdownCall, ShutdownRaises, ShutdownDone,
           ShutdownClear, Life, TypeOK
  <1>16. overlapped' \in BOOLEAN
    BY DEF ShutdownCheck, ShutdownProceeds, ShutdownCall, ShutdownRaises, ShutdownDone,
           ShutdownClear, Life, TypeOK
  <1>5. client' \in 0..built' /\ open' \in SUBSET (1..built') /\ target' \in [Threads -> 0..built']
    <2>1. 0 \in 0..built /\ client \in 0..built /\ built' = built
          /\ open \in SUBSET (1..built) /\ target \in [Threads -> 0..built]
      BY <1>4 DEF Life, TypeOK
    <2>2. client' = client \/ client' = None
      BY DEF ShutdownCheck, ShutdownProceeds, ShutdownCall, ShutdownRaises, ShutdownDone,
             ShutdownClear
    <2>3. open' = open \/ open' = open \ {target[t]}
      BY DEF ShutdownCheck, ShutdownProceeds, ShutdownCall, ShutdownRaises, ShutdownDone,
             ShutdownClear
    <2>4. PICK c \in {client, None} :
             target' = target \/ target' = [target EXCEPT ![t] = c]
      BY DEF ShutdownCheck, ShutdownProceeds, ShutdownCall, ShutdownRaises, ShutdownDone,
             ShutdownClear
    <2>5. target' \in [Threads -> 0..built]
      BY <2>1, <2>4 DEF None
    <2> QED
      BY <2>1, <2>2, <2>3, <2>5 DEF None
  <1>6. Inside' = Inside
    BY <1>1, <1>2, <1>3 DEF Inside
  <1>7. TypeOK'
    BY <1>3, <1>4, <1>5, <1>6, <1>16 DEF Life, TypeOK, Places
  <1>8. \A u \in Threads : u # t => u \notin Stopping
    <2>1. CASE ShutdownCheck(t)
      BY <2>1 DEF ShutdownCheck
    <2>2. CASE ShutdownProceeds(t)
      <3>1. t \in Stopping
        BY <1>1, <2>2 DEF ShutdownProceeds, ShutdownCall, ShutdownRaises, ShutdownDone,
                          ShutdownClear, At, Stopping
      <3> QED
        BY <3>1 DEF Life, OneLife
    <2> QED
      BY <2>1, <2>2
  <1>9. Stopping \subseteq {t} /\ Stopping' \subseteq {t} /\ \A u, v \in Stopping' : u = v
    BY <1>3, <1>8 DEF Stopping
  <1>10. \A u \in Threads : pc'[u] = "getStore" <=> pc[u] = "getStore"
    BY <1>1, <1>2, <1>3
  <1>11. CASE ShutdownCheck(t)
    <2>1. pc[t] = "idle" /\ there = "shutdownCall" /\ client # None
          /\ UNCHANGED <<client, open, target>>
      BY <1>1, <1>2, <1>3, <1>11 DEF ShutdownCheck, At, Goto, Life, TypeOK
    <2>2. \A u \in Threads : pc[u] \notin {"shuttingDown", "shutdownClear"}
                          /\ pc'[u] \notin {"shuttingDown", "shutdownClear"}
      BY <1>3, <1>8, <2>1 DEF Stopping
    <2>3. OneLife'
      BY <1>9, <1>10, <2>1, <2>2 DEF Life, OneLife
    <2> QED
      BY <1>7, <2>3 DEF Life
  <1>12. CASE ShutdownCall(t)
    <2>1. pc[t] = "shutdownCall" /\ there = "shuttingDown" /\ client # None
          /\ UNCHANGED <<client, open>> /\ target' = [target EXCEPT ![t] = client]
      BY <1>1, <1>2, <1>3, <1>12 DEF ShutdownCall, At, Goto, Life, TypeOK
    <2>2. \A u \in Threads : pc[u] \notin {"shuttingDown", "shutdownClear"}
                          /\ (pc'[u] = "shuttingDown" => u = t) /\ pc'[u] # "shutdownClear"
      BY <1>3, <1>8, <2>1 DEF Stopping
    <2>3. target'[t] = client
      BY <1>1, <2>1 DEF Life, TypeOK
    <2>4. OneLife'
      BY <1>9, <1>10, <2>1, <2>2, <2>3 DEF Life, OneLife
    <2> QED
      BY <1>7, <2>4 DEF Life
  <1>13. CASE ShutdownRaises(t)
    <2>1. pc[t] = "shutdownCall" /\ client = None
      BY <1>13 DEF ShutdownRaises, At
    <2> QED
      BY <1>1, <2>1 DEF Life, OneLife, Stopping
  <1>14. CASE ShutdownDone(t)
    <2>1. pc[t] = "shuttingDown" /\ there = "shutdownClear" /\ UNCHANGED client
          /\ open' = open \ {target[t]}
      BY <1>1, <1>2, <1>3, <1>14 DEF ShutdownDone, At, Goto, Life, TypeOK
    <2>2. client # None /\ target[t] = client
      BY <1>1, <2>1 DEF Life, OneLife, Stopping
    <2>3. ~ \E u \in Threads : pc[u] = "shutdownClear"
      BY <1>8, <2>1 DEF Stopping
    <2>4. open = {client}
      BY <2>2, <2>3 DEF Life, OneLife
    <2>5. \A u \in Threads : pc'[u] # "shuttingDown"
      BY <1>3, <1>8, <2>1 DEF Stopping
    <2>6. OneLife'
      BY <1>1, <1>3, <1>9, <1>10, <2>1, <2>2, <2>4, <2>5 DEF Life, OneLife
    <2> QED
      BY <1>7, <2>6 DEF Life
  <1>15. CASE ShutdownClear(t)
    <2>1. pc[t] = "shutdownClear" /\ there = "idle" /\ client' = None
          /\ UNCHANGED <<open, target>>
      BY <1>1, <1>2, <1>3, <1>15 DEF ShutdownClear, At, Goto, Life, TypeOK
    <2>2. client # None /\ open = {}
      BY <1>1, <2>1 DEF Life, OneLife, Stopping
    <2>3. \A u \in Threads : pc'[u] \notin Stops /\ pc'[u] # "getStore"
      BY <1>3, <1>8, <1>10, <2>1, <2>2 DEF Stopping, Life, OneLife
    <2>4. Stopping' = {}
      BY <2>3 DEF Stopping
    <2>5. {target'[u] : u \in {v \in Threads : pc'[v] = "getStore"}} = {}
      BY <2>3
    <2>6. OneLife'
      BY <2>1, <2>2, <2>3, <2>4, <2>5 DEF OneLife
    <2> QED
      BY <1>7, <2>6 DEF Life
  <1> QED
    BY <1>11, <1>12, <1>13, <1>14, <1>15 DEF ShutdownProceeds

-----------------------------------------------------------------------------
(* The theorems                                                            *)

\* An overlap is remembered for ever.
LEMMA OverlapStays == ASSUME overlapped, [Next]_vars PROVE overlapped'
  <1>1. CASE UNCHANGED vars
    BY <1>1 DEF vars
  <1>2. ASSUME NEW t \in Getters, Get(t) PROVE overlapped'
    BY <1>2 DEF Get, GetUnconfigured, GetEnter, GetFound, GetConstruct, GetRaises, GetStore, GetReturn
  <1>3. ASSUME NEW t \in Flushers, Flush(t) PROVE overlapped'
    BY <1>3 DEF Flush, FlushCheck, FlushCall
  <1>4. ASSUME NEW t \in Closers, ShutdownCheck(t) \/ ShutdownProceeds(t) PROVE overlapped'
    BY <1>4 DEF ShutdownCheck, ShutdownProceeds, ShutdownCall, ShutdownRaises, ShutdownDone,
                ShutdownClear
  <1> QED
    BY <1>1, <1>2, <1>3, <1>4 DEF Next

LEMMA LifeGoesOn == ASSUME Life, ~ overlapped', [Next]_vars PROVE Life'
  <1>1. CASE UNCHANGED vars
    BY <1>1 DEF vars, Life, TypeOK, OneLife, Inside, Stopping
  <1>2. ASSUME NEW t \in Getters, Get(t) PROVE Life'
    <2>1. t \in Threads
      BY DEF Threads
    <2> QED
      BY <1>2, <2>1, GetUnconfiguredKeeps, GetEnterKeeps, GetFoundKeeps, GetConstructKeeps,
         GetStoreKeeps, GetLeavesKeeps
      DEF Get
  <1>3. ASSUME NEW t \in Flushers, Flush(t) PROVE Life'
    BY <1>3, FlushKeeps
  <1>4. ASSUME NEW t \in Closers, ShutdownCheck(t) \/ ShutdownProceeds(t) PROVE Life'
    BY <1>4, ShutdownKeeps
  <1> QED
    BY <1>1, <1>2, <1>3, <1>4 DEF Next

LEMMA Inductive == IInv /\ [Next]_vars => IInv'
  BY OverlapStays, LifeGoesOn DEF IInv

LEMMA LifeImplies == IInv => OneOpenClient /\ NoOrphan
  <1> SUFFICES ASSUME Life PROVE OneOpenClient /\ NoOrphan
    BY DEF IInv, OneOpenClient, NoOrphan
  <1> DEFINE storing == {u \in Threads : pc[u] = "getStore"}
  <1>1. \A u, v \in storing : u = v
    BY DEF Life, TypeOK, Inside
  <1>2. open = {} \/ open = {client} \/ open = {target[t] : t \in storing}
    BY DEF Life, OneLife
  <1> QED
    BY <1>1, <1>2 DEF OneOpenClient, NoOrphan

\* The process never has two open clients before two shutdowns overlap, however
\* many threads get, flush and shut down.
THEOREM OneClient == Spec => []OneOpenClient
  <1>1. Init => IInv
    BY Initially DEF IInv
  <1>2. IInv => OneOpenClient
    BY LifeImplies
  <1> QED
    BY <1>1, <1>2, Inductive, PTL DEF Spec

\* No client is orphaned before two shutdowns overlap: an open one can still be
\* reached by a shutdown.
THEOREM NoClientOrphaned == Spec => []NoOrphan
  <1>1. Init => IInv
    BY Initially DEF IInv
  <1>2. IInv => NoOrphan
    BY LifeImplies
  <1> QED
    BY <1>1, <1>2, Inductive, PTL DEF Spec

-----------------------------------------------------------------------------
(* The abstract slot                                                       *)

\* A step that leaves the clients, and who builds and closes them, as they are.
LEMMA SlotStutters ==
    ASSUME UNCHANGED <<client, built, open, target>>,
           \A u \in Threads : \A here \in {"getStore", "shuttingDown", "shutdownClear"} :
               pc'[u] = here <=> pc[u] = here
    PROVE  UNCHANGED Slot!vars
  <1>1. Cached' = Cached
    BY DEF Cached, None
  <1>2. Fate' = Fate
    BY DEF Fate
  <1> QED
    BY <1>1, <1>2 DEF Slot!vars

\* A construction fills the slot, which is empty, as nothing is cached and no
\* closer has anything to shut down.
LEMMA ConstructBuilds ==
    ASSUME Life, Life', NEW t \in Threads, GetConstruct(t)
    PROVE  Slot!Next
  <1>1. /\ pc[t] = "getCheck" /\ Goto(t, "getStore") /\ client = None
        /\ built \in Nat /\ built < MaxClients /\ built' = built + 1
        /\ open' = open \cup {built + 1} /\ open \subseteq 1..built
        /\ target' = [target EXCEPT ![t] = built + 1] /\ client' = client
    BY DEF GetConstruct, At, Life, TypeOK
  <1>2. /\ pc'[t] = "getStore" /\ \A u \in Threads : u # t => pc'[u] = pc[u]
    BY <1>1, Moves DEF Life, Places
  <1>3. \A u \in Threads : pc[u] \notin {"shuttingDown", "shutdownClear", "getStore"}
    BY <1>1 DEF Life, TypeOK, OneLife, Stopping, Inside
  <1>4. \A u \in Threads : pc'[u] \notin {"shuttingDown", "shutdownClear"}
    BY <1>2, <1>3
  <1>5. Cached = None /\ Cached' = built + 1
    BY <1>1, <1>2, <1>3, <1>4 DEF Cached
  <1>6. built + 1 \in 1..MaxClients /\ Fate[built + 1] = "unbuilt"
    BY <1>1, ClientsAssumption DEF Fate, ClientsAssumption
  <1>7. Fate' = [Fate EXCEPT ![built + 1] = "cached"]
    <2>1. Fate' = [c \in 1..MaxClients |-> Fate'[c]] /\ Fate = [c \in 1..MaxClients |-> Fate[c]]
      BY DEF Fate
    <2>2. ASSUME NEW c \in 1..MaxClients
          PROVE  Fate'[c] = IF c = built + 1 THEN "cached" ELSE Fate[c]
      BY <1>1, <1>3, <1>4, <1>6 DEF Fate
    <2> QED
      BY <2>1, <2>2
  <1> QED
    BY <1>5, <1>6, <1>7 DEF Slot!Next, Slot!Build

\* The SDK's shutdown takes the cached client out of the slot.
LEMMA CallRetires ==
    ASSUME Life, Life', NEW t \in Threads, ShutdownCall(t)
    PROVE  Slot!Next
  <1>1. /\ pc[t] = "shutdownCall" /\ Goto(t, "shuttingDown") /\ client # None
        /\ target' = [target EXCEPT ![t] = client]
        /\ UNCHANGED <<client, built, open>>
        /\ built \in 0..MaxClients /\ client \in 0..built /\ open \subseteq 1..built
    BY DEF ShutdownCall, At, Life, TypeOK
  <1>2. /\ pc'[t] = "shuttingDown" /\ \A u \in Threads : u # t => pc'[u] = pc[u]
    BY <1>1, Moves DEF Life, Places
  <1>3. \A u \in Threads : pc[u] \notin {"shuttingDown", "shutdownClear", "getStore"}
    BY <1>1 DEF Life, OneLife, Stopping
  <1>4. target'[t] = client
    BY <1>1 DEF Life, TypeOK
  <1>5. open = {client}
    BY <1>1, <1>3 DEF Life, OneLife
  <1>6. Cached = client /\ Cached' = None
    BY <1>2, <1>3 DEF Cached
  <1>7. client \in 1..MaxClients
    BY <1>1, ClientsAssumption DEF None, ClientsAssumption
  <1>8. Fate' = [Fate EXCEPT ![client] = "closing"]
    <2>1. Fate' = [c \in 1..MaxClients |-> Fate'[c]] /\ Fate = [c \in 1..MaxClients |-> Fate[c]]
      BY DEF Fate
    <2>2. ASSUME NEW c \in 1..MaxClients
          PROVE  Fate'[c] = IF c = client THEN "closing" ELSE Fate[c]
      BY <1>1, <1>2, <1>3, <1>4, <1>5, <1>7 DEF Fate
    <2> QED
      BY <2>1, <2>2
  <1> QED
    BY <1>6, <1>7, <1>8 DEF Slot!Next, Slot!Retire

\* When it is over, that client is torn down, and no other.
LEMMA DoneTearsDown ==
    ASSUME Life, Life', NEW t \in Threads, ShutdownDone(t)
    PROVE  Slot!Next
  <1>1. /\ pc[t] = "shuttingDown" /\ Goto(t, "shutdownClear")
        /\ open' = open \ {target[t]} /\ target' = [target EXCEPT ![t] = None]
        /\ UNCHANGED <<client, built>>
        /\ built \in 0..MaxClients /\ client \in 0..built /\ open \subseteq 1..built
    BY DEF ShutdownDone, At, Life, TypeOK
  <1>2. /\ pc'[t] = "shutdownClear" /\ \A u \in Threads : u # t => pc'[u] = pc[u]
    BY <1>1, Moves DEF Life, Places
  <1>3. client # None /\ target[t] = client
    BY <1>1 DEF Life, OneLife, Stopping
  <1>4. \A u \in Threads : u # t => pc[u] \notin {"shuttingDown", "shutdownClear"}
    BY <1>1 DEF Life, OneLife, Stopping
  <1>5. open = {client} /\ open' = {}
    BY <1>1, <1>3, <1>4 DEF Life, OneLife
  <1>6. Cached = None /\ Cached' = None
    BY <1>1, <1>2 DEF Cached
  <1>7. client \in 1..MaxClients /\ client <= built
    BY <1>1, <1>3, ClientsAssumption DEF None, ClientsAssumption
  <1>8. Fate[client] = "closing"
    BY <1>1, <1>3, <1>5, <1>7 DEF Fate
  <1>9. Fate' = [Fate EXCEPT ![client] = "torn"]
    <2>1. Fate' = [c \in 1..MaxClients |-> Fate'[c]] /\ Fate = [c \in 1..MaxClients |-> Fate[c]]
      BY DEF Fate
    <2>2. ASSUME NEW c \in 1..MaxClients
          PROVE  Fate'[c] = IF c = client THEN "torn" ELSE Fate[c]
      BY <1>1, <1>5, <1>7 DEF Fate
    <2> QED
      BY <2>1, <2>2
  <1> QED
    BY <1>6, <1>7, <1>8, <1>9 DEF Slot!Next, Slot!TearDown

\* What _client is set and cleared to later changes nothing.
LEMMA StoreStutters ==
    ASSUME Life, Life', NEW t \in Threads, GetStore(t)
    PROVE  UNCHANGED Slot!vars
  <1>1. /\ pc[t] = "getStore" /\ Goto(t, "getReturn") /\ client' = target[t]
        /\ target' = [target EXCEPT ![t] = None] /\ UNCHANGED <<built, open>>
        /\ client = None /\ target[t] = built
    BY DEF GetStore, At, Life, OneLife
  <1>2. /\ pc'[t] = "getReturn" /\ \A u \in Threads : u # t => pc'[u] = pc[u]
    BY <1>1, Moves DEF Life, Places
  <1>3. \A u \in Threads : pc[u] \notin {"shuttingDown", "shutdownClear"}
    BY <1>1 DEF Life, OneLife, Stopping
  <1>4. \A u \in Threads : pc'[u] \notin {"shuttingDown", "shutdownClear", "getStore"}
    BY <1>1, <1>2, <1>3 DEF Life, TypeOK, Inside
  <1>5. Cached = built /\ Cached' = built
    BY <1>1, <1>3, <1>4 DEF Cached
  <1>6. Fate' = Fate
    BY <1>1, <1>3, <1>4 DEF Fate
  <1> QED
    BY <1>5, <1>6 DEF Slot!vars

LEMMA ClearStutters ==
    ASSUME Life, Life', NEW t \in Threads, ShutdownClear(t)
    PROVE  UNCHANGED Slot!vars
  <1>1. /\ pc[t] = "shutdownClear" /\ Goto(t, "idle") /\ client' = None
        /\ UNCHANGED <<built, open, target>>
    BY DEF ShutdownClear, At
  <1>2. /\ pc'[t] = "idle" /\ \A u \in Threads : u # t => pc'[u] = pc[u]
    BY <1>1, Moves DEF Life, Places
  <1>3. \A u \in Threads : pc[u] # "getStore" /\ (u # t => pc[u] \notin {"shuttingDown", "shutdownClear"})
    BY <1>1 DEF Life, OneLife, Stopping
  <1>4. Cached = None /\ Cached' = None
    BY <1>1, <1>2, <1>3 DEF Cached
  <1>5. Fate' = Fate
    BY <1>1, <1>2, <1>3 DEF Fate
  <1> QED
    BY <1>4, <1>5 DEF Slot!vars

LEMMA SlotStep ==
    ASSUME Life, Life', [Next]_vars
    PROVE  Slot!Next \/ UNCHANGED Slot!vars
  <1> DEFINE Still(t) == UNCHANGED <<client, built, open, target>> /\
                        \E there \in Places \ {"getStore", "shuttingDown", "shutdownClear"} :
                            Goto(t, there)
  <1>1. ASSUME NEW t \in Threads, Still(t),
               pc[t] \notin {"getStore", "shuttingDown", "shutdownClear"}
        PROVE  UNCHANGED Slot!vars
    <2>1. \A u \in Threads : \A here \in {"getStore", "shuttingDown", "shutdownClear"} :
               pc'[u] = here <=> pc[u] = here
      BY <1>1, Moves DEF Life
    <2> QED
      BY <1>1, <2>1, SlotStutters
  <1>2. CASE UNCHANGED <<client, built, open, pc, target>>
    BY <1>2, SlotStutters
  <1>3. ASSUME NEW t \in Getters, Get(t) PROVE Slot!Next \/ UNCHANGED Slot!vars
    <2>1. t \in Threads
      BY DEF Threads
    <2>2. CASE \E p \in Prefixes : GetUnconfigured(t, p)
      BY <2>2, <1>2 DEF GetUnconfigured
    <2>3. CASE GetEnter(t) \/ GetFound(t) \/ GetRaises(t) \/ GetReturn(t)
      BY <2>1, <2>3, <1>1 DEF GetEnter, GetFound, GetRaises, GetReturn, At, Places
    <2> QED
      BY <1>3, <2>1, <2>2, <2>3, ConstructBuilds, StoreStutters DEF Get
  <1>4. ASSUME NEW t \in Flushers, Flush(t) PROVE UNCHANGED Slot!vars
    <2>1. t \in Threads
      BY DEF Threads
    <2> QED
      BY <1>4, <2>1, <1>1 DEF Flush, FlushCheck, FlushCall, At, Places
  <1>5. ASSUME NEW t \in Closers, ShutdownCheck(t) \/ ShutdownProceeds(t)
        PROVE  Slot!Next \/ UNCHANGED Slot!vars
    <2>1. t \in Threads
      BY DEF Threads
    <2>2. CASE ShutdownCheck(t) \/ ShutdownRaises(t)
      BY <2>1, <2>2, <1>1 DEF ShutdownCheck, ShutdownRaises, At, Places
    <2> QED
      BY <1>5, <2>1, <2>2, CallRetires, DoneTearsDown, ClearStutters DEF ShutdownProceeds
  <1> QED
    BY <1>2, <1>3, <1>4, <1>5 DEF Next, vars

\* Until two shutdowns overlap, the analytics client is a slot: filled when it is
\* empty, emptied by the one shutdown that ends what was in it.
THEOREM ClientImplementsSlot == Spec => ImplementsSlot
  <1>1. Init => IInv /\ Slot!Init
    <2> SUFFICES ASSUME Init PROVE Slot!Init
      BY Initially DEF IInv
    <2>1. \A t \in Threads : pc[t] = "idle"
      BY DEF Init
    <2>2. Cached = None
      BY <2>1 DEF Init, Cached
    <2>3. Fate = [c \in 1..MaxClients |-> "unbuilt"]
      BY ClientsAssumption DEF Init, Fate, ClientsAssumption
    <2> QED
      BY <2>2, <2>3 DEF Slot!Init
  <1>2. IInv /\ [Next]_vars => [overlapped' \/ Slot!Next]_(Slot!vars)
    BY OverlapStays, LifeGoesOn, SlotStep DEF IInv
  <1> QED
    BY <1>1, <1>2, Inductive, PTL DEF Spec, ImplementsSlot

-----------------------------------------------------------------------------
(* The rate limit                                                          *)

\* The newest client has the limit that the environment stands for.
LimitFollows ==
    /\ env \in [rate : Raws, burst : Raws]
    /\ built \in Nat
    /\ built > 0 => limit = RateLimitConfig

LEMMA LimitInit == Init => LimitFollows
  BY DEF Init, LimitFollows

LEMMA LimitNext == LimitFollows /\ [Next]_vars => LimitFollows'
  <1> SUFFICES ASSUME LimitFollows, [Next]_vars PROVE LimitFollows'
    OBVIOUS
  <1>1. ASSUME UNCHANGED <<built, limits>> PROVE LimitFollows'
    BY <1>1 DEF LimitFollows, limits, RateLimitConfig
  <1>2. ASSUME NEW t \in Getters, GetConstruct(t) PROVE LimitFollows'
    BY <1>2 DEF GetConstruct, LimitFollows, RateLimitConfig
  <1>3. ASSUME NEW t \in Getters, Get(t), ~ GetConstruct(t) PROVE UNCHANGED <<built, limits>>
    BY <1>3 DEF Get, GetUnconfigured, GetEnter, GetFound, GetRaises, GetStore, GetReturn
  <1>4. ASSUME NEW t \in Flushers, Flush(t) PROVE UNCHANGED <<built, limits>>
    BY <1>4 DEF Flush, FlushCheck, FlushCall
  <1>5. ASSUME NEW t \in Closers, ShutdownCheck(t) \/ ShutdownProceeds(t)
        PROVE  UNCHANGED <<built, limits>>
    BY <1>5 DEF ShutdownCheck, ShutdownProceeds, ShutdownCall, ShutdownRaises, ShutdownDone,
                ShutdownClear
  <1>6. UNCHANGED vars => UNCHANGED <<built, limits>>
    BY DEF vars
  <1> QED
    BY <1>1, <1>2, <1>3, <1>4, <1>5, <1>6 DEF Next

LEMMA FollowedIsUsable == LimitFollows => LimitUsable
  <1> SUFFICES ASSUME LimitFollows, built > 0 PROVE LimitUsable
    BY DEF LimitUsable
  <1> DEFINE rate == ReadFloat(env.rate, DefaultRate)
             burst == ReadFloat(env.burst, DefaultBurst)
  <1>1. limit = IF rate <= 0 THEN Unlimited
                ELSE [limited |-> TRUE, rate |-> rate, burst |-> UsableBurst(burst)]
    BY DEF LimitFollows, RateLimitConfig
  <1>t. /\ rate = IF env.rate.is = "number" THEN env.rate.value ELSE DefaultRate
        /\ burst = IF env.burst.is = "number" THEN env.burst.value ELSE DefaultBurst
    BY DEF ReadFloat
  <1>r. /\ env.rate.value \in Int /\ env.burst.value \in Int
        /\ Unit \in Nat \ {0} /\ DefaultRate \in Nat \ {0}
        /\ DefaultBurst \in Nat /\ DefaultBurst >= Unit
    <2>1. \A raw \in Raws : raw.value \in Int
      <3> SUFFICES ASSUME NEW raw \in Raws PROVE raw.value \in Int
        OBVIOUS
      <3>1. raw.value \in {0} \cup Numbers
        BY DEF Raws
      <3>2. Numbers \subseteq Int /\ 0 \in Int
        BY LimitsAssumption DEF LimitsAssumption
      <3> QED
        BY <3>1, <3>2, Zenon
    <2>2. env.rate \in Raws /\ env.burst \in Raws
      BY DEF LimitFollows
    <2> QED
      BY <2>1, <2>2, LimitsAssumption DEF LimitsAssumption
  <1>b. /\ UsableBurst(burst) >= Unit
        /\ env.burst.is = "number" /\ env.burst.value >= Unit => UsableBurst(burst) = env.burst.value
    BY <1>t, <1>r DEF UsableBurst
  <1> HIDE DEF rate, burst
  <1>2. CASE rate <= 0
    BY <1>1, <1>2, <1>t, <1>r DEF LimitUsable, Unlimited
  <1>3. CASE ~ (rate <= 0)
    <2>1. limit.limited = TRUE /\ limit.rate = rate /\ limit.burst = UsableBurst(burst)
      BY <1>1, <1>3
    <2> QED
      BY <2>1, <1>3, <1>t, <1>r, <1>b DEF LimitUsable
  <1> QED
    BY <1>2, <1>3

\* Whatever the environment's two variables hold, the limit made of them meets the
\* assumptions RateLimiter makes, and turns off only for a rate set to zero or below.
THEOREM LimitAlwaysUsable == Spec => []LimitUsable
  BY LimitInit, LimitNext, FollowedIsUsable, PTL DEF Spec
=============================================================================
