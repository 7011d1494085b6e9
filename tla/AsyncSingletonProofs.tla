------------------------ MODULE AsyncSingletonProofs ------------------------
(***************************************************************************)
(* Proofs about AsyncSingleton, for every set of tasks and every bound:    *)
(* the lock works as a lock although it only signals its waiters, so the   *)
(* factory runs alone and only into an empty slot, so no resource leaks.   *)
(***************************************************************************)
EXTENDS AsyncSingleton, SequenceTheorems, TLAPS

IInv == TypeOK /\ LockDiscipline /\ FactoryOnlyWhenEmpty /\ OneOwner

\* Taking a task out of the queue takes out that task and no other.
LEMMA Leaving ==
    ASSUME TypeOK, LockDiscipline, NEW t \in Tasks, LeaveQueue(t)
    PROVE  /\ waiters' \in Seq(Tasks)
           /\ \A i, j \in 1..Len(waiters') : waiters'[i] = waiters'[j] => i = j
           /\ t \in Queued
           /\ Queued' = Queued \ {t}
           /\ Head(waiters) # t => waiters' # <<>> /\ Head(waiters') = Head(waiters)
  <1>1. PICK i \in 1..Len(waiters) : waiters[i] = t /\ waiters' = RemoveAt(waiters, i)
    BY DEF LeaveQueue
  <1>2. /\ waiters \in Seq(Tasks) /\ Len(waiters) \in Nat
        /\ \A j, k \in 1..Len(waiters) : waiters[j] = waiters[k] => j = k
    BY DEF TypeOK, LockDiscipline
  <1>3. /\ waiters' \in Seq(Tasks)
        /\ Len(waiters') = Len(waiters) - 1
        /\ \A j \in 1..Len(waiters') : waiters'[j] = waiters[IF j < i THEN j ELSE j + 1]
    <2> DEFINE front == SubSeq(waiters, 1, i - 1)
               back  == SubSeq(waiters, i + 1, Len(waiters))
    <2>1. front \in Seq(Tasks) /\ Len(front) = i - 1 /\ \A j \in 1..(i - 1) : front[j] = waiters[j]
      BY <1>2
    <2>2. back \in Seq(Tasks) /\ Len(back) = Len(waiters) - i
          /\ \A j \in 1..(Len(waiters) - i) : back[j] = waiters[i + j]
      BY <1>2
    <2>3. waiters' = front \o back
      BY <1>1 DEF RemoveAt
    <2> HIDE DEF front, back
    <2>4. /\ waiters' \in Seq(Tasks)
          /\ Len(waiters') = Len(front) + Len(back)
          /\ \A j \in 1..Len(waiters') :
               waiters'[j] = IF j <= Len(front) THEN front[j] ELSE back[j - Len(front)]
      <3>1. front \in Seq(Tasks) /\ back \in Seq(Tasks)
        BY <2>1, <2>2
      <3>2. /\ front \o back \in Seq(Tasks)
            /\ Len(front \o back) = Len(front) + Len(back)
            /\ \A j \in 1..(Len(front) + Len(back)) :
                 (front \o back)[j] = IF j <= Len(front) THEN front[j] ELSE back[j - Len(front)]
        BY <3>1, ConcatProperties, Zenon
      <3> QED
        BY <2>3, <3>2, Zenon
    <2>5. ASSUME NEW j \in 1..Len(waiters')
          PROVE  waiters'[j] = waiters[IF j < i THEN j ELSE j + 1]
      <3>1. CASE j < i
        BY <1>2, <2>1, <2>2, <2>4, <3>1
      <3>2. CASE j >= i
        <4>1. j - Len(front) \in 1..(Len(waiters) - i) /\ i + (j - Len(front)) = j + 1
          BY <1>2, <2>1, <2>2, <2>4, <3>2
        <4> QED
          BY <1>2, <2>1, <2>2, <2>4, <3>2, <4>1
      <3> QED
        BY <1>2, <3>1, <3>2
    <2> QED
      BY <1>2, <2>1, <2>2, <2>4, <2>5
  <1>4. \A j, k \in 1..Len(waiters') : waiters'[j] = waiters'[k] => j = k
    <2> DEFINE at(j) == IF j < i THEN j ELSE j + 1
    <2>1. ASSUME NEW j \in 1..Len(waiters'), NEW k \in 1..Len(waiters'), waiters'[j] = waiters'[k]
          PROVE  j = k
      <3>1. at(j) \in 1..Len(waiters) /\ at(k) \in 1..Len(waiters)
        BY <1>2, <1>3
      <3>2. waiters[at(j)] = waiters[at(k)]
        BY <1>3, <2>1, Zenon
      <3>3. at(j) = at(k)
        BY <1>2, <3>1, <3>2, Zenon
      <3>4. j \in Nat /\ k \in Nat /\ i \in Nat
        BY <1>2, <1>3
      <3> QED
        BY <3>3, <3>4
    <2> QED
      BY <2>1
  <1>5. Queued' = Queued \ {t}
    <2>1. ASSUME NEW j \in 1..Len(waiters') PROVE waiters'[j] \in Queued \ {t}
      <3> DEFINE k == IF j < i THEN j ELSE j + 1
      <3>1. k \in 1..Len(waiters) /\ k # i /\ waiters'[j] = waiters[k]
        BY <1>2, <1>3
      <3> QED
        BY <1>1, <1>2, <3>1 DEF Queued
    <2>2. ASSUME NEW k \in 1..Len(waiters), waiters[k] # t PROVE waiters[k] \in Queued'
      <3>1. k # i
        BY <1>1, <2>2
      <3>2. CASE k < i
        <4>1. k \in 1..Len(waiters') /\ waiters'[k] = waiters[k]
          BY <1>2, <1>3, <3>2
        <4> QED
          BY <4>1 DEF Queued
      <3>3. CASE ~ (k < i)
        <4>1. k - 1 \in 1..Len(waiters') /\ ~ (k - 1 < i) /\ (k - 1) + 1 = k
          BY <1>2, <1>3, <3>1, <3>3
        <4>2. waiters'[k - 1] = waiters[k]
          BY <1>3, <4>1
        <4> QED
          BY <4>1, <4>2 DEF Queued
      <3> QED
        BY <3>2, <3>3
    <2> QED
      BY <2>1, <2>2 DEF Queued
  <1>6. ASSUME Head(waiters) # t
        PROVE  waiters' # <<>> /\ Head(waiters') = Head(waiters)
    <2>1. i # 1 /\ Len(waiters) >= 2
      BY <1>1, <1>2, <1>6
    <2>2. Len(waiters') >= 1 /\ waiters'[1] = waiters[1]
      BY <1>2, <1>3, <2>1
    <2> QED
      BY <1>2, <1>3, <2>1, <2>2
  <1> QED
    BY <1>1, <1>3, <1>4, <1>5, <1>6 DEF Queued

LEMMA Joining ==
    ASSUME TypeOK, LockDiscipline, NEW t \in Tasks, t \notin Queued,
           waiters' = Append(waiters, t)
    PROVE  /\ waiters' \in Seq(Tasks)
           /\ \A i, j \in 1..Len(waiters') : waiters'[i] = waiters'[j] => i = j
           /\ Queued' = Queued \cup {t}
  <1>1. /\ waiters' \in Seq(Tasks) /\ Len(waiters') = Len(waiters) + 1 /\ Len(waiters) \in Nat
        /\ \A i \in 1..Len(waiters) : waiters'[i] = waiters[i]
        /\ waiters'[Len(waiters) + 1] = t
    BY DEF TypeOK
  <1>2. \A i, j \in 1..Len(waiters') : waiters'[i] = waiters'[j] => i = j
    BY <1>1 DEF LockDiscipline, Queued
  <1>3. Queued' = Queued \cup {t}
    <2>1. 1..Len(waiters') = 1..Len(waiters) \cup {Len(waiters) + 1}
      BY <1>1
    <2> QED
      BY <1>1, <2>1 DEF Queued
  <1> QED
    BY <1>1, <1>2, <1>3

LEMMA HeadQueued ==
    ASSUME TypeOK, waiters # <<>>
    PROVE  Head(waiters) \in Queued
  BY DEF TypeOK, Queued

LEMMA Initially == Init => IInv
  <1> SUFFICES ASSUME Init PROVE IInv
    OBVIOUS
  <1>1. TypeOK
    <2>1. built = 0 /\ instance = 0 /\ built \in 0..MaxBuilds /\ instance \in 0..built
      BY BuildsAssumption DEF Init, None, BuildsAssumption
    <2>2. /\ pc \in [Tasks -> {"idle", "waiting", "factory", "closing"}]
          /\ toClose \in [Tasks -> 0..built]
          /\ \A t \in Tasks : pc[t] = "closing" <=> toClose[t] # None
      BY <2>1 DEF Init, None
    <2>3. waiters \in Seq(Tasks) /\ signaled \in SUBSET Tasks
      BY EmptySeq, SMT DEF Init
    <2>4. locked \in BOOLEAN
      BY Zenon DEF Init
    <2> QED
      BY <2>1, <2>2, <2>3, <2>4 DEF TypeOK
  <1>2. LockDiscipline
    BY DEF Init, LockDiscipline, Queued
  <1>3. FactoryOnlyWhenEmpty /\ OneOwner
    BY DEF Init, FactoryOnlyWhenEmpty, OneOwner
  <1> QED
    BY <1>1, <1>2, <1>3 DEF IInv

-----------------------------------------------------------------------------
(* One lemma per action                                                    *)

LEMMA CancelWaiterKeeps == ASSUME IInv, NEW t \in Tasks, CancelWaiter(t) PROVE IInv'
  <1> USE DEF IInv
  <1>1. /\ pc[t] = "waiting" /\ pc' = [pc EXCEPT ![t] = "idle"] /\ LeaveQueue(t)
        /\ UNCHANGED <<instance, built, toClose, locked>>
    BY DEF CancelWaiter, Goto
  <1>2. signaled' = (signaled \ {t}) \cup
                      (IF ~ locked /\ waiters' # <<>> THEN {Head(waiters')} ELSE {})
    BY DEF CancelWaiter
  <1>3. /\ waiters' \in Seq(Tasks)
        /\ \A i, j \in 1..Len(waiters') : waiters'[i] = waiters'[j] => i = j
        /\ Queued' = Queued \ {t}
        /\ Head(waiters) # t => waiters' # <<>> /\ Head(waiters') = Head(waiters)
    BY <1>1, Leaving
  <1>4. TypeOK'
    <2>1. signaled' \in SUBSET Tasks
      BY <1>2, <1>3 DEF TypeOK
    <2> QED
      BY <1>1, <1>3, <2>1 DEF TypeOK
  <1>5. LockDiscipline'
    <2>1. \A s \in signaled' : ~ locked' /\ waiters' # <<>> /\ s = Head(waiters')
      BY <1>1, <1>2, <1>3 DEF LockDiscipline
    <2>2. Queued' = {u \in Tasks : pc'[u] = "waiting"}
      BY <1>1, <1>3 DEF LockDiscipline, TypeOK
    <2>3. locked' <=> \E u \in Tasks : pc'[u] = "factory"
      BY <1>1 DEF LockDiscipline, TypeOK
    <2> QED
      BY <1>3, <2>1, <2>2, <2>3 DEF LockDiscipline
  <1>6. FactoryOnlyWhenEmpty' /\ OneOwner'
    BY <1>1 DEF FactoryOnlyWhenEmpty, OneOwner, TypeOK
  <1> QED
    BY <1>4, <1>5, <1>6

\* What the steps that start a factory call have in common.
LEMMA BuildStarts ==
    ASSUME IInv, NEW t \in Tasks,
           pc' = [pc EXCEPT ![t] = "factory"], pc[t] \in {"idle", "waiting"},
           instance = None, ~ locked, locked' = TRUE,
           waiters' \in Seq(Tasks),
           \A i, j \in 1..Len(waiters') : waiters'[i] = waiters'[j] => i = j,
           Queued' = Queued \ {t}, signaled' = {},
           UNCHANGED <<instance, built, toClose>>
    PROVE  IInv'
  <1> USE DEF IInv
  <1>1. TypeOK'
    <2>1. pc' \in [Tasks -> {"idle", "waiting", "factory", "closing"}]
          /\ \A u \in Tasks : pc'[u] = "closing" <=> toClose[u] # None
      BY DEF TypeOK
    <2> QED
      BY <2>1 DEF TypeOK
  <1>2. \A u \in Tasks : pc'[u] = "factory" <=> u = t
    BY DEF TypeOK, LockDiscipline
  <1>3. LockDiscipline'
    <2>1. Queued' = {u \in Tasks : pc'[u] = "waiting"}
      BY DEF LockDiscipline, TypeOK
    <2> QED
      BY <1>2, <2>1 DEF LockDiscipline
  <1>4. FactoryOnlyWhenEmpty' /\ OneOwner'
    BY <1>2 DEF FactoryOnlyWhenEmpty, OneOwner
  <1> QED
    BY <1>1, <1>3, <1>4

LEMMA GetBuildKeeps == ASSUME IInv, NEW t \in Tasks, GetBuild(t) PROVE IInv'
  <1>1. /\ pc[t] = "idle" /\ pc' = [pc EXCEPT ![t] = "factory"]
        /\ instance = None /\ ~ locked /\ waiters = <<>> /\ locked' = TRUE
        /\ UNCHANGED <<instance, built, toClose, waiters, signaled>>
    BY DEF GetBuild, Goto
  <1>2. signaled' = {} /\ waiters' \in Seq(Tasks)
        /\ \A i, j \in 1..Len(waiters') : waiters'[i] = waiters'[j] => i = j
    BY <1>1 DEF IInv, LockDiscipline, TypeOK
  <1>3. Queued' = Queued /\ t \notin Queued
    BY <1>1 DEF IInv, LockDiscipline, Queued
  <1>4. Queued' = Queued \ {t}
    BY <1>3
  <1> QED
    BY <1>1, <1>2, <1>4, BuildStarts

LEMMA GetWaitKeeps == ASSUME IInv, NEW t \in Tasks, GetWait(t) PROVE IInv'
  <1> USE DEF IInv
  <1>1. /\ pc[t] = "idle" /\ pc' = [pc EXCEPT ![t] = "waiting"] /\ waiters' = Append(waiters, t)
        /\ UNCHANGED <<instance, built, toClose, locked, signaled>>
    BY DEF GetWait, Goto
  <1>2. t \notin Queued
    BY <1>1 DEF LockDiscipline
  <1>3. /\ waiters' \in Seq(Tasks)
        /\ \A i, j \in 1..Len(waiters') : waiters'[i] = waiters'[j] => i = j
        /\ Queued' = Queued \cup {t}
    BY <1>1, <1>2, Joining
  <1>4. TypeOK'
    BY <1>1, <1>3 DEF TypeOK
  <1>5. LockDiscipline'
    <2>1. waiters # <<>> => waiters' # <<>> /\ Head(waiters') = Head(waiters)
      BY <1>1 DEF TypeOK
    <2>2. Queued' = {u \in Tasks : pc'[u] = "waiting"}
      BY <1>1, <1>3 DEF LockDiscipline, TypeOK
    <2>3. locked' <=> \E u \in Tasks : pc'[u] = "factory"
      BY <1>1 DEF LockDiscipline, TypeOK
    <2> QED
      BY <1>1, <1>3, <2>1, <2>2, <2>3 DEF LockDiscipline
  <1>6. FactoryOnlyWhenEmpty' /\ OneOwner'
    BY <1>1 DEF FactoryOnlyWhenEmpty, OneOwner, TypeOK
  <1> QED
    BY <1>4, <1>5, <1>6

LEMMA LockedBuildKeeps == ASSUME IInv, NEW t \in Tasks, LockedBuild(t) PROVE IInv'
  <1>1. /\ t \in signaled /\ instance = None /\ LeaveQueue(t) /\ signaled' = signaled \ {t}
        /\ pc' = [pc EXCEPT ![t] = "factory"] /\ locked' = TRUE
        /\ UNCHANGED <<instance, built, toClose>>
    BY DEF LockedBuild, StillMissing, Goto
  <1>2. /\ waiters' \in Seq(Tasks)
        /\ \A i, j \in 1..Len(waiters') : waiters'[i] = waiters'[j] => i = j
        /\ t \in Queued /\ Queued' = Queued \ {t}
    BY <1>1, Leaving DEF IInv
  <1>3. ~ locked /\ signaled' = {} /\ pc[t] = "waiting"
    BY <1>1, <1>2 DEF IInv, LockDiscipline
  <1> QED
    BY <1>1, <1>2, <1>3, BuildStarts

LEMMA LockedFoundKeeps == ASSUME IInv, NEW t \in Tasks, LockedFound(t) PROVE IInv'
  <1> USE DEF IInv
  <1>1. /\ t \in signaled /\ LeaveQueue(t) /\ locked' = FALSE
        /\ signaled' = (signaled \ {t}) \cup (IF waiters' = <<>> THEN {} ELSE {Head(waiters')})
        /\ pc' = [pc EXCEPT ![t] = "idle"]
        /\ UNCHANGED <<instance, built, toClose>>
    BY DEF LockedFound, Goto
  <1>2. /\ waiters' \in Seq(Tasks)
        /\ \A i, j \in 1..Len(waiters') : waiters'[i] = waiters'[j] => i = j
        /\ t \in Queued /\ Queued' = Queued \ {t}
    BY <1>1, Leaving
  <1>3. ~ locked /\ signaled = {t} /\ pc[t] = "waiting"
    BY <1>1, <1>2 DEF LockDiscipline
  <1>4. TypeOK'
    <2>1. signaled' \in SUBSET Tasks
      BY <1>1, <1>2, <1>3
    <2> QED
      BY <1>1, <1>2, <1>3, <2>1 DEF TypeOK
  <1>5. LockDiscipline'
    <2>1. Queued' = {u \in Tasks : pc'[u] = "waiting"}
      BY <1>1, <1>2 DEF LockDiscipline, TypeOK
    <2>2. \A u \in Tasks : pc'[u] # "factory"
      BY <1>1, <1>3 DEF LockDiscipline, TypeOK
    <2> QED
      BY <1>1, <1>2, <1>3, <2>1, <2>2 DEF LockDiscipline
  <1>6. FactoryOnlyWhenEmpty' /\ OneOwner'
    BY <1>1 DEF FactoryOnlyWhenEmpty, OneOwner, TypeOK
  <1> QED
    BY <1>4, <1>5, <1>6

\* What the two ends of a factory call have in common: the lock moves on.
LEMMA Releasing ==
    ASSUME IInv, NEW t \in Tasks, pc[t] = "factory", Release, pc' = [pc EXCEPT ![t] = "idle"]
    PROVE  /\ signaled' \in SUBSET Tasks
           /\ \A u \in Tasks : pc'[u] # "factory"
           /\ LockDiscipline'
  <1> USE DEF IInv
  <1>1. locked /\ signaled = {}
    BY DEF LockDiscipline
  <1>2. /\ locked' = FALSE /\ waiters' = waiters /\ Queued' = Queued
        /\ signaled' = IF waiters = <<>> THEN {} ELSE {Head(waiters)}
    BY <1>1 DEF Release, Wake, Queued
  <1>3. signaled' \in SUBSET Tasks
    BY <1>2 DEF TypeOK
  <1>4. \A u \in Tasks : pc'[u] # "factory"
    BY DEF FactoryOnlyWhenEmpty, TypeOK
  <1>5. Queued' = {u \in Tasks : pc'[u] = "waiting"}
    BY <1>2 DEF LockDiscipline, TypeOK
  <1> QED
    BY <1>2, <1>3, <1>4, <1>5 DEF LockDiscipline

LEMMA FactoryReturnsKeeps == ASSUME IInv, NEW t \in Tasks, FactoryReturns(t) PROVE IInv'
  <1> USE DEF IInv
  <1>1. /\ pc[t] = "factory" /\ pc' = [pc EXCEPT ![t] = "idle"] /\ Release
        /\ built < MaxBuilds /\ built' = built + 1 /\ instance' = built + 1
        /\ locked' = FALSE /\ waiters' = waiters
        /\ UNCHANGED <<toClose>>
    BY DEF FactoryReturns, Goto, Release
  <1>2. signaled' \in SUBSET Tasks /\ LockDiscipline' /\ \A u \in Tasks : pc'[u] # "factory"
    BY <1>1, Releasing
  <1>3. TypeOK'
    <2>1. built' \in 0..MaxBuilds /\ instance' \in 0..built' /\ 0..built \subseteq 0..built'
      BY <1>1, BuildsAssumption DEF TypeOK, BuildsAssumption
    <2>2. toClose' \in [Tasks -> 0..built'] /\ \A u \in Tasks : pc'[u] = "closing" <=> toClose'[u] # None
      BY <1>1, <2>1 DEF TypeOK
    <2>3. pc' \in [Tasks -> {"idle", "waiting", "factory", "closing"}]
      BY <1>1 DEF TypeOK
    <2> QED
      BY <1>1, <1>2, <2>1, <2>2, <2>3 DEF TypeOK
  <1>4. FactoryOnlyWhenEmpty'
    BY <1>2 DEF FactoryOnlyWhenEmpty
  <1>5. OneOwner'
    <2>1. \A u \in Tasks : toClose[u] # built + 1
      BY DEF TypeOK
    <2> QED
      BY <1>1, <2>1 DEF OneOwner
  <1> QED
    BY <1>2, <1>3, <1>4, <1>5

LEMMA FactoryRaisesKeeps == ASSUME IInv, NEW t \in Tasks, FactoryRaises(t) PROVE IInv'
  <1> USE DEF IInv
  <1>1. /\ pc[t] = "factory" /\ pc' = [pc EXCEPT ![t] = "idle"] /\ Release
        /\ locked' = FALSE /\ waiters' = waiters
        /\ UNCHANGED <<instance, built, toClose>>
    BY DEF FactoryRaises, Goto, Release
  <1>2. signaled' \in SUBSET Tasks /\ LockDiscipline' /\ \A u \in Tasks : pc'[u] # "factory"
    BY <1>1, Releasing
  <1>3. TypeOK'
    BY <1>1, <1>2 DEF TypeOK
  <1>4. FactoryOnlyWhenEmpty' /\ OneOwner'
    BY <1>1, <1>2 DEF FactoryOnlyWhenEmpty, OneOwner
  <1> QED
    BY <1>2, <1>3, <1>4

\* Steps of a closer leave the lock alone.
LEMMA ClosingKeepsLock ==
    ASSUME IInv, NEW t \in Tasks, pc[t] \in {"idle", "closing"},
           NEW where \in {"idle", "closing"}, pc' = [pc EXCEPT ![t] = where],
           UNCHANGED <<locked, waiters, signaled>>
    PROVE  LockDiscipline' /\ \A u \in Tasks : pc'[u] = "factory" <=> pc[u] = "factory"
  <1>1. \A u \in Tasks : /\ pc'[u] = "factory" <=> pc[u] = "factory"
                         /\ pc'[u] = "waiting" <=> pc[u] = "waiting"
    BY DEF IInv, TypeOK
  <1>2. Queued' = Queued
    BY DEF Queued
  <1> QED
    BY <1>1, <1>2 DEF IInv, LockDiscipline

LEMMA CloseStartKeeps == ASSUME IInv, NEW t \in Tasks, CloseStart(t) PROVE IInv'
  <1> USE DEF IInv
  <1>1. /\ pc[t] = "idle" /\ pc' = [pc EXCEPT ![t] = "closing"]
        /\ instance # None /\ instance' = None
        /\ toClose' = [toClose EXCEPT ![t] = instance]
        /\ UNCHANGED <<built, locked, waiters, signaled>>
    BY DEF CloseStart, Goto, lock
  <1>2. LockDiscipline' /\ \A u \in Tasks : pc'[u] = "factory" <=> pc[u] = "factory"
    BY <1>1, ClosingKeepsLock
  <1>3. TypeOK'
    <2>1. /\ toClose' \in [Tasks -> 0..built]
          /\ pc' \in [Tasks -> {"idle", "waiting", "factory", "closing"}]
          /\ \A u \in Tasks : pc'[u] = "closing" <=> toClose'[u] # None
      BY <1>1 DEF TypeOK
    <2>2. instance' \in 0..built
      BY <1>1 DEF TypeOK, None
    <2> QED
      BY <1>1, <2>1, <2>2 DEF TypeOK
  <1>4. FactoryOnlyWhenEmpty' /\ OneOwner'
    BY <1>1, <1>2 DEF FactoryOnlyWhenEmpty, OneOwner, TypeOK
  <1> QED
    BY <1>2, <1>3, <1>4

LEMMA CloseEndKeeps == ASSUME IInv, NEW t \in Tasks, CloseEnd(t) PROVE IInv'
  <1> USE DEF IInv
  <1>1. /\ pc[t] = "closing" /\ pc' = [pc EXCEPT ![t] = "idle"]
        /\ toClose' = [toClose EXCEPT ![t] = None]
        /\ UNCHANGED <<instance, built, locked, waiters, signaled>>
    BY DEF CloseEnd, Goto, lock
  <1>2. LockDiscipline' /\ \A u \in Tasks : pc'[u] = "factory" <=> pc[u] = "factory"
    BY <1>1, ClosingKeepsLock
  <1>3. TypeOK'
    <2>1. None \in 0..built
      BY DEF TypeOK, None
    <2>2. /\ toClose' \in [Tasks -> 0..built]
          /\ pc' \in [Tasks -> {"idle", "waiting", "factory", "closing"}]
          /\ \A u \in Tasks : pc'[u] = "closing" <=> toClose'[u] # None
      BY <1>1, <2>1 DEF TypeOK
    <2> QED
      BY <1>1, <2>2 DEF TypeOK
  <1>4. FactoryOnlyWhenEmpty' /\ OneOwner'
    BY <1>1, <1>2 DEF FactoryOnlyWhenEmpty, OneOwner, TypeOK
  <1> QED
    BY <1>2, <1>3, <1>4

LEMMA CloseNothingKeeps == ASSUME IInv, NEW t \in Tasks, CloseNothing(t) PROVE IInv'
  <1>1. UNCHANGED <<instance, built, pc, toClose, locked, waiters, signaled>>
    BY DEF CloseNothing, vars
  <1> QED
    BY <1>1 DEF IInv, TypeOK, LockDiscipline, FactoryOnlyWhenEmpty, OneOwner, Queued

-----------------------------------------------------------------------------
(* The theorems                                                            *)

LEMMA Inductive == IInv /\ [Next]_vars => IInv'
  <1> SUFFICES ASSUME IInv, [Next]_vars PROVE IInv'
    OBVIOUS
  <1>1. CASE UNCHANGED vars
    BY <1>1 DEF vars, IInv, TypeOK, LockDiscipline, FactoryOnlyWhenEmpty, OneOwner, Queued
  <1>2. ASSUME NEW t \in Tasks, GetCached(t) \/ GetBuild(t) \/ GetWait(t) PROVE IInv'
    BY <1>1, <1>2, GetBuildKeeps, GetWaitKeeps DEF GetCached
  <1>3. ASSUME NEW t \in Tasks, Granted(t) \/ CancelWaiter(t) \/ FactoryEnds(t) PROVE IInv'
    BY <1>3, LockedBuildKeeps, LockedFoundKeeps, CancelWaiterKeeps, FactoryReturnsKeeps,
       FactoryRaisesKeeps
    DEF Granted, FactoryEnds
  <1>4. ASSUME NEW t \in Tasks, CloseNothing(t) \/ CloseStart(t) \/ CloseEnd(t) PROVE IInv'
    BY <1>4, CloseNothingKeeps, CloseStartKeeps, CloseEndKeeps
  <1> QED
    BY <1>1, <1>2, <1>3, <1>4 DEF Next

\* Every variable keeps its type.
THEOREM TypeCorrect == Spec => []TypeOK
  <1>1. IInv => TypeOK
    BY DEF IInv
  <1> QED
    BY <1>1, Initially, Inductive, PTL DEF Spec

\* The asyncio lock, which hands over by signalling, excludes as a lock should.
THEOREM LockIsDisciplined == Spec => []LockDiscipline
  <1>1. IInv => LockDiscipline
    BY DEF IInv
  <1> QED
    BY <1>1, Initially, Inductive, PTL DEF Spec

\* However getters, closers, failures and cancellations interleave, the factory
\* runs alone and only while nothing is cached.
THEOREM NoSecondFactory == Spec => []FactoryOnlyWhenEmpty
  <1>1. IInv => FactoryOnlyWhenEmpty
    BY DEF IInv
  <1> QED
    BY <1>1, Initially, Inductive, PTL DEF Spec

\* What each kind of step does to the fates of the resources.
LEMMA FateKept ==
    ASSUME UNCHANGED <<instance, built, toClose>>
    PROVE  UNCHANGED <<instance, [r \in 1..MaxBuilds |-> FateOf(r)]>>
  BY DEF FateOf, Closing

LEMMA FateBuilt ==
    ASSUME IInv, NEW t \in Tasks, FactoryReturns(t)
    PROVE  Slot!Build(built + 1)
  <1>1. /\ pc[t] = "factory" /\ built < MaxBuilds /\ UNCHANGED toClose
        /\ built' = built + 1 /\ instance' = built + 1
    BY DEF FactoryReturns
  <1>2. instance = None /\ built \in Nat
    BY <1>1 DEF IInv, FactoryOnlyWhenEmpty, TypeOK
  <1>3. built + 1 \in 1..MaxBuilds /\ FateOf(built + 1) = "unbuilt"
    BY <1>1, <1>2, BuildsAssumption DEF FateOf, BuildsAssumption
  <1>4. \A u \in Tasks : toClose[u] # built + 1
    BY <1>2 DEF IInv, TypeOK
  <1>5. ASSUME NEW r \in 1..MaxBuilds
        PROVE  FateOf(r)' = IF r = built + 1 THEN "cached" ELSE FateOf(r)
    BY <1>1, <1>2, <1>4 DEF FateOf, Closing, None
  <1> QED
    BY <1>1, <1>2, <1>3, <1>5 DEF Slot!Build

LEMMA FateRetired ==
    ASSUME IInv, NEW t \in Tasks, CloseStart(t)
    PROVE  instance \in 1..MaxBuilds /\ Slot!Retire(instance)
  <1>1. /\ pc[t] = "idle" /\ instance # None /\ instance' = None /\ UNCHANGED built
        /\ toClose' = [toClose EXCEPT ![t] = instance]
    BY DEF CloseStart
  <1>2. built \in 0..MaxBuilds /\ instance \in 0..built /\ toClose[t] = None
        /\ toClose \in [Tasks -> 0..built]
    BY <1>1 DEF IInv, TypeOK
  <1>3. instance \in 1..MaxBuilds
    BY <1>1, <1>2, BuildsAssumption DEF None, BuildsAssumption
  <1>4. ASSUME NEW r \in 1..MaxBuilds
        PROVE  FateOf(r)' = IF r = instance THEN "closing" ELSE FateOf(r)
    <2>1. Closing(r)' <=> (r = instance \/ Closing(r))
      BY <1>1, <1>2 DEF Closing, None
    <2> QED
      BY <1>1, <1>2, <1>3, <2>1 DEF FateOf, None
  <1> QED
    BY <1>1, <1>3, <1>4 DEF Slot!Retire

LEMMA FateTornDown ==
    ASSUME IInv, NEW t \in Tasks, CloseEnd(t)
    PROVE  toClose[t] \in 1..MaxBuilds /\ Slot!TearDown(toClose[t])
  <1>1. /\ pc[t] = "closing" /\ UNCHANGED <<instance, built>>
        /\ toClose' = [toClose EXCEPT ![t] = None]
    BY DEF CloseEnd
  <1>2. built \in 0..MaxBuilds /\ toClose[t] # None /\ toClose \in [Tasks -> 0..built]
    BY <1>1 DEF IInv, TypeOK
  <1>3. toClose[t] \in 1..MaxBuilds /\ toClose[t] <= built
    BY <1>2, BuildsAssumption DEF None, BuildsAssumption
  <1>4. toClose[t] # instance /\ \A u \in Tasks : toClose[u] = toClose[t] => u = t
    BY <1>2 DEF IInv, OneOwner
  <1>5. FateOf(toClose[t]) = "closing"
    BY <1>2, <1>3, <1>4 DEF FateOf, Closing
  <1>6. ASSUME NEW r \in 1..MaxBuilds
        PROVE  FateOf(r)' = IF r = toClose[t] THEN "torn" ELSE FateOf(r)
    <2>1. Closing(r)' <=> (r # toClose[t] /\ Closing(r))
      BY <1>1, <1>2, <1>4 DEF Closing, None
    <2> QED
      BY <1>1, <1>2, <1>3, <1>4, <2>1 DEF FateOf
  <1> QED
    BY <1>1, <1>3, <1>5, <1>6 DEF Slot!TearDown

LEMMA SlotStep == IInv /\ [Next]_vars => [Slot!Next]_(Slot!vars)
  <1> SUFFICES ASSUME IInv, [Next]_vars PROVE [Slot!Next]_(Slot!vars)
    OBVIOUS
  <1>1. ASSUME NEW t \in Tasks, FactoryReturns(t) PROVE Slot!Next
    <2>1. built + 1 \in 1..MaxBuilds
      BY <1>1, BuildsAssumption DEF FactoryReturns, IInv, TypeOK, BuildsAssumption
    <2> QED
      BY <1>1, <2>1, FateBuilt DEF Slot!Next
  <1>2. ASSUME NEW t \in Tasks, CloseStart(t) PROVE Slot!Next
    BY <1>2, FateRetired DEF Slot!Next
  <1>3. ASSUME NEW t \in Tasks, CloseEnd(t) PROVE Slot!Next
    BY <1>3, FateTornDown DEF Slot!Next
  <1>4. CASE UNCHANGED <<instance, built, toClose>>
    BY <1>4, FateKept DEF Slot!vars
  <1> QED
    BY <1>1, <1>2, <1>3, <1>4
    DEF Next, vars, Granted, FactoryEnds, GetCached, GetBuild, GetWait, LockedBuild, LockedFound,
        CancelWaiter, FactoryRaises, CloseNothing

\* No resource leaks: the singleton implements the slot, in which a resource is
\* always unbuilt, cached, in the hands of one closer, or torn down.
THEOREM SingletonImplementsSlot == Spec => ImplementsSlot
  <1>1. Init => Slot!Init
    BY BuildsAssumption DEF Init, Slot!Init, FateOf, None, BuildsAssumption
  <1> QED
    BY <1>1, Initially, Inductive, SlotStep, PTL DEF Spec, ImplementsSlot, Slot!Spec
=============================================================================
