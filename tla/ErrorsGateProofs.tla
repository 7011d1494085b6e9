--------------------------- MODULE ErrorsGateProofs ---------------------------
(***************************************************************************)
(* Proofs about ErrorsGate, for every set of fingerprints, every rate and  *)
(* burst, every window and every table size.                               *)
(***************************************************************************)
EXTENDS ErrorsGate, FiniteSetTheorems, SequenceTheorems, TLAPS

\* The facts about products of variables that the proofs use.
LEMMA ProductOfNats == \A m, n \in Nat : m * n \in Nat
  BY SMT

LEMMA ProductOfInts == \A m, n \in Int : m * n \in Int
  BY SMT

LEMMA Distribute ==
    \A r, p, q, s \in Int : r * (p - s) = (p - q) * r + r * (q - s)
  BY SMT

LEMMA OneMore == \A k, u \in Int : (k + 1) * u = k * u + u
  BY SMT

LEMMA MoreCostsMore == \A u \in Nat : \A k, m \in Nat : k <= m => k * u <= m * u
  BY SMT

-----------------------------------------------------------------------------
(* The table                                                               *)

SeenFinite == IsFiniteSet(DOMAIN seen)

\* What is kept leaves room for one more entry.
LEMMA KeptLeavesRoom ==
    ASSUME TypeOK, SeenFinite, NEW kept \in Kept
    PROVE  /\ kept \subseteq DOMAIN seen
           /\ IsFiniteSet(kept)
           /\ Cardinality(kept) + 1 <= MaxTracked
  <1>1. MaxTracked \in Nat /\ Cardinality(DOMAIN seen) \in Nat
        /\ Cardinality(DOMAIN seen) <= MaxTracked
    BY GateAssumption, FS_CardinalityType DEF GateAssumption, TypeOK, SeenFinite
  <1>2. Unexpired \subseteq DOMAIN seen
    BY DEF Unexpired
  <1>3. /\ IsFiniteSet(Unexpired)
        /\ Cardinality(Unexpired) \in Nat
        /\ Cardinality(Unexpired) <= Cardinality(DOMAIN seen)
    BY <1>2, FS_Subset, FS_CardinalityType DEF SeenFinite
  <1>4. CASE ~ Full(DOMAIN seen)
    <2>1. kept = DOMAIN seen
      BY <1>4 DEF Kept
    <2> QED
      BY <1>1, <1>4, <2>1 DEF Full, SeenFinite
  <1>5. CASE Full(DOMAIN seen) /\ ~ Full(Unexpired)
    <2>1. kept = Unexpired
      BY <1>5 DEF Kept
    <2> QED
      BY <1>1, <1>2, <1>3, <1>5, <2>1 DEF Full
  <1>6. CASE Full(DOMAIN seen) /\ Full(Unexpired)
    <2>1. PICK k \in Oldest(Unexpired) : kept = Unexpired \ {k}
      BY <1>6 DEF Kept
    <2>2. k \in Unexpired
      BY DEF Oldest
    <2>3. IsFiniteSet(kept) /\ Cardinality(kept) = Cardinality(Unexpired) - 1
      BY <1>3, <2>1, <2>2, FS_RemoveElement
    <2> QED
      BY <1>1, <1>2, <1>3, <2>1, <2>3
  <1> QED
    BY <1>4, <1>5, <1>6

\* The table after an admission.
LEMMA EnteredTable ==
    ASSUME TypeOK, SeenFinite, NEW k \in Keys, NEW kept \in Kept,
           seen' = Entered(k, kept)
    PROVE  /\ DOMAIN seen' = kept \cup {k}
           /\ seen'[k] = clock
           /\ \A j \in kept : j # k => seen'[j] = seen[j]
           /\ IsFiniteSet(DOMAIN seen')
           /\ Cardinality(DOMAIN seen') <= MaxTracked
  <1>1. /\ IsFiniteSet(kept) /\ Cardinality(kept) \in Nat
        /\ Cardinality(kept) + 1 <= MaxTracked
    BY KeptLeavesRoom, FS_CardinalityType
  <1>2. MaxTracked \in Nat
    BY GateAssumption DEF GateAssumption
  <1>3. DOMAIN seen' = kept \cup {k}
    BY DEF Entered
  <1>4. IsFiniteSet(kept \cup {k})
        /\ Cardinality(kept \cup {k}) = IF k \in kept THEN Cardinality(kept) ELSE Cardinality(kept) + 1
    BY <1>1, FS_AddElement
  <1>5. seen'[k] = clock /\ \A j \in kept : j # k => seen'[j] = seen[j]
    BY DEF Entered
  <1> QED
    BY <1>1, <1>2, <1>3, <1>4, <1>5

-----------------------------------------------------------------------------
(* Type correctness                                                        *)

\* A refill moves the bucket up to the burst and no further.
LEMMA RefillUp ==
    ASSUME TypeOK
    PROVE  /\ Refilled \in 0..Burst
           /\ Refilled <= tokens + (clock - lastRefill) * Rate
  <1>1. (clock - lastRefill) * Rate \in Nat
    <2>1. clock - lastRefill \in Nat /\ Rate \in Nat
      BY GateAssumption DEF TypeOK, GateAssumption
    <2> QED
      BY <2>1, ProductOfNats
  <1>2. tokens \in 0..Burst /\ Burst \in Nat
    BY GateAssumption DEF TypeOK, GateAssumption
  <1> QED
    BY <1>1, <1>2 DEF Refilled

Typed == TypeOK /\ SeenFinite

LEMMA TypedInit == Init => Typed
  <1> SUFFICES ASSUME Init PROVE Typed
    OBVIOUS
  <1>1. DOMAIN seen = {}
    BY DEF Init
  <1>2. IsFiniteSet(DOMAIN seen) /\ Cardinality(DOMAIN seen) = 0
    BY <1>1, FS_EmptySet
  <1> QED
    BY <1>1, <1>2, GateAssumption DEF GateAssumption, Init, Typed, TypeOK, SeenFinite, Never

\* Counting a drop keeps the accounting's types.
LEMMA CountDropTypes ==
    ASSUME TypeOK, CountDrop
    PROVE  /\ drops' \in Seq(Nat)
           /\ dropped' \in Nat
           /\ lastDropLog' \in Nat \cup {Never}
           /\ logs' \in Seq([at : Nat, count : Nat, upto : Nat])
  <1>1. clock \in Nat /\ drops' \in Seq(Nat) /\ Len(drops) + 1 \in Nat /\ dropped + 1 \in Nat
    BY DEF TypeOK, CountDrop
  <1> DEFINE entry == [at |-> clock, count |-> dropped + 1, upto |-> Len(drops) + 1]
  <1>2. entry \in [at : Nat, count : Nat, upto : Nat]
    BY <1>1
  <1>3. logs' = logs \/ logs' = Append(logs, entry)
    BY DEF CountDrop
  <1> DEFINE Logs == [at : Nat, count : Nat, upto : Nat]
  <1>4. logs' \in Seq(Logs)
    <2>1. logs \in Seq(Logs) /\ entry \in Logs
      BY <1>2 DEF TypeOK
    <2> HIDE DEF entry, Logs
    <2> QED
      BY <1>3, <2>1
  <1>5. dropped' \in Nat /\ lastDropLog' \in Nat \cup {Never}
    BY <1>1 DEF TypeOK, CountDrop, ResetCount
  <1> QED
    BY <1>1, <1>4, <1>5

LEMMA TypedNext == Typed /\ [Next]_vars => Typed'
  <1> SUFFICES ASSUME Typed, [Next]_vars PROVE Typed'
    OBVIOUS
  <1>t. TypeOK /\ SeenFinite
    BY DEF Typed
  <1>r. Refilled \in 0..Burst /\ Burst \in Nat /\ Unit \in Nat
    BY <1>t, RefillUp, GateAssumption DEF GateAssumption
  <1>1. ASSUME NEW k \in Keys, DropDuplicate(k) PROVE Typed'
    <2>1. CountDrop /\ UNCHANGED <<clock, tokens, lastRefill, seen, admits>>
      BY <1>1 DEF DropDuplicate
    <2> QED
      BY <1>t, <2>1, CountDropTypes DEF Typed, TypeOK, SeenFinite
  <1>2. ASSUME NEW k \in Keys, DropOverBudget(k) PROVE Typed'
    <2>1. CountDrop /\ tokens' = Refilled /\ lastRefill' = clock /\ UNCHANGED <<clock, seen, admits>>
      BY <1>2 DEF DropOverBudget
    <2>2. \A j \in DOMAIN seen : seen[j] \in 0..clock
      BY <1>t DEF TypeOK
    <2> QED
      BY <1>t, <1>r, <2>1, <2>2, CountDropTypes DEF Typed, TypeOK, SeenFinite
  <1>3. ASSUME NEW k \in Keys, Admit(k) PROVE Typed'
    <2>1. /\ tokens' = Refilled - Unit /\ lastRefill' = clock /\ Refilled >= Unit
          /\ admits' = Append(admits, [key |-> k, at |-> clock])
          /\ UNCHANGED <<clock, dropped, lastDropLog, drops, logs>>
      BY <1>3 DEF Admit, HasToken
    <2>2. PICK kept \in Kept : seen' = Entered(k, kept)
      BY <1>3 DEF Admit
    <2>3. /\ DOMAIN seen' = kept \cup {k} /\ seen'[k] = clock
          /\ \A j \in kept : j # k => seen'[j] = seen[j]
          /\ IsFiniteSet(DOMAIN seen') /\ Cardinality(DOMAIN seen') <= MaxTracked
      BY <1>t, <2>2, EnteredTable
    <2>4. kept \subseteq DOMAIN seen /\ DOMAIN seen \subseteq Keys
      BY <1>t, KeptLeavesRoom DEF TypeOK
    <2>5. \A j \in DOMAIN seen' : seen'[j] \in 0..clock
      BY <1>t, <2>3, <2>4 DEF TypeOK
    <2>6. admits' \in Seq([key : Keys, at : Nat])
      <3>1. [key |-> k, at |-> clock] \in [key : Keys, at : Nat]
        BY <1>t DEF TypeOK
      <3> QED
        BY <1>t, <2>1, <3>1 DEF TypeOK
    <2>7. tokens' \in 0..Burst
      BY <1>r, <2>1
    <2> QED
      BY <1>t, <2>1, <2>3, <2>4, <2>5, <2>6, <2>7 DEF Typed, TypeOK, SeenFinite
  <1>4. CASE Tick
    BY <1>4, <1>t DEF Tick, Typed, TypeOK, SeenFinite
  <1>5. CASE UNCHANGED vars
    BY <1>5, <1>t DEF vars, Typed, TypeOK, SeenFinite
  <1> QED
    BY <1>1, <1>2, <1>3, <1>4, <1>5 DEF Next

\* Whatever the records, the bucket stays between empty and full and the table
\* of fingerprints never outgrows its capacity.
THEOREM TypeCorrect == Spec => []TypeOK
  <1>1. Typed => TypeOK
    BY DEF Typed
  <1> QED
    BY <1>1, TypedInit, TypedNext, PTL DEF Spec
-----------------------------------------------------------------------------
(* The admission bound                                                     *)

\* What the window from time a has left at time s after n admissions in it.
Left(n, a, s) == Burst + Rate * (s - a) - n * Unit

\* The windows the past admissions opened still have the bucket's level left.
AdmitsFitBudget ==
    \A i \in 1..Len(admits) :
        /\ admits[i].at <= lastRefill
        /\ tokens <= Left(Len(admits) - i + 1, admits[i].at, lastRefill)

LEMMA LeftGrows ==
    ASSUME NEW n \in Int, NEW a \in Int, NEW s \in Int, NEW p \in Int
    PROVE  /\ Left(n, a, p) \in Int
           /\ Left(n, a, s) = Left(n, a, p) + (s - p) * Rate
           /\ Left(n + 1, a, s) = Left(n, a, s) - Unit
  <1>1. Rate \in Int /\ Burst \in Int /\ Unit \in Int
    BY GateAssumption DEF GateAssumption
  <1>2. Rate * (s - a) = (s - p) * Rate + Rate * (p - a) /\ (n + 1) * Unit = n * Unit + Unit
    BY <1>1, Distribute, OneMore
  <1>3. /\ s - a \in Int /\ p - a \in Int /\ s - p \in Int
        /\ Rate * (s - a) \in Int /\ Rate * (p - a) \in Int
        /\ (s - p) * Rate \in Int /\ n * Unit \in Int
    BY <1>1, ProductOfInts
  <1> QED
    BY <1>1, <1>2, <1>3 DEF Left

\* Refilling keeps the level under what the windows have left.
LEMMA RefillFits ==
    ASSUME TypeOK, NEW n \in Int, NEW a \in Int,
           tokens <= Left(n, a, lastRefill)
    PROVE  Refilled <= Left(n, a, clock)
  <1>1. clock \in Int /\ lastRefill \in Int /\ tokens \in Int /\ Rate \in Int
    BY GateAssumption DEF GateAssumption, TypeOK
  <1>2. /\ Left(n, a, lastRefill) \in Int
        /\ Left(n, a, clock) = Left(n, a, lastRefill) + (clock - lastRefill) * Rate
    BY <1>1, LeftGrows
  <1>3. (clock - lastRefill) * Rate \in Int
    BY <1>1, ProductOfInts
  <1>4. Refilled <= tokens + (clock - lastRefill) * Rate /\ Refilled \in Int
    BY <1>1, RefillUp, GateAssumption DEF GateAssumption
  <1> QED
    BY <1>1, <1>2, <1>3, <1>4

Bounded == AdmitsFitBudget /\ AdmissionBound

LEMMA EntryTypes ==
    ASSUME NEW h \in Seq([key : Keys, at : Nat])
    PROVE  /\ Len(h) \in Nat
           /\ \A i \in 1..Len(h) : h[i].at \in Nat /\ h[i].key \in Keys
  <1>1. \A i \in 1..Len(h) : h[i] \in [key : Keys, at : Nat]
    <2> DEFINE Entry == [key : Keys, at : Nat]
    <2>1. h \in Seq(Entry)
      OBVIOUS
    <2>2. \A i \in 1..Len(h) : h[i] \in Entry
      <3> HIDE DEF Entry
      <3> QED
        BY <2>1, ElementOfSeq
    <2> QED
      BY <2>2
  <1> QED
    BY <1>1

LEMMA BoundedNext == Typed /\ Bounded /\ [Next]_vars => Bounded'
  <1> SUFFICES ASSUME Typed, Bounded, [Next]_vars PROVE Bounded'
    OBVIOUS
  <1>t. TypeOK /\ TypeOK'
    BY TypedNext DEF Typed
  <1>c. clock \in Nat /\ lastRefill \in Nat /\ lastRefill <= clock /\ Unit \in Nat
        /\ Burst \in Nat
    BY <1>t, GateAssumption DEF GateAssumption, TypeOK
  <1>e. /\ Len(admits) \in Nat /\ \A i \in 1..Len(admits) : admits[i].at \in Nat
        /\ Len(admits') \in Nat /\ \A i \in 1..Len(admits') : admits'[i].at \in Nat
    BY <1>t, EntryTypes DEF TypeOK
  <1>i. \A i \in 1..Len(admits) : admits[i].at \in Int /\ Len(admits) - i + 1 \in Int
    BY <1>e
  <1>f. \A i \in 1..Len(admits) :
          Refilled <= Left(Len(admits) - i + 1, admits[i].at, clock)
    BY <1>t, <1>i, RefillFits DEF Bounded, AdmitsFitBudget
  <1>1. ASSUME UNCHANGED <<admits, tokens, lastRefill>> PROVE Bounded'
    BY <1>1 DEF Bounded, AdmitsFitBudget, AdmissionBound, Left
  <1>2. ASSUME NEW k \in Keys, DropOverBudget(k) PROVE Bounded'
    <2>1. UNCHANGED admits /\ tokens' = Refilled /\ lastRefill' = clock
      BY <1>2 DEF DropOverBudget
    <2>2. AdmissionBound'
      BY <2>1 DEF Bounded, AdmissionBound
    <2>3. \A i \in 1..Len(admits) :
            admits[i].at <= clock /\ tokens' <= Left(Len(admits) - i + 1, admits[i].at, clock)
      BY <1>c, <1>e, <1>f, <2>1 DEF Bounded, AdmitsFitBudget
    <2>4. AdmitsFitBudget'
      BY <2>1, <2>3 DEF AdmitsFitBudget, Left
    <2> QED
      BY <2>2, <2>4 DEF Bounded
  <1>3. ASSUME NEW k \in Keys, Admit(k) PROVE Bounded'
    <2> DEFINE entry == [key |-> k, at |-> clock]
    <2>1. /\ admits' = Append(admits, entry) /\ lastRefill' = clock
          /\ tokens' = Refilled - Unit /\ Refilled >= Unit
      BY <1>3 DEF Admit, HasToken
    <2>2. Refilled \in Nat /\ Refilled <= Burst
      BY <1>t, <1>c, RefillUp
    <2>3. /\ Len(admits') = Len(admits) + 1 /\ Len(admits) \in Nat
          /\ admits'[Len(admits) + 1].at = clock
          /\ \A i \in 1..Len(admits) : admits'[i] = admits[i]
      BY <1>t, <2>1 DEF TypeOK
    <2>4. \A i \in 1..Len(admits) :
            tokens' <= Left(Len(admits) - i + 2, admits[i].at, clock)
      <3> SUFFICES ASSUME NEW i \in 1..Len(admits)
                   PROVE  tokens' <= Left(Len(admits) - i + 2, admits[i].at, clock)
        OBVIOUS
      <3>1. admits[i].at \in Int /\ Len(admits) - i + 1 \in Int /\ clock \in Int
        BY <1>i, <1>c
      <3>2. /\ Left(Len(admits) - i + 1, admits[i].at, clock) \in Int
            /\ Left((Len(admits) - i + 1) + 1, admits[i].at, clock)
                 = Left(Len(admits) - i + 1, admits[i].at, clock) - Unit
        BY <3>1, LeftGrows
      <3>3. (Len(admits) - i + 1) + 1 = Len(admits) - i + 2
        BY <2>3
      <3>4. Refilled <= Left(Len(admits) - i + 1, admits[i].at, clock)
        BY <1>f
      <3> QED
        BY <1>c, <2>1, <2>2, <3>2, <3>3, <3>4
    <2>5. tokens' <= Left(1, clock, clock)
      <3>1. Rate * (clock - clock) = 0 /\ 1 * Unit = Unit
        BY <1>c, GateAssumption DEF GateAssumption
      <3> QED
        BY <1>c, <2>1, <2>2, <3>1 DEF Left
    <2>6. \A i \in 1..Len(admits') :
            /\ admits'[i].at <= clock
            /\ tokens' <= Left(Len(admits') - i + 1, admits'[i].at, clock)
      <3> SUFFICES ASSUME NEW i \in 1..Len(admits')
                   PROVE  /\ admits'[i].at <= clock
                          /\ tokens' <= Left(Len(admits') - i + 1, admits'[i].at, clock)
        OBVIOUS
      <3>1. CASE i \in 1..Len(admits)
        <4>1. Len(admits') - i + 1 = Len(admits) - i + 2 /\ admits'[i] = admits[i]
          BY <2>3, <3>1
        <4>2. admits[i].at <= clock
          BY <1>c, <1>i, <3>1 DEF Bounded, AdmitsFitBudget
        <4> QED
          BY <2>4, <3>1, <4>1, <4>2
      <3>2. CASE i = Len(admits) + 1
        <4>1. Len(admits') - i + 1 = 1 /\ admits'[i].at = clock
          BY <2>3, <3>2
        <4> QED
          BY <1>c, <2>5, <4>1
      <3> QED
        BY <2>3, <3>1, <3>2
    <2>7. AdmitsFitBudget'
      BY <2>1, <2>6 DEF AdmitsFitBudget, Left
    <2>8. AdmissionBound'
      <3> SUFFICES ASSUME NEW i \in 1..Len(admits'), NEW j \in i..Len(admits')
                   PROVE  (j - i + 1) * Unit
                            <= Burst + Rate * (admits'[j].at - admits'[i].at)
        BY DEF AdmissionBound
      <3>1. CASE j \in 1..Len(admits)
        <4>1. i \in 1..Len(admits) /\ j \in i..Len(admits)
          BY <2>3, <3>1
        <4>2. (j - i + 1) * Unit <= Burst + Rate * (admits[j].at - admits[i].at)
          BY <4>1 DEF Bounded, AdmissionBound
        <4>3. admits'[i] = admits[i] /\ admits'[j] = admits[j]
          BY <2>3, <3>1, <4>1
        <4> QED
          BY <4>2, <4>3
      <3>2. CASE j = Len(admits) + 1
        <4>1. 0 <= Left(Len(admits') - i + 1, admits'[i].at, clock)
          <5>1. tokens' \in Nat
            BY <1>c, <2>1, <2>2
          <5>2. tokens' <= Left(Len(admits') - i + 1, admits'[i].at, clock)
            BY <2>6
          <5>3. Len(admits') - i + 1 \in Int /\ admits'[i].at \in Int /\ clock \in Int
            BY <1>e, <1>c
          <5>4. Left(Len(admits') - i + 1, admits'[i].at, clock) \in Int
            BY <5>3, LeftGrows
          <5> QED
            BY <5>1, <5>2, <5>4
        <4>2. j = Len(admits') /\ admits'[j].at = clock
          BY <2>3, <3>2
        <4>3. j - i + 1 \in Int /\ admits'[i].at \in Int /\ Rate \in Int
          BY <1>e, <4>2, GateAssumption DEF GateAssumption
        <4>4. (j - i + 1) * Unit \in Int /\ Rate * (clock - admits'[i].at) \in Int
          BY <1>c, <4>3, ProductOfInts
        <4> QED
          BY <1>c, <4>1, <4>2, <4>4 DEF Left
      <3> QED
        BY <2>3, <3>1, <3>2
    <2> QED
      BY <2>7, <2>8 DEF Bounded
  <1>4. ASSUME NEW k \in Keys, DropDuplicate(k) PROVE Bounded'
    BY <1>1, <1>4 DEF DropDuplicate
  <1> QED
    BY <1>1, <1>2, <1>3, <1>4 DEF Next, Tick, vars

LEMMA BoundedInit == Init => Bounded
  BY DEF Init, Bounded, AdmitsFitBudget, AdmissionBound

\* The events sent between any two of them fit the burst plus the ceiling's
\* rate, for every rate, burst, window and table size.
THEOREM BoundHolds == Spec => []AdmissionBound
  <1>1. Bounded => AdmissionBound
    BY DEF Bounded
  <1> QED
    BY <1>1, TypedInit, TypedNext, BoundedInit, BoundedNext, PTL DEF Spec

-----------------------------------------------------------------------------
(* The dedupe window                                                       *)

LEMMA EnteredFinite ==
    ASSUME SeenFinite, NEW s
    PROVE  IsFiniteSet(EnteredSince(s)) /\ Cardinality(EnteredSince(s)) \in Nat
  <1>1. EnteredSince(s) \subseteq DOMAIN seen
    BY DEF EnteredSince
  <1> QED
    BY <1>1, FS_Subset, FS_CardinalityType DEF SeenFinite

\* One admission adds at most its own fingerprint to those entered since s.
LEMMA EntersOne ==
    ASSUME Typed, Typed', NEW k \in Keys, NEW kept \in Kept, NEW s \in Nat,
           seen' = Entered(k, kept)
    PROVE  Cardinality(EnteredSince(s)') <= Cardinality(EnteredSince(s)) + 1
  <1> DEFINE old == EnteredSince(s)
             new == {j \in DOMAIN seen' : seen'[j] >= s}
  <1>1. /\ DOMAIN seen' = kept \cup {k} /\ kept \subseteq DOMAIN seen
        /\ \A j \in kept : j # k => seen'[j] = seen[j]
    BY EnteredTable, KeptLeavesRoom DEF Typed
  <1>2. new \subseteq old \cup {k}
    BY <1>1 DEF EnteredSince
  <1>3. /\ IsFiniteSet(old) /\ Cardinality(old) \in Nat
    BY EnteredFinite DEF Typed
  <1> HIDE DEF old, new
  <1>4. IsFiniteSet(old \cup {k}) /\ Cardinality(old \cup {k}) \in Nat
        /\ Cardinality(old \cup {k}) <= Cardinality(old) + 1
    <2>1. IsFiniteSet(old \cup {k})
          /\ Cardinality(old \cup {k}) = IF k \in old THEN Cardinality(old) ELSE Cardinality(old) + 1
      BY <1>3, FS_AddElement
    <2> QED
      BY <1>3, <2>1
  <1>5. Cardinality(new) <= Cardinality(old \cup {k}) /\ Cardinality(new) \in Nat
    BY <1>2, <1>4, FS_Subset, FS_CardinalityType
  <1>6. Cardinality(new) <= Cardinality(old) + 1
    BY <1>3, <1>4, <1>5
  <1> QED
    BY <1>6 DEF old, new, EnteredSince

\* TableFitsBudget after a refill, read at the clock.
LEMMA RefillFitsTable ==
    ASSUME Typed, TableFitsBudget, NEW s \in 0..clock
    PROVE  Cardinality(EnteredSince(s)) * Unit + Refilled <= Burst + Rate * (clock - s)
  <1>t. TypeOK /\ SeenFinite
    BY DEF Typed
  <1>1. /\ Rate \in Nat /\ Burst \in Nat /\ Unit \in Nat /\ clock \in Nat
        /\ lastRefill \in Nat /\ tokens \in Nat /\ lastRefill <= clock
    BY <1>t, GateAssumption DEF GateAssumption, TypeOK
  <1>2. Refilled \in Nat /\ Refilled <= Burst
        /\ Refilled <= tokens + (clock - lastRefill) * Rate
    BY <1>t, <1>1, RefillUp
  <1> DEFINE n == Cardinality(EnteredSince(s))
  <1>3. n \in Nat
    BY <1>t, EnteredFinite
  <1>4. CASE s <= lastRefill
    <2>1. n * Unit + tokens <= Burst + Rate * (lastRefill - s)
      BY <1>1, <1>4 DEF TableFitsBudget
    <2> HIDE DEF n
    <2>2. Rate * (clock - s) = (clock - lastRefill) * Rate + Rate * (lastRefill - s)
      BY <1>1, Distribute
    <2>3. /\ n * Unit \in Int /\ Rate * (clock - s) \in Int
          /\ (clock - lastRefill) * Rate \in Int /\ Rate * (lastRefill - s) \in Int
      BY <1>1, <1>3, ProductOfInts
    <2>4. n * Unit + Refilled <= Burst + Rate * (clock - s)
      BY <1>1, <1>2, <2>1, <2>2, <2>3
    <2> QED
      BY <2>4 DEF n
  <1>5. CASE s > lastRefill
    <2>1. EnteredSince(s) = {}
      BY <1>t, <1>1, <1>5 DEF TypeOK, EnteredSince
    <2>2. n = 0
      BY <2>1, FS_EmptySet
    <2>3. Rate * (clock - s) \in Nat
      BY <1>1, ProductOfNats
    <2>4. n * Unit = 0
      BY <1>1, <2>2
    <2> QED
      BY <1>1, <1>2, <2>3, <2>4
  <1> QED
    BY <1>1, <1>4, <1>5

LEMMA TableNext == Typed /\ TableFitsBudget /\ [Next]_vars => TableFitsBudget'
  <1> SUFFICES ASSUME Typed, TableFitsBudget, [Next]_vars PROVE TableFitsBudget'
    OBVIOUS
  <1>t. Typed'
    BY TypedNext
  <1>c. /\ clock \in Nat /\ Unit \in Nat /\ Burst \in Nat /\ Rate \in Nat
        /\ Refilled \in Nat
    BY RefillUp, GateAssumption DEF GateAssumption, Typed, TypeOK
  <1>1. ASSUME UNCHANGED <<seen, tokens, lastRefill>> PROVE TableFitsBudget'
    BY <1>1 DEF TableFitsBudget, EnteredSince
  <1>2. ASSUME NEW k \in Keys, DropOverBudget(k) PROVE TableFitsBudget'
    <2>1. UNCHANGED seen /\ tokens' = Refilled /\ lastRefill' = clock
      BY <1>2 DEF DropOverBudget
    <2>2. \A s \in 0..clock :
            Cardinality(EnteredSince(s)) * Unit + Refilled <= Burst + Rate * (clock - s)
      BY RefillFitsTable
    <2> QED
      BY <2>1, <2>2 DEF TableFitsBudget, EnteredSince
  <1>3. ASSUME NEW k \in Keys, Admit(k) PROVE TableFitsBudget'
    <2>1. PICK kept \in Kept : seen' = Entered(k, kept)
      BY <1>3 DEF Admit
    <2>2. tokens' = Refilled - Unit /\ lastRefill' = clock
      BY <1>3 DEF Admit
    <2> SUFFICES ASSUME NEW s \in 0..clock
                 PROVE  Cardinality({j \in DOMAIN seen' : seen'[j] >= s}) * Unit + tokens'
                          <= Burst + Rate * (clock - s)
      BY <2>2 DEF TableFitsBudget, EnteredSince
    <2> DEFINE m == Cardinality({j \in DOMAIN seen' : seen'[j] >= s})
               n == Cardinality(EnteredSince(s))
    <2>3. n \in Nat /\ s \in Nat
      BY <1>c, EnteredFinite DEF Typed
    <2>4. m <= n + 1
      BY <1>t, <2>1, <2>3, EntersOne DEF EnteredSince
    <2>5. m \in Nat
      <3>1. IsFiniteSet(DOMAIN seen')
        BY <1>t DEF Typed, SeenFinite
      <3> QED
        BY <3>1, FS_Subset, FS_CardinalityType
    <2>6. n * Unit + Refilled <= Burst + Rate * (clock - s)
      BY RefillFitsTable
    <2> HIDE DEF m, n
    <2>7. m * Unit <= n * Unit + Unit
      BY <1>c, <2>3, <2>4, <2>5, MoreCostsMore, OneMore
    <2>8. m * Unit \in Int /\ n * Unit \in Int /\ Rate * (clock - s) \in Int
      BY <1>c, <2>3, <2>5, ProductOfInts
    <2>9. m * Unit + tokens' <= Burst + Rate * (clock - s)
      BY <1>c, <2>2, <2>6, <2>7, <2>8
    <2> QED
      BY <2>9 DEF m
  <1>4. ASSUME NEW k \in Keys, DropDuplicate(k) PROVE TableFitsBudget'
    BY <1>1, <1>4 DEF DropDuplicate
  <1> QED
    BY <1>1, <1>2, <1>3, <1>4 DEF Next, Tick, vars

LEMMA TableInit == Init => TableFitsBudget
  <1> SUFFICES ASSUME Init, NEW s \in 0..lastRefill
               PROVE  Cardinality(EnteredSince(s)) * Unit + tokens
                        <= Burst + Rate * (lastRefill - s)
    BY DEF TableFitsBudget
  <1>1. s = 0 /\ lastRefill = 0 /\ tokens = Burst /\ EnteredSince(s) = {}
    BY DEF Init, EnteredSince
  <1>2. Cardinality(EnteredSince(s)) = 0
    BY <1>1, FS_EmptySet
  <1>3. Unit \in Nat /\ Rate \in Nat /\ Burst \in Nat
    BY GateAssumption DEF GateAssumption
  <1>4. Cardinality(EnteredSince(s)) * Unit = 0 /\ Rate * (lastRefill - s) = 0
    BY <1>1, <1>2, <1>3
  <1> QED
    BY <1>1, <1>3, <1>4

\* With a table that holds what the bucket admits in a window, whatever must
\* be evicted has expired: were the table full of open windows, their tokens
\* and the one this admission takes would exceed the window's budget.
LEMMA EvictsExpired ==
    ASSUME CapacitySuffices, Typed, TableFitsBudget
    PROVE  NoEarlyEviction
  <1> SUFFICES ASSUME HasToken, NEW kept \in Kept PROVE Unexpired \subseteq kept
    BY DEF NoEarlyEviction
  <1>t. TypeOK /\ SeenFinite
    BY DEF Typed
  <1>c. /\ clock \in Nat /\ Unit \in Nat /\ Burst \in Nat /\ Rate \in Nat
        /\ Window \in Nat /\ MaxTracked \in Nat /\ Refilled \in Nat /\ Refilled >= Unit
    BY <1>t, RefillUp, GateAssumption DEF GateAssumption, TypeOK, HasToken
  <1>1. CASE ~ Full(DOMAIN seen) \/ ~ Full(Unexpired)
    BY <1>1 DEF Kept, Unexpired
  <1>2. ASSUME Full(Unexpired) PROVE FALSE
    <2> DEFINE s == IF clock >= Window THEN clock - Window ELSE 0
               n == Cardinality(EnteredSince(s))
               m == Cardinality(Unexpired)
    <2>1. s \in 0..clock /\ clock - s <= Window
      BY <1>c
    <2>2. Unexpired \subseteq EnteredSince(s)
      BY <1>t, <1>c DEF Unexpired, EnteredSince, Fresh, TypeOK
    <2>3. n \in Nat /\ m \in Nat /\ m <= n
      BY <1>t, <2>2, EnteredFinite, FS_Subset, FS_CardinalityType
    <2>4. MaxTracked <= m
      BY <1>2 DEF Full
    <2>5. n * Unit + Refilled <= Burst + Rate * (clock - s)
      BY <2>1, RefillFitsTable
    <2>6. Rate * (clock - s) <= Rate * Window
      <3>1. clock - s \in Nat
        BY <1>c, <2>1
      <3>2. (clock - s) * Rate <= Window * Rate
        BY <1>c, <2>1, <3>1, MoreCostsMore
      <3> HIDE DEF s
      <3>3. (clock - s) * Rate = Rate * (clock - s) /\ Window * Rate = Rate * Window
        BY <1>c, <3>1
      <3> QED
        BY <3>2, <3>3
    <2>7. MaxTracked * Unit <= n * Unit
      BY <1>c, <2>3, <2>4, MoreCostsMore
    <2>8. (MaxTracked + 1) * Unit = MaxTracked * Unit + Unit
      BY <1>c, OneMore
    <2>9. Burst + Rate * Window < (MaxTracked + 1) * Unit
      BY DEF CapacitySuffices
    <2> HIDE DEF s, n, m
    <2>10. /\ n * Unit \in Int /\ MaxTracked * Unit \in Int
           /\ Rate * (clock - s) \in Int /\ Rate * Window \in Int
      BY <1>c, <2>1, <2>3, ProductOfInts
    <2> QED
      BY <1>c, <2>5, <2>6, <2>7, <2>8, <2>9, <2>10
  <1> QED
    BY <1>1, <1>2

\* No eviction ever closes a dedupe window early, for every rate, burst and
\* window whose budget the table can hold.
THEOREM TableKeepsWindows ==
    ASSUME CapacitySuffices
    PROVE  Spec => []NoEarlyEviction
  <1>1. Typed /\ TableFitsBudget => NoEarlyEviction
    BY EvictsExpired
  <1> QED
    BY <1>1, TypedInit, TypedNext, TableInit, TableNext, PTL DEF Spec

Deduped == (\A i \in 1..Len(admits) : admits[i].at <= lastRefill)
           /\ OpenWindowsRemembered /\ DedupeExact

LEMMA DedupedNext ==
    Typed /\ NoEarlyEviction /\ Deduped /\ [Next]_vars => Deduped'
  <1> SUFFICES ASSUME Typed, NoEarlyEviction, Deduped, [Next]_vars PROVE Deduped'
    OBVIOUS
  <1>c. clock \in Nat /\ lastRefill \in Nat /\ lastRefill <= clock /\ Window \in Nat
    BY GateAssumption DEF GateAssumption, Typed, TypeOK
  <1>e. /\ Len(admits) \in Nat
        /\ \A i \in 1..Len(admits) : admits[i].at \in Nat /\ admits[i].key \in Keys
    BY EntryTypes DEF Typed, TypeOK
  <1>s. \A j \in DOMAIN seen : seen[j] \in Nat /\ seen[j] <= clock
    BY <1>c DEF Typed, TypeOK
  <1>1. ASSUME UNCHANGED <<admits, seen, lastRefill>>, clock' \in Nat, clock' >= clock
        PROVE  Deduped'
    <2>1. \A i \in 1..Len(admits) :
            clock' - admits[i].at < Window => clock - admits[i].at < Window
      BY <1>1, <1>c, <1>e
    <2> QED
      BY <1>1, <2>1 DEF Deduped, OpenWindowsRemembered, Remembers, DedupeExact
  <1>2. ASSUME NEW k \in Keys, DropOverBudget(k) PROVE Deduped'
    <2>1. UNCHANGED <<clock, seen, admits>> /\ lastRefill' = clock
      BY <1>2 DEF DropOverBudget
    <2>2. \A i \in 1..Len(admits) : admits[i].at <= clock
      BY <1>c, <1>e DEF Deduped
    <2> QED
      BY <2>1, <2>2 DEF Deduped, OpenWindowsRemembered, Remembers, DedupeExact
  <1>3. ASSUME NEW k \in Keys, Admit(k) PROVE Deduped'
    <2> DEFINE entry == [key |-> k, at |-> clock]
    <2>1. PICK kept \in Kept : seen' = Entered(k, kept)
      BY <1>3 DEF Admit
    <2>2. /\ HasToken /\ ~ Duplicate(k) /\ lastRefill' = clock /\ clock' = clock
          /\ admits' = Append(admits, entry)
      BY <1>3 DEF Admit
    <2>3. /\ DOMAIN seen' = kept \cup {k} /\ seen'[k] = clock
          /\ \A j \in kept : j # k => seen'[j] = seen[j]
      BY <2>1, EnteredTable DEF Typed
    <2>4. Unexpired \subseteq kept
      BY <2>2 DEF NoEarlyEviction
    <2>5. /\ Len(admits') = Len(admits) + 1
          /\ admits'[Len(admits) + 1].at = clock /\ admits'[Len(admits) + 1].key = k
          /\ \A i \in 1..Len(admits) : admits'[i] = admits[i]
      BY <1>e, <2>2 DEF Typed, TypeOK
    <2>6. \A i \in 1..Len(admits) :
            clock - admits[i].at < Window
              => /\ admits[i].key \in Unexpired /\ seen[admits[i].key] >= admits[i].at
                 /\ admits[i].key # k
      <3> SUFFICES ASSUME NEW i \in 1..Len(admits), clock - admits[i].at < Window
                   PROVE  /\ admits[i].key \in Unexpired /\ seen[admits[i].key] >= admits[i].at
                          /\ admits[i].key # k
        OBVIOUS
      <3>1. admits[i].key \in DOMAIN seen /\ seen[admits[i].key] >= admits[i].at
        BY DEF Deduped, OpenWindowsRemembered, Remembers
      <3>2. Fresh(seen[admits[i].key])
        BY <1>c, <1>e, <1>s, <3>1 DEF Fresh
      <3> QED
        BY <2>2, <3>1, <3>2 DEF Unexpired, Duplicate
    <2>7. \A i \in 1..Len(admits') : admits'[i].at <= clock
      BY <1>c, <1>e, <2>5 DEF Deduped
    <2>8. \A i \in 1..Len(admits') :
            clock - admits'[i].at < Window
              => admits'[i].key \in DOMAIN seen' /\ seen'[admits'[i].key] >= admits'[i].at
      <3> SUFFICES ASSUME NEW i \in 1..Len(admits'), clock - admits'[i].at < Window
                   PROVE  admits'[i].key \in DOMAIN seen' /\ seen'[admits'[i].key] >= admits'[i].at
        OBVIOUS
      <3>1. CASE i \in 1..Len(admits)
        BY <2>3, <2>4, <2>5, <2>6, <3>1
      <3>2. CASE i = Len(admits) + 1
        BY <1>c, <2>3, <2>5, <3>2
      <3> QED
        BY <1>e, <2>5, <3>1, <3>2
    <2>9. OpenWindowsRemembered'
      BY <2>2, <2>8 DEF OpenWindowsRemembered, Remembers
    <2>10. DedupeExact'
      <3> SUFFICES ASSUME NEW i \in 1..Len(admits'), NEW j \in 1..Len(admits'),
                          i < j, admits'[i].key = admits'[j].key
                   PROVE  admits'[j].at - admits'[i].at >= Window
        BY DEF DedupeExact
      <3>1. CASE j \in 1..Len(admits)
        <4>1. i \in 1..Len(admits)
          BY <1>e, <2>5, <3>1
        <4>2. admits'[i] = admits[i] /\ admits'[j] = admits[j]
          BY <2>5, <3>1, <4>1
        <4>3. i < j /\ admits[i].key = admits[j].key
          BY <4>2
        <4>4. admits[j].at - admits[i].at >= Window
          BY <3>1, <4>1, <4>3 DEF Deduped, DedupeExact
        <4> QED
          BY <4>2, <4>4
      <3>2. CASE j = Len(admits) + 1
        <4>1. i \in 1..Len(admits) /\ admits'[i] = admits[i] /\ admits'[j].at = clock
              /\ admits'[j].key = k
          BY <1>e, <2>5, <3>2
        <4>2. ~ (clock - admits[i].at < Window)
          BY <2>6, <4>1
        <4> QED
          BY <1>c, <1>e, <4>1, <4>2
      <3> QED
        BY <1>e, <2>5, <3>1, <3>2
    <2> QED
      BY <2>2, <2>7, <2>9, <2>10 DEF Deduped
  <1>4. ASSUME NEW k \in Keys, DropDuplicate(k) PROVE Deduped'
    BY <1>1, <1>4, <1>c DEF DropDuplicate
  <1>5. CASE Tick
    BY <1>1, <1>5, <1>c DEF Tick
  <1>6. CASE UNCHANGED vars
    BY <1>1, <1>6, <1>c DEF vars
  <1> QED
    BY <1>2, <1>3, <1>4, <1>5, <1>6 DEF Next

LEMMA DedupedInit == Init => Deduped
  BY DEF Init, Deduped, OpenWindowsRemembered, DedupeExact

\* The dedupe window is exact: two events of one fingerprint are never closer
\* than the window, for every rate, burst and window whose budget the table
\* can hold.
THEOREM DedupeIsExact ==
    ASSUME CapacitySuffices
    PROVE  Spec => []DedupeExact
  <1>1. Deduped => DedupeExact
    BY DEF Deduped
  <1>2. Typed /\ TableFitsBudget => NoEarlyEviction
    BY EvictsExpired
  <1> QED
    BY <1>1, <1>2, TypedInit, TypedNext, TableInit, TableNext, DedupedInit, DedupedNext, PTL
    DEF Spec

-----------------------------------------------------------------------------
(* The drop warnings                                                       *)

\* The gate remembers when it last warned.
StampIsLastLog == lastDropLog = IF Len(logs) = 0 THEN Never ELSE logs[Len(logs)].at

LEMMA CountDropTiles ==
    ASSUME Typed, Typed', StampIsLastLog, LogsTileDrops, CountDrop
    PROVE  StampIsLastLog' /\ LogsTileDrops'
  <1>1. /\ Len(drops) \in Nat /\ Len(drops') = Len(drops) + 1
        /\ Len(logs) \in Nat /\ dropped \in Nat /\ clock \in Nat /\ LogInterval \in Nat
    <2>1. /\ drops \in Seq(Nat) /\ clock \in Nat /\ dropped \in Nat
          /\ logs \in Seq([at : Nat, count : Nat, upto : Nat]) /\ LogInterval \in Nat
      BY GateAssumption DEF GateAssumption, Typed, TypeOK
    <2>2. Len(drops) \in Nat /\ Len(drops') = Len(drops) + 1
      BY <2>1 DEF CountDrop
    <2>3. Len(logs) \in Nat
      BY <2>1, LenProperties
    <2> QED
      BY <2>1, <2>2, <2>3
  <1>2. CASE ~ LogDue
    <2>1. dropped' = dropped + 1 /\ UNCHANGED <<logs, lastDropLog>>
      BY <1>2 DEF CountDrop
    <2> QED
      BY <1>1, <2>1 DEF LogsTileDrops, StampIsLastLog
  <1>3. CASE LogDue
    <2> DEFINE entry == [at |-> clock, count |-> dropped + 1, upto |-> Len(drops) + 1]
    <2>1. logs' = Append(logs, entry) /\ dropped' = 0 /\ lastDropLog' = clock
      BY <1>3 DEF CountDrop, ResetCount
    <2>2. /\ Len(logs') = Len(logs) + 1
          /\ \A i \in 1..Len(logs) : logs'[i] = logs[i]
          /\ logs'[Len(logs) + 1].at = clock
          /\ logs'[Len(logs) + 1].count = dropped + 1
          /\ logs'[Len(logs) + 1].upto = Len(drops) + 1
      BY <2>1 DEF Typed, TypeOK
    <2> HIDE DEF entry
    <2>3. StampIsLastLog'
      BY <1>1, <2>1, <2>2 DEF StampIsLastLog
    <2>4. ASSUME NEW i \in 1..Len(logs')
          PROVE  logs'[i].upto - logs'[i].count = IF i - 1 = 0 THEN 0 ELSE logs'[i - 1].upto
      <3>1. CASE i \in 1..Len(logs)
        <4>1. i - 1 = 0 \/ i - 1 \in 1..Len(logs)
          BY <1>1, <3>1
        <4> QED
          BY <2>2, <3>1, <4>1 DEF LogsTileDrops
      <3>2. CASE i = Len(logs) + 1
        <4>1. Len(drops) - dropped = IF Len(logs) = 0 THEN 0 ELSE logs[Len(logs)].upto
          BY DEF LogsTileDrops
        <4>2. i - 1 = Len(logs) /\ (i - 1 = 0 \/ i - 1 \in 1..Len(logs))
          BY <1>1, <3>2
        <4>3. logs'[i].upto - logs'[i].count = Len(drops) - dropped
          BY <1>1, <2>2, <3>2
        <4> QED
          BY <2>2, <4>1, <4>2, <4>3
      <3> QED
        BY <1>1, <2>2, <3>1, <3>2
    <2>5. ASSUME NEW i \in 2..Len(logs') PROVE logs'[i].at - logs'[i - 1].at >= LogInterval
      <3>1. CASE i \in 2..Len(logs)
        <4>1. i \in 1..Len(logs) /\ i - 1 \in 1..Len(logs)
          BY <1>1, <3>1
        <4> QED
          BY <2>2, <3>1, <4>1 DEF LogsTileDrops
      <3>2. CASE i = Len(logs) + 1
        <4>1. Len(logs) # 0 /\ i - 1 = Len(logs) /\ Len(logs) \in 1..Len(logs)
          BY <1>1, <3>2
        <4>2. logs[Len(logs)].at \in Nat
          <5> DEFINE Entry == [at : Nat, count : Nat, upto : Nat]
          <5>1. logs \in Seq(Entry)
            BY DEF Typed, TypeOK
          <5>2. logs[Len(logs)] \in Entry
            <6> HIDE DEF Entry
            <6> QED
              BY <4>1, <5>1, ElementOfSeq
          <5> QED
            BY <5>2
        <4>3. clock - logs[Len(logs)].at >= LogInterval
          BY <1>3, <4>1, <4>2 DEF LogDue, StampIsLastLog, Never
        <4> QED
          BY <2>2, <3>2, <4>1, <4>3
      <3> QED
        BY <1>1, <2>2, <3>1, <3>2
    <2>6. Len(drops') - dropped' = IF Len(logs') = 0 THEN 0 ELSE logs'[Len(logs')].upto
      BY <1>1, <2>1, <2>2
    <2> QED
      BY <2>3, <2>4, <2>5, <2>6 DEF LogsTileDrops
  <1> QED
    BY <1>2, <1>3

LEMMA LogsNext ==
    Typed /\ StampIsLastLog /\ LogsTileDrops /\ [Next]_vars => StampIsLastLog' /\ LogsTileDrops'
  <1> SUFFICES ASSUME Typed, StampIsLastLog, LogsTileDrops, [Next]_vars
               PROVE  StampIsLastLog' /\ LogsTileDrops'
    OBVIOUS
  <1>1. CASE CountDrop
    BY <1>1, TypedNext, CountDropTiles
  <1>2. CASE UNCHANGED <<dropped, lastDropLog, drops, logs>>
    BY <1>2 DEF StampIsLastLog, LogsTileDrops
  <1> QED
    BY <1>1, <1>2 DEF Next, DropDuplicate, DropOverBudget, Admit, Tick, vars

\* No drop is counted by two warnings, none falls between two of them, and the
\* warnings keep their distance, for every sequence of records.
THEOREM LogsTile == Spec => []LogsTileDrops
  <1>1. Init => StampIsLastLog /\ LogsTileDrops
    BY DEF Init, StampIsLastLog, LogsTileDrops
  <1> QED
    BY <1>1, TypedInit, TypedNext, LogsNext, PTL DEF Spec

-----------------------------------------------------------------------------
(* Why records are dropped                                                 *)

\* The table holds nothing but times of records admitted under their key.
TableOfAdmits ==
    \A k \in DOMAIN seen : \E i \in 1..Len(admits) : admits[i].key = k /\ admits[i].at = seen[k]

\* The bucket is full, or what some window behind it has left.
BucketIsTight ==
    \/ tokens = Burst
    \/ \E i \in 1..Len(admits) : tokens = Left(Len(admits) - i + 1, admits[i].at, lastRefill)

Accountable == TableOfAdmits /\ BucketIsTight

LEMMA AdmitTypes ==
    ASSUME Typed
    PROVE  /\ Len(admits) \in Nat
           /\ \A i \in 1..Len(admits) : admits[i].at \in Int /\ Len(admits) - i + 1 \in Int
  <1>1. admits \in Seq([key : Keys, at : Nat])
    BY DEF Typed, TypeOK
  <1>2. Len(admits) \in Nat /\ \A i \in 1..Len(admits) : admits[i].at \in Nat
    BY <1>1, EntryTypes
  <1> QED
    BY <1>2

\* Refilling keeps the bucket tight, now at the clock.
LEMMA RefilledIsTight ==
    ASSUME Typed, BucketIsTight
    PROVE  \/ Refilled = Burst
           \/ \E i \in 1..Len(admits) : Refilled = Left(Len(admits) - i + 1, admits[i].at, clock)
  <1> DEFINE gain == (clock - lastRefill) * Rate
  <1>1. gain \in Nat
    <2>1. clock - lastRefill \in Nat /\ Rate \in Nat
      BY GateAssumption DEF Typed, TypeOK, GateAssumption
    <2> QED
      BY <2>1, ProductOfNats
  <1>2. tokens \in Nat /\ tokens <= Burst /\ Burst \in Nat /\ clock \in Int /\ lastRefill \in Int
    BY GateAssumption DEF Typed, TypeOK, GateAssumption
  <1>3. Refilled = IF tokens + gain < Burst THEN tokens + gain ELSE Burst
    BY DEF Refilled
  <1>4. CASE tokens + gain < Burst
    <2>1. Refilled = tokens + gain /\ tokens # Burst
      <3> HIDE DEF gain
      <3> QED
        BY <1>1, <1>2, <1>3, <1>4
    <2>2. PICK i \in 1..Len(admits) :
            tokens = Left(Len(admits) - i + 1, admits[i].at, lastRefill)
      BY <2>1 DEF BucketIsTight
    <2>3. admits[i].at \in Int /\ Len(admits) - i + 1 \in Int
      BY AdmitTypes
    <2>4. Left(Len(admits) - i + 1, admits[i].at, clock)
            = Left(Len(admits) - i + 1, admits[i].at, lastRefill) + gain
      BY <1>2, <2>3, LeftGrows
    <2> QED
      BY <2>1, <2>2, <2>4
  <1>5. CASE ~ (tokens + gain < Burst)
    BY <1>3, <1>5
  <1> QED
    BY <1>4, <1>5

LEMMA AccountableNext == Typed /\ Accountable /\ [Next]_vars => Accountable'
  <1> SUFFICES ASSUME Typed, Accountable, [Next]_vars PROVE Accountable'
    OBVIOUS
  <1>e. Len(admits) \in Nat /\ \A i \in 1..Len(admits) : admits[i].at \in Int
    BY AdmitTypes
  <1>c. clock \in Int /\ Unit \in Int /\ Burst \in Int
    BY GateAssumption DEF GateAssumption, Typed, TypeOK
  <1>1. ASSUME UNCHANGED <<tokens, lastRefill, seen, admits>> PROVE Accountable'
    BY <1>1 DEF Accountable, TableOfAdmits, BucketIsTight, Left
  <1>2. ASSUME NEW k \in Keys, DropOverBudget(k) PROVE Accountable'
    <2>1. tokens' = Refilled /\ lastRefill' = clock /\ UNCHANGED <<seen, admits>>
      BY <1>2 DEF DropOverBudget
    <2> QED
      BY <2>1, RefilledIsTight DEF Accountable, TableOfAdmits, BucketIsTight, Left
  <1>3. ASSUME NEW k \in Keys, Admit(k) PROVE Accountable'
    <2> DEFINE entry == [key |-> k, at |-> clock]
    <2>1. PICK kept \in Kept : seen' = Entered(k, kept)
      BY <1>3 DEF Admit
    <2>2. tokens' = Refilled - Unit /\ lastRefill' = clock /\ admits' = Append(admits, entry)
      BY <1>3 DEF Admit
    <2>3. /\ DOMAIN seen' = kept \cup {k} /\ seen'[k] = clock
          /\ \A j \in kept : j # k => seen'[j] = seen[j]
          /\ kept \subseteq DOMAIN seen
      BY <2>1, EnteredTable, KeptLeavesRoom DEF Typed
    <2>4. /\ Len(admits') = Len(admits) + 1
          /\ admits'[Len(admits) + 1].at = clock /\ admits'[Len(admits) + 1].key = k
          /\ \A i \in 1..Len(admits) : admits'[i] = admits[i]
      BY <2>2 DEF Typed, TypeOK
    <2> HIDE DEF entry
    <2>5. TableOfAdmits'
      <3> SUFFICES ASSUME NEW j \in DOMAIN seen'
                   PROVE  \E i \in 1..Len(admits') :
                            admits'[i].key = j /\ admits'[i].at = seen'[j]
        BY DEF TableOfAdmits
      <3>1. CASE j = k
        BY <1>e, <2>3, <2>4, <3>1
      <3>2. CASE j # k
        <4>1. j \in DOMAIN seen /\ seen'[j] = seen[j]
          BY <2>3, <3>2
        <4>2. PICK i \in 1..Len(admits) : admits[i].key = j /\ admits[i].at = seen[j]
          BY <4>1 DEF Accountable, TableOfAdmits
        <4> QED
          BY <1>e, <2>4, <4>1, <4>2
      <3> QED
        BY <3>1, <3>2
    <2>6. \E i \in 1..Len(admits') :
            tokens' = Left(Len(admits') - i + 1, admits'[i].at, clock)
      <3>1. CASE Refilled = Burst
        <4>1. Len(admits') - (Len(admits) + 1) + 1 = 1 /\ Len(admits) + 1 \in 1..Len(admits')
          BY <1>e, <2>4
        <4>2. Rate * (clock - clock) = 0 /\ 1 * Unit = Unit
          BY <1>c, GateAssumption DEF GateAssumption
        <4>3. tokens' = Left(1, clock, clock)
          BY <1>c, <2>2, <3>1, <4>2 DEF Left
        <4> QED
          BY <2>4, <4>1, <4>3
      <3>2. CASE \E i \in 1..Len(admits) :
                   Refilled = Left(Len(admits) - i + 1, admits[i].at, clock)
        <4>1. PICK i \in 1..Len(admits) :
                Refilled = Left(Len(admits) - i + 1, admits[i].at, clock)
          BY <3>2
        <4>2. Len(admits') - i + 1 = (Len(admits) - i + 1) + 1 /\ i \in 1..Len(admits')
              /\ Len(admits) - i + 1 \in Int /\ admits[i].at \in Int
          BY <1>e, <2>4
        <4>3. Left((Len(admits) - i + 1) + 1, admits[i].at, clock)
                = Left(Len(admits) - i + 1, admits[i].at, clock) - Unit
          BY <1>c, <4>2, LeftGrows
        <4> QED
          BY <2>2, <2>4, <4>1, <4>2, <4>3
      <3> QED
        BY <3>1, <3>2, RefilledIsTight DEF Accountable
    <2> QED
      BY <2>2, <2>5, <2>6 DEF Accountable, BucketIsTight, Left
  <1>4. ASSUME NEW k \in Keys, DropDuplicate(k) PROVE Accountable'
    BY <1>1, <1>4 DEF DropDuplicate
  <1> QED
    BY <1>1, <1>2, <1>3, <1>4 DEF Next, Tick, vars

\* What the gate drops repeats an event inside its window or does not fit the
\* windows behind it.
LEMMA DropsNext ==
    ASSUME Typed, Accountable, [Next]_vars, drops' # drops
    PROVE  OverBudget \/ \E k \in Keys : Repeated(k) /\ DropDuplicate(k)
  <1>1. ASSUME NEW k \in Keys, DropDuplicate(k) PROVE Repeated(k)
    <2>1. k \in DOMAIN seen /\ clock - seen[k] < Window
      BY <1>1 DEF DropDuplicate, Duplicate, Fresh
    <2>2. PICK i \in 1..Len(admits) : admits[i].key = k /\ admits[i].at = seen[k]
      BY <2>1 DEF Accountable, TableOfAdmits
    <2> QED
      BY <2>1, <2>2 DEF Repeated
  <1>2. ASSUME NEW k \in Keys, DropOverBudget(k) PROVE OverBudget
    <2>1. Refilled < Unit /\ Refilled # Burst /\ Refilled \in Nat
      <3>1. Refilled \in 0..Burst /\ Unit \in Nat /\ Burst \in Nat /\ Burst >= Unit
        BY RefillUp, GateAssumption DEF GateAssumption, Typed
      <3> QED
        BY <1>2, <3>1 DEF DropOverBudget, HasToken
    <2>2. PICK i \in 1..Len(admits) :
            Refilled = Left(Len(admits) - i + 1, admits[i].at, clock)
      BY <2>1, RefilledIsTight DEF Accountable
    <2>3. /\ Len(admits) \in Nat /\ admits[i].at \in Int /\ clock \in Int
          /\ Unit \in Int /\ Burst \in Int /\ Rate \in Int
      <3>1. Unit \in Int /\ Burst \in Int /\ Rate \in Int
        BY GateAssumption DEF GateAssumption
      <3>2. Len(admits) \in Nat /\ admits[i].at \in Int
        BY AdmitTypes
      <3>3. clock \in Int
        BY DEF Typed, TypeOK
      <3> QED
        BY <3>1, <3>2, <3>3
    <2>4. Len(admits) - i + 1 \in Int /\ Len(admits) - i + 2 = (Len(admits) - i + 1) + 1
      BY <2>3
    <2>5. Left(Len(admits) - i + 2, admits[i].at, clock) = Refilled - Unit
      <3>1. Left((Len(admits) - i + 1) + 1, admits[i].at, clock)
              = Left(Len(admits) - i + 1, admits[i].at, clock) - Unit
        BY <2>3, <2>4, LeftGrows
      <3> QED
        BY <2>2, <2>4, <3>1
    <2>6. (Len(admits) - i + 2) * Unit \in Int /\ Rate * (clock - admits[i].at) \in Int
      <3>1. Len(admits) - i + 2 \in Int /\ clock - admits[i].at \in Int
        BY <2>3
      <3> QED
        BY <2>3, <3>1, ProductOfInts
    <2>7. (Len(admits) - i + 2) * Unit > Burst + Rate * (clock - admits[i].at)
      <3> DEFINE cost == (Len(admits) - i + 2) * Unit
                 grant == Rate * (clock - admits[i].at)
      <3>1. Burst + grant - cost = Refilled - Unit
        BY <2>5 DEF Left
      <3>2. cost \in Int /\ grant \in Int
        BY <2>6
      <3> HIDE DEF cost, grant
      <3>3. cost > Burst + grant
        BY <2>1, <2>3, <3>1, <3>2
      <3> QED
        BY <3>3 DEF cost, grant
    <2> QED
      BY <2>7 DEF OverBudget
  <1> QED
    BY <1>1, <1>2 DEF Next, Admit, Tick, vars

\* The gate drops a record only for a reason a caller could name, for every
\* rate, burst, window and table size: repeats never use up the budget, and no
\* event is refused that fits it.
THEOREM DropsAreJustified == Spec => DropsJustified
  <1>1. Init => Accountable
    BY DEF Init, Accountable, TableOfAdmits, BucketIsTight
  <1>2. Typed /\ Accountable /\ [Next]_vars
          => [drops' # drops => OverBudget \/ \E k \in Keys : Repeated(k) /\ DropDuplicate(k)]_vars
    BY DropsNext
  <1> QED
    BY <1>1, <1>2, TypedInit, TypedNext, AccountableNext, PTL DEF Spec, DropsJustified
=============================================================================
