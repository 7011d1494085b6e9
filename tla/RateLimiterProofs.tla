-------------------------- MODULE RateLimiterProofs --------------------------
(***************************************************************************)
(* Proofs about RateLimiter and the requests' sends through it             *)
(* (TelemetrySend), for every set of threads, events and requests and      *)
(* every rate, burst, interval and bound.                                  *)
(***************************************************************************)
EXTENDS TelemetrySend, FiniteSetTheorems, TLAPS

\* Grains are counted with two products of variables; these are the only
\* facts about multiplication the proofs use.
LEMMA ProductOfNats == \A m, n \in Nat : m * n \in Nat
  BY SMT

LEMMA ProductOfInts == \A m, n \in Int : m * n \in Int
  BY SMT

LEMMA Distribute ==
    \A r, p, q, s \in Int : r * (p - s) = (p - q) * r + r * (q - s)
  BY SMT

LEMMA OneMore == \A k, u \in Int : (k + 1) * u = k * u + u
  BY SMT

-----------------------------------------------------------------------------
(* Type correctness                                                        *)

\* A refill moves the bucket up to the burst and no further.
LEMMA RefillUp ==
    ASSUME TypeOK
    PROVE  /\ Refilled(clock) \in 0..Burst
           /\ Refilled(clock) >= tokens
           /\ Refilled(clock) <= tokens + (clock - lastRefill) * Rate
           /\ Refilled(clock) = Burst \/ Refilled(clock) = tokens + (clock - lastRefill) * Rate
  <1>1. (clock - lastRefill) * Rate \in Nat
    <2>1. clock - lastRefill \in Nat /\ Rate \in Nat
      BY BucketAssumption DEF TypeOK, BucketAssumption
    <2> QED
      BY <2>1, ProductOfNats
  <1>2. tokens \in 0..Burst /\ Burst \in Nat
    BY BucketAssumption DEF TypeOK, BucketAssumption
  <1> QED
    BY <1>1, <1>2 DEF Refilled

LEMMA ReportTypes ==
    ASSUME TypeOK
    PROVE  /\ NoReport \in Reports
           /\ Snapshot(droppedSince, samples, Len(drops)) \in Reports
           /\ \A e \in Events :
                Snapshot(droppedSince + 1, Sampled(e), Len(drops) + 1) \in Reports
           /\ \A r \in Reports : Covered(r) \in SUBSET Nat
           /\ Idle \in Calls
           /\ \A t \in Threads, pc \in {"emit", "inner"} :
                [call[t] EXCEPT !.pc = pc] \in Calls
  <1>1. NoReport \in Reports
    BY DEF NoReport, Snapshot, Reports
  <1>2. Idle \in Calls
    BY <1>1 DEF Idle, Calls
  <1>3. \A t \in Threads, pc \in {"emit", "inner"} : [call[t] EXCEPT !.pc = pc] \in Calls
    BY DEF TypeOK, Calls
  <1>4. /\ Snapshot(droppedSince, samples, Len(drops)) \in Reports
        /\ \A e \in Events : Snapshot(droppedSince + 1, Sampled(e), Len(drops) + 1) \in Reports
    BY DEF TypeOK, Snapshot, Reports, Sampled
  <1>5. \A r \in Reports : Covered(r) \in SUBSET Nat
    BY DEF Reports, Covered
  <1> QED
    BY <1>1, <1>2, <1>3, <1>4, <1>5

LEMMA TypeInit == Init => TypeOK
  BY BucketAssumption DEF BucketAssumption, Init, TypeOK, Idle, NoReport, Snapshot, Never, Reports, Calls

\* The parts of the state that a report, once taken, leaves well typed.
LEMMA AccountingTypes ==
    ASSUME TypeOK, NEW s \in Nat, NEW r \in Reports, NEW forced \in BOOLEAN,
           BuildReport(s, r, forced)
    PROVE  /\ lastReportAt' \in {Never} \cup Nat
           /\ droppedSince' = 0
           /\ samples' \in SUBSET Events
           /\ reports' \in Seq([at : Nat, forced : BOOLEAN, built : Reports])
  BY DEF TypeOK, BuildReport, Stamp, ResetAccounting

LEMMA CallTypes ==
    ASSUME TypeOK, NEW t \in Threads, NEW r \in Reports,
           NEW pc \in {"idle", "forward", "emit", "inner"},
           NEW op \in {"capture", "flush", "shutdown"},
           Proceed(t, op, pc, r)
    PROVE  call' \in [Threads -> Calls]
  BY DEF TypeOK, Proceed, Calls

LEMMA TypeNext == TypeOK /\ [Next]_vars => TypeOK'
  <1> SUFFICES ASSUME TypeOK, [Next]_vars PROVE TypeOK'
    OBVIOUS
  <1>r. Refilled(clock) \in 0..Burst
    BY RefillUp
  <1>u. Unit \in Nat /\ Burst \in Nat
    BY BucketAssumption DEF BucketAssumption
  <1>1. ASSUME NEW t \in Threads, NEW e \in Events, CaptureAdmitted(t, e) PROVE TypeOK'
    <2> DEFINE r == Snapshot(droppedSince, samples, Len(drops))
    <2>0. AdmitAt(t, clock)
      BY <1>1 DEF CaptureAdmitted
    <2>1. tokens' \in 0..Burst /\ lastRefill' = clock /\ admits' \in Seq(Nat)
          /\ UNCHANGED <<clock, drops, innerUp, reported, delivered, lost>>
      BY <2>0, <1>r, <1>u DEF AdmitAt, TypeOK, fates, HasToken
    <2>2. CASE droppedSince > 0 /\ Due(clock)
      <3>1. BuildReport(clock, r, FALSE) /\ Proceed(t, "capture", "forward", r)
        BY <2>0, <2>2 DEF AdmitAt
      <3>2. clock \in Nat /\ r \in Reports
        BY ReportTypes DEF TypeOK
      <3> HIDE DEF r
      <3>3. /\ lastReportAt' \in {Never} \cup Nat
            /\ droppedSince' = 0
            /\ samples' \in SUBSET Events
            /\ reports' \in Seq([at : Nat, forced : BOOLEAN, built : Reports])
        BY <3>1, <3>2, AccountingTypes
      <3>4. call' \in [Threads -> Calls]
        BY <3>1, <3>2, CallTypes
      <3> QED
        BY <2>1, <3>3, <3>4 DEF TypeOK
    <2>3. CASE ~ (droppedSince > 0 /\ Due(clock))
      <3>1. KeepCounting(droppedSince, samples) /\ Proceed(t, "capture", "forward", NoReport)
        BY <2>0, <2>3 DEF AdmitAt
      <3>2. NoReport \in Reports
        BY ReportTypes
      <3>3. call' \in [Threads -> Calls]
        BY <3>1, <3>2, CallTypes
      <3> QED
        BY <2>1, <3>1, <3>3 DEF TypeOK, KeepCounting
    <2> QED
      BY <2>2, <2>3
  <1>2. ASSUME NEW t \in Threads, NEW e \in Events, CaptureDropped(t, e) PROVE TypeOK'
    <2> DEFINE r == Snapshot(droppedSince + 1, Sampled(e), Len(drops) + 1)
    <2>0. DropAt(t, e, clock)
      BY <1>2 DEF CaptureDropped
    <2>1. tokens' \in 0..Burst /\ lastRefill' = clock /\ drops' \in Seq(Events)
          /\ Len(drops') = Len(drops) + 1
          /\ UNCHANGED <<clock, admits, innerUp, reported, delivered, lost>>
      BY <2>0, <1>r DEF DropAt, TypeOK, fates
    <2>2. CASE Due(clock)
      <3>1. BuildReport(clock, r, FALSE) /\ Proceed(t, "capture", "emit", r)
        BY <2>0, <2>2 DEF DropAt
      <3>2. clock \in Nat /\ r \in Reports
        BY ReportTypes DEF TypeOK
      <3> HIDE DEF r
      <3>3. /\ lastReportAt' \in {Never} \cup Nat
            /\ droppedSince' = 0
            /\ samples' \in SUBSET Events
            /\ reports' \in Seq([at : Nat, forced : BOOLEAN, built : Reports])
        BY <3>1, <3>2, AccountingTypes
      <3>4. call' \in [Threads -> Calls]
        BY <3>1, <3>2, CallTypes
      <3> QED
        BY <2>1, <3>3, <3>4 DEF TypeOK
    <2>3. CASE ~ Due(clock)
      <3>1. KeepCounting(droppedSince + 1, Sampled(e)) /\ UNCHANGED call
        BY <2>0, <2>3 DEF DropAt
      <3>2. Sampled(e) \in SUBSET Events
        BY DEF Sampled, TypeOK
      <3> QED
        BY <2>1, <3>1, <3>2 DEF TypeOK, KeepCounting
    <2> QED
      BY <2>2, <2>3
  <1>3. ASSUME NEW t \in Threads, NEW e \in Events, CaptureExempt(t, e) PROVE TypeOK'
    BY <1>3, ReportTypes, CallTypes DEF CaptureExempt, TypeOK, bucket, accounting, fates
  <1>4. ASSUME NEW t \in Threads, NEW op \in {"flush", "shutdown"}, Drain(t, op) PROVE TypeOK'
    <2> DEFINE r == Snapshot(droppedSince, samples, Len(drops))
    <2>1. UNCHANGED <<clock, tokens, lastRefill, innerUp, admits, drops, reported, delivered, lost>>
      BY <1>4 DEF Drain, bucket, fates
    <2>2. CASE droppedSince > 0
      <3>1. BuildReport(clock, r, TRUE) /\ Proceed(t, op, "emit", r)
        BY <1>4, <2>2 DEF Drain, DrainsWhen
      <3>2. clock \in Nat /\ r \in Reports
        BY ReportTypes DEF TypeOK
      <3> HIDE DEF r
      <3>3. /\ lastReportAt' \in {Never} \cup Nat
            /\ droppedSince' = 0
            /\ samples' \in SUBSET Events
            /\ reports' \in Seq([at : Nat, forced : BOOLEAN, built : Reports])
        BY <3>1, <3>2, AccountingTypes
      <3>4. call' \in [Threads -> Calls]
        BY <3>1, <3>2, CallTypes
      <3> QED
        BY <2>1, <3>3, <3>4 DEF TypeOK
    <2>3. CASE ~ (droppedSince > 0)
      <3>1. UNCHANGED accounting /\ Proceed(t, op, "inner", r)
        BY <1>4, <2>3 DEF Drain, DrainsWhen
      <3> QED
        BY <2>1, <3>1, ReportTypes, CallTypes DEF TypeOK, accounting
    <2> QED
      BY <2>2, <2>3
  <1>5. ASSUME NEW t \in Threads, Flush(t) \/ Shutdown(t) PROVE TypeOK'
    BY <1>4, <1>5 DEF Flush, Shutdown
  <1>6. ASSUME NEW t \in Threads, Forward(t) \/ ForwardRaises(t) PROVE TypeOK'
    <2> DEFINE emitting == [call[t] EXCEPT !.pc = "emit"]
    <2>1. Idle \in Calls /\ emitting \in Calls
      BY ReportTypes
    <2>2. call' = [call EXCEPT ![t] = Idle] \/ call' = [call EXCEPT ![t] = emitting]
      BY <1>6 DEF Forward, ForwardRaises, Forwarded
    <2> HIDE DEF emitting
    <2>3. call' \in [Threads -> Calls]
      BY <2>1, <2>2 DEF TypeOK
    <2>4. Covered(call[t].report) \in SUBSET Nat
      BY ReportTypes DEF TypeOK, Calls
    <2>5. lost' \in SUBSET Nat
      BY <1>6, <2>4 DEF Forward, ForwardRaises, fates, TypeOK
    <2> QED
      BY <1>6, <2>3, <2>5 DEF Forward, ForwardRaises, TypeOK, bucket, accounting, fates
  <1>7. ASSUME NEW t \in Threads, EmitReport(t) PROVE TypeOK'
    <2>1. Covered(call[t].report) \in SUBSET Nat
      BY ReportTypes DEF TypeOK, Calls
    <2>2. reported' \in SUBSET Nat /\ delivered' \in SUBSET Nat
      BY <1>7, <2>1 DEF EmitReport, TypeOK
    <2>3. call' \in [Threads -> Calls]
      BY <1>7, ReportTypes DEF EmitReport, TypeOK
    <2> QED
      BY <1>7, <2>2, <2>3 DEF EmitReport, TypeOK, bucket, accounting
  <1>8. ASSUME NEW t \in Threads, CallInner(t) PROVE TypeOK'
    BY <1>8, ReportTypes DEF CallInner, TypeOK, bucket, accounting, fates
  <1>9. CASE Tick
    BY <1>9 DEF Tick, TypeOK, bucket, accounting, fates
  <1>10. CASE UNCHANGED vars
    BY <1>10 DEF TypeOK, vars
  <1>11. ASSUME NEW t \in Threads, Finish(t) PROVE TypeOK'
    BY <1>6, <1>7, <1>8, <1>11 DEF Finish
  <1> QED
    BY <1>1, <1>2, <1>3, <1>5, <1>9, <1>10, <1>11 DEF Next

\* The bucket stays between empty and full and every variable keeps its type.
THEOREM TypeCorrect == Spec => []TypeOK
  BY TypeInit, TypeNext, PTL DEF Spec

-----------------------------------------------------------------------------
(* The admission bound                                                     *)

\* A window's slack grows with the clock by the rate.
LEMMA SlackGrows ==
    ASSUME TypeOK, NEW i \in 1..Len(admits)
    PROVE  /\ Slack(admits, i, lastRefill) \in Int
           /\ Slack(admits, i, clock) = Slack(admits, i, lastRefill) + (clock - lastRefill) * Rate
  <1>1. /\ Rate \in Int /\ Burst \in Int /\ Unit \in Int
        /\ clock \in Int /\ lastRefill \in Int /\ admits[i] \in Int
        /\ Len(admits) - i + 1 \in Int
    BY BucketAssumption DEF BucketAssumption, TypeOK
  <1>2. Rate * (clock - admits[i]) = (clock - lastRefill) * Rate + Rate * (lastRefill - admits[i])
    BY <1>1, Distribute
  <1>3. /\ Rate * (lastRefill - admits[i]) \in Int
        /\ (clock - lastRefill) * Rate \in Int
        /\ (Len(admits) - i + 1) * Unit \in Int
    <2>1. lastRefill - admits[i] \in Int /\ clock - lastRefill \in Int
      BY <1>1
    <2>2. Rate * (lastRefill - admits[i]) \in Int
      BY <1>1, <2>1, ProductOfInts
    <2>3. (clock - lastRefill) * Rate \in Int
      BY <1>1, <2>1, ProductOfInts
    <2>4. (Len(admits) - i + 1) * Unit \in Int
      BY <1>1, ProductOfInts
    <2> QED
      BY <2>2, <2>3, <2>4
  <1> DEFINE gain == (clock - lastRefill) * Rate
             rest == Rate * (lastRefill - admits[i])
             cost == (Len(admits) - i + 1) * Unit
  <1>4. Slack(admits, i, lastRefill) = Burst + rest - cost
    BY DEF Slack
  <1>5. Slack(admits, i, clock) = Burst + (gain + rest) - cost
    BY <1>2 DEF Slack
  <1> HIDE DEF gain, rest, cost
  <1>6. gain \in Int /\ rest \in Int /\ cost \in Int
    BY <1>3 DEF gain, rest, cost
  <1>7. /\ Slack(admits, i, lastRefill) \in Int
        /\ Slack(admits, i, clock) = Slack(admits, i, lastRefill) + gain
    BY <1>1, <1>4, <1>5, <1>6
  <1> QED
    BY <1>7 DEF gain

\* Refilling keeps the bucket the smallest slack, now at the clock.
LEMMA RefilledIsSmallestSlack ==
    ASSUME TypeOK, BucketIsSmallestSlack
    PROVE  /\ \A i \in 1..Len(admits) : Refilled(clock) <= Slack(admits, i, clock)
           /\ \/ Refilled(clock) = Burst
              \/ \E i \in 1..Len(admits) : Refilled(clock) = Slack(admits, i, clock)
  <1> DEFINE gain == (clock - lastRefill) * Rate
  <1>1. gain \in Nat
    <2>1. clock - lastRefill \in Nat /\ Rate \in Nat
      BY BucketAssumption DEF TypeOK, BucketAssumption
    <2> QED
      BY <2>1, ProductOfNats
  <1>2. tokens \in Nat /\ tokens <= Burst /\ Burst \in Nat
    BY BucketAssumption DEF TypeOK, BucketAssumption
  <1>3. \A i \in 1..Len(admits) :
          Slack(admits, i, lastRefill) \in Int /\ Slack(admits, i, clock) = Slack(admits, i, lastRefill) + gain
    BY SlackGrows
  <1>4. Refilled(clock) <= tokens + gain /\ (Refilled(clock) = Burst \/ Refilled(clock) = tokens + gain)
        /\ Refilled(clock) \in Nat /\ tokens <= Refilled(clock)
    BY RefillUp, <1>2
  <1> HIDE DEF gain
  <1>5. \A i \in 1..Len(admits) : Refilled(clock) <= Slack(admits, i, clock)
    BY <1>1, <1>2, <1>3, <1>4 DEF BucketIsSmallestSlack
  <1>6. ASSUME Refilled(clock) # Burst
        PROVE  \E i \in 1..Len(admits) : Refilled(clock) = Slack(admits, i, clock)
    <2>1. Refilled(clock) = tokens + gain /\ tokens # Burst
      BY <1>1, <1>2, <1>4, <1>6, RefillUp
    <2>2. PICK i \in 1..Len(admits) : tokens = Slack(admits, i, lastRefill)
      BY <2>1 DEF BucketIsSmallestSlack
    <2> QED
      BY <1>3, <2>1, <2>2
  <1> QED
    BY <1>5, <1>6

\* An admission at the clock costs every window a token, its own included.
LEMMA SlackAfterAdmission ==
    ASSUME TypeOK, clock' = clock, admits' = Append(admits, clock)
    PROVE  /\ Len(admits') = Len(admits) + 1
           /\ admits'[Len(admits) + 1] = clock
           /\ \A i \in 1..Len(admits) :
                admits'[i] = admits[i] /\ Slack(admits', i, clock) = Slack(admits, i, clock) - Unit
           /\ Slack(admits', Len(admits) + 1, clock) = Burst - Unit
  <1>1. /\ Len(admits') = Len(admits) + 1
        /\ admits'[Len(admits) + 1] = clock
        /\ \A i \in 1..Len(admits) : admits'[i] = admits[i]
        /\ Len(admits) \in Nat
    BY DEF TypeOK
  <1>2. Rate \in Int /\ Burst \in Int /\ Unit \in Int /\ clock \in Int
    BY BucketAssumption DEF BucketAssumption, TypeOK
  <1>3. ASSUME NEW i \in 1..Len(admits) PROVE Slack(admits', i, clock) = Slack(admits, i, clock) - Unit
    <2>1. Len(admits') - i + 1 = (Len(admits) - i + 1) + 1 /\ Len(admits) - i + 1 \in Int
      BY <1>1
    <2>2. (Len(admits') - i + 1) * Unit = (Len(admits) - i + 1) * Unit + Unit
      BY <1>2, <2>1, OneMore
    <2>3. Rate * (clock - admits[i]) \in Int /\ (Len(admits) - i + 1) * Unit \in Int
      <3>1. admits[i] \in Int
        BY DEF TypeOK
      <3> QED
        BY <1>2, <2>1, <3>1
    <2>4. Slack(admits', i, clock) = Burst + Rate * (clock - admits[i]) - (Len(admits') - i + 1) * Unit
      BY <1>1 DEF Slack
    <2> QED
      BY <1>2, <2>2, <2>3, <2>4 DEF Slack
  <1>4. Slack(admits', Len(admits) + 1, clock) = Burst - Unit
    <2>1. clock - clock = 0 /\ Len(admits') - (Len(admits) + 1) + 1 = 1
      BY <1>1, <1>2
    <2>2. Rate * 0 = 0 /\ 1 * Unit = Unit
      BY <1>2
    <2>3. Slack(admits', Len(admits) + 1, clock)
            = Burst + Rate * (clock - clock) - (Len(admits') - (Len(admits) + 1) + 1) * Unit
      BY <1>1 DEF Slack
    <2> QED
      BY <1>2, <2>1, <2>2, <2>3
  <1> QED
    BY <1>1, <1>3, <1>4

LEMMA BudgetInit == Init => BucketIsSmallestSlack /\ AdmissionBound
  BY DEF Init, BucketIsSmallestSlack, AdmissionBound

\* A step that touches neither the bucket nor the admissions.
LEMMA BudgetKept ==
    ASSUME BucketIsSmallestSlack, AdmissionBound, UNCHANGED <<tokens, lastRefill, admits>>
    PROVE  BucketIsSmallestSlack' /\ AdmissionBound'
  BY DEF BucketIsSmallestSlack, AdmissionBound, Slack

LEMMA BudgetAdmitted ==
    ASSUME TypeOK, BucketIsSmallestSlack, AdmissionBound,
           NEW t \in Threads, AdmitAt(t, clock)
    PROVE  BucketIsSmallestSlack' /\ AdmissionBound'
  <1>1. /\ tokens' = Refilled(clock) - Unit
        /\ lastRefill' = clock /\ clock' = clock
        /\ admits' = Append(admits, clock)
        /\ Refilled(clock) >= Unit
    BY DEF AdmitAt, HasToken
  <1>2. /\ Len(admits') = Len(admits) + 1 /\ Len(admits) \in Nat
        /\ admits'[Len(admits) + 1] = clock
        /\ \A i \in 1..Len(admits) :
             admits'[i] = admits[i] /\ Slack(admits', i, clock) = Slack(admits, i, clock) - Unit
        /\ Slack(admits', Len(admits) + 1, clock) = Burst - Unit
    BY <1>1, SlackAfterAdmission DEF TypeOK
  <1>3. Unit \in Nat /\ Burst \in Nat /\ Rate \in Nat /\ clock \in Nat /\ lastRefill <= clock
        /\ lastRefill \in Nat /\ Refilled(clock) \in Nat /\ Refilled(clock) <= Burst
    BY BucketAssumption, RefillUp DEF BucketAssumption, TypeOK
  <1>4. \A i \in 1..Len(admits) : Slack(admits, i, clock) \in Int
    <2>1. ASSUME NEW i \in 1..Len(admits) PROVE Slack(admits, i, clock) \in Int
      <3>1. Slack(admits, i, lastRefill) \in Int
            /\ Slack(admits, i, clock) = Slack(admits, i, lastRefill) + (clock - lastRefill) * Rate
        BY SlackGrows
      <3>2. (clock - lastRefill) * Rate \in Int
        BY <1>3
      <3> QED
        BY <3>1, <3>2
    <2> QED
      BY <2>1
  <1>5. BucketIsSmallestSlack'
    <2>1. \A i \in 1..Len(admits') : admits'[i] <= lastRefill'
      <3>1. \A i \in 1..Len(admits) : admits[i] \in Nat /\ admits[i] <= lastRefill
        BY DEF TypeOK, BucketIsSmallestSlack
      <3> QED
        BY <1>1, <1>2, <1>3, <3>1
    <2>2. ASSUME NEW i \in 1..Len(admits') PROVE tokens' <= Slack(admits', i, clock)
      <3>1. CASE i \in 1..Len(admits)
        <4>1. Refilled(clock) <= Slack(admits, i, clock) /\ Slack(admits, i, clock) \in Int
          BY <1>4, <3>1, RefilledIsSmallestSlack
        <4>2. Slack(admits', i, clock) = Slack(admits, i, clock) - Unit
          BY <1>2, <3>1
        <4> QED
          BY <1>1, <1>3, <4>1, <4>2
      <3>2. CASE i = Len(admits) + 1
        BY <1>1, <1>2, <1>3, <3>2
      <3> QED
        BY <1>2, <3>1, <3>2
    <2>3. tokens' = Burst \/ \E i \in 1..Len(admits') : tokens' = Slack(admits', i, clock)
      <3>1. CASE Refilled(clock) = Burst
        <4>1. Len(admits) + 1 \in 1..Len(admits')
          BY <1>2
        <4>2. tokens' = Slack(admits', Len(admits) + 1, clock)
          BY <1>1, <1>2, <3>1
        <4> QED
          BY <4>1, <4>2
      <3>2. CASE \E i \in 1..Len(admits) : Refilled(clock) = Slack(admits, i, clock)
        BY <1>1, <1>2, <3>2
      <3> QED
        BY <3>1, <3>2, RefilledIsSmallestSlack
    <2>4. \A i : Slack(admits', i, clock) = Slack(admits', i, lastRefill')
      BY <1>1 DEF Slack
    <2> QED
      BY <2>1, <2>2, <2>3, <2>4 DEF BucketIsSmallestSlack
  <1>6. AdmissionBound'
    <2> SUFFICES ASSUME NEW i \in 1..Len(admits'), NEW j \in i..Len(admits')
                 PROVE  (j - i + 1) * Unit <= Burst + Rate * (admits'[j] - admits'[i])
      BY DEF AdmissionBound
    <2>1. CASE j \in 1..Len(admits)
      <3>1. i \in 1..Len(admits) /\ j \in i..Len(admits)
        BY <1>2, <2>1
      <3>2. admits'[i] = admits[i] /\ admits'[j] = admits[j]
        BY <1>2, <2>1, <3>1
      <3> QED
        BY <3>1, <3>2 DEF AdmissionBound
    <2>2. CASE j = Len(admits) + 1 /\ i \in 1..Len(admits)
      <3>1. Unit <= Slack(admits, i, clock)
        BY <1>1, <1>3, <1>4, <2>2, RefilledIsSmallestSlack
      <3>2. admits[i] \in Int
        BY <2>2 DEF TypeOK
      <3>3. j - i + 1 = (Len(admits) - i + 1) + 1 /\ Len(admits) - i + 1 \in Int
        BY <1>2, <2>2
      <3>4. (j - i + 1) * Unit = (Len(admits) - i + 1) * Unit + Unit
        BY <1>3, <3>3, OneMore
      <3>5. (Len(admits) - i + 1) * Unit \in Int /\ Rate * (clock - admits[i]) \in Int
        <4>1. clock - admits[i] \in Int
          BY <1>3, <3>2
        <4> QED
          BY <1>3, <3>3, <4>1, ProductOfInts
      <3> DEFINE grant == Rate * (clock - admits[i])
                 cost == (Len(admits) - i + 1) * Unit
      <3>6. Unit <= Burst + grant - cost
        BY <3>1 DEF Slack
      <3>7. grant \in Int /\ cost \in Int /\ (j - i + 1) * Unit = cost + Unit
        BY <3>4, <3>5
      <3> HIDE DEF grant, cost
      <3>8. (j - i + 1) * Unit <= Burst + grant
        BY <1>3, <3>6, <3>7
      <3>9. admits'[j] = clock /\ admits'[i] = admits[i]
        BY <1>2, <2>2
      <3> QED
        BY <3>8, <3>9 DEF grant
    <2>3. CASE j = Len(admits) + 1 /\ i = Len(admits) + 1
      <3>1. (j - i + 1) * Unit = Unit /\ Rate * (clock - clock) = 0
        BY <1>2, <1>3, <2>3
      <3> QED
        BY <1>2, <1>3, <2>3, <3>1, BucketAssumption DEF BucketAssumption
    <2> QED
      BY <1>2, <2>1, <2>2, <2>3
  <1> QED
    BY <1>5, <1>6

LEMMA BudgetDropped ==
    ASSUME TypeOK, BucketIsSmallestSlack, AdmissionBound,
           NEW t \in Threads, NEW e \in Events, DropAt(t, e, clock)
    PROVE  BucketIsSmallestSlack' /\ AdmissionBound'
  <1>1. tokens' = Refilled(clock) /\ lastRefill' = clock /\ admits' = admits
    BY DEF DropAt
  <1>2. /\ lastRefill \in Nat /\ clock \in Nat /\ lastRefill <= clock
        /\ \A i \in 1..Len(admits) : admits[i] \in Nat /\ admits[i] <= lastRefill
    BY DEF TypeOK, BucketIsSmallestSlack
  <1>3. \A i : Slack(admits', i, lastRefill') = Slack(admits, i, clock)
    BY <1>1 DEF Slack
  <1> QED
    BY <1>1, <1>2, <1>3, RefilledIsSmallestSlack DEF BucketIsSmallestSlack, AdmissionBound

LEMMA BudgetNext ==
    TypeOK /\ BucketIsSmallestSlack /\ AdmissionBound /\ [Next]_vars
      => BucketIsSmallestSlack' /\ AdmissionBound'
  <1> SUFFICES ASSUME TypeOK, BucketIsSmallestSlack, AdmissionBound, [Next]_vars
               PROVE  BucketIsSmallestSlack' /\ AdmissionBound'
    OBVIOUS
  <1>1. CASE \E t \in Threads, e \in Events : CaptureAdmitted(t, e)
    BY <1>1, BudgetAdmitted DEF CaptureAdmitted
  <1>2. CASE \E t \in Threads, e \in Events : CaptureDropped(t, e)
    BY <1>2, BudgetDropped DEF CaptureDropped
  <1>3. CASE UNCHANGED <<tokens, lastRefill, admits>>
    BY <1>3, BudgetKept
  <1> QED
    BY <1>1, <1>2, <1>3
    DEF Next, Finish, CaptureExempt, Flush, Shutdown, Drain, Forward, ForwardRaises,
        EmitReport, CallInner, Tick, bucket, vars

\* Between any two admissions the limiter let through no more than the burst
\* plus the sustained rate, however the threads of capture, flush and shutdown
\* interleave.
THEOREM BoundHolds == Spec => []AdmissionBound
  <1>1. Init => TypeOK /\ BucketIsSmallestSlack /\ AdmissionBound
    BY TypeInit, BudgetInit
  <1>2. TypeOK /\ BucketIsSmallestSlack /\ AdmissionBound /\ [Next]_vars
          => TypeOK' /\ BucketIsSmallestSlack' /\ AdmissionBound'
    BY TypeNext, BudgetNext
  <1> QED
    BY <1>1, <1>2, PTL DEF Spec

-----------------------------------------------------------------------------
(* The limiter implements the windowed budget                              *)

\* Fitting every window is having a slack of a token in each.
LEMMA FitsIsSlack ==
    ASSUME TypeOK
    PROVE  Budget!Fits(clock) <=> \A i \in 1..Len(admits) : Unit <= Slack(admits, i, clock)
  <1>1. ASSUME NEW i \in 1..Len(admits)
        PROVE  Budget!FitsWindow(i, clock) <=> Unit <= Slack(admits, i, clock)
    <2>1. /\ Rate \in Int /\ Burst \in Int /\ Unit \in Int
          /\ clock \in Int /\ admits[i] \in Int /\ Len(admits) - i + 1 \in Int
          /\ Len(admits) - i + 2 = (Len(admits) - i + 1) + 1
      BY BucketAssumption DEF BucketAssumption, TypeOK
    <2>2. (Len(admits) - i + 2) * Unit = (Len(admits) - i + 1) * Unit + Unit
      BY <2>1, OneMore
    <2>3. Rate * (clock - admits[i]) \in Int /\ (Len(admits) - i + 1) * Unit \in Int
      <3>1. clock - admits[i] \in Int
        BY <2>1
      <3> QED
        BY <2>1, <3>1, ProductOfInts
    <2> DEFINE grant == Rate * (clock - admits[i])
               cost == (Len(admits) - i + 1) * Unit
    <2>4. Slack(admits, i, clock) = Burst + grant - cost
      BY DEF Slack
    <2>5. Budget!FitsWindow(i, clock) <=> cost + Unit <= Burst + grant
      BY <2>2 DEF Budget!FitsWindow
    <2>6. grant \in Int /\ cost \in Int
      BY <2>3
    <2> HIDE DEF grant, cost
    <2> QED
      BY <2>1, <2>4, <2>5, <2>6
  <1> QED
    BY <1>1 DEF Budget!Fits

\* The bucket holds a token exactly when the capture fits every window.
LEMMA TokenIffFits ==
    ASSUME TypeOK, BucketIsSmallestSlack
    PROVE  Refilled(clock) >= Unit <=> Budget!Fits(clock)
  <1>1. /\ Unit \in Nat /\ Burst \in Nat /\ Burst >= Unit /\ Refilled(clock) \in Nat
    BY BucketAssumption, RefillUp DEF BucketAssumption
  <1>2. \A i \in 1..Len(admits) : Slack(admits, i, clock) \in Int
    <2>1. ASSUME NEW i \in 1..Len(admits) PROVE Slack(admits, i, clock) \in Int
      <3>1. Slack(admits, i, lastRefill) \in Int
            /\ Slack(admits, i, clock) = Slack(admits, i, lastRefill) + (clock - lastRefill) * Rate
        BY SlackGrows
      <3>2. (clock - lastRefill) * Rate \in Int
        BY BucketAssumption DEF BucketAssumption, TypeOK
      <3> QED
        BY <3>1, <3>2
    <2> QED
      BY <2>1
  <1> QED
    BY <1>1, <1>2, FitsIsSlack, RefilledIsSmallestSlack

LEMMA BudgetStep ==
    ASSUME TypeOK, BucketIsSmallestSlack, [Next]_vars
    PROVE  [Budget!Next]_(Budget!vars)
  <1>1. CASE \E t \in Threads, e \in Events : CaptureAdmitted(t, e)
    <2>1. Refilled(clock) >= Unit /\ admits' = Append(admits, clock) /\ UNCHANGED <<clock, drops>>
      BY <1>1 DEF CaptureAdmitted, AdmitAt, HasToken
    <2> QED
      BY <2>1, TokenIffFits DEF Budget!Next, Budget!Admit
  <1>2. CASE \E t \in Threads, e \in Events : CaptureDropped(t, e)
    <2>1. PICK e \in Events : /\ ~ (Refilled(clock) >= Unit) /\ drops' = Append(drops, e)
                              /\ UNCHANGED <<clock, admits>>
      BY <1>2 DEF CaptureDropped, DropAt, HasToken
    <2>2. ~ Budget!Fits(clock)
      BY <2>1, TokenIffFits
    <2>3. Len(drops') = Len(drops) + 1
      BY <2>1 DEF TypeOK
    <2> QED
      BY <2>1, <2>2, <2>3 DEF Budget!Next, Budget!Refuse
  <1>3. CASE Tick
    BY <1>3 DEF Tick, Budget!Next, Budget!Tick
  <1>4. CASE UNCHANGED <<clock, admits, drops>>
    BY <1>4 DEF Budget!vars
  <1> QED
    BY <1>1, <1>2, <1>3, <1>4
    DEF Next, Finish, CaptureExempt, Flush, Shutdown, Drain, Forward, ForwardRaises,
        EmitReport, CallInner, vars

\* The limiter is exact: it admits a capture if and only if every window since
\* an earlier admission has room for it, for all threads, rates and bursts.
THEOREM LimiterImplementsBudget == Spec => ImplementsBudget
  <1>1. Init => Budget!Init
    BY DEF Init, Budget!Init
  <1>2. Init => TypeOK /\ BucketIsSmallestSlack /\ AdmissionBound
    BY TypeInit, BudgetInit
  <1>3. TypeOK /\ BucketIsSmallestSlack /\ AdmissionBound /\ [Next]_vars
          => TypeOK' /\ BucketIsSmallestSlack' /\ AdmissionBound'
    BY TypeNext, BudgetNext
  <1>4. TypeOK /\ BucketIsSmallestSlack /\ [Next]_vars => [Budget!Next]_(Budget!vars)
    BY BudgetStep
  <1> QED
    BY <1>1, <1>2, <1>3, <1>4, PTL DEF Spec, ImplementsBudget, Budget!Spec

-----------------------------------------------------------------------------
(* Drop accounting                                                         *)

\* Drop d is not forgotten.
Accounted(d) ==
    d \in Pending \/ d \in reported \/ d \in lost \/ \E t \in Threads : d \in InFlight(t)

LEMMA AccountedForall ==
    EveryDropAccounted <=>
      (\A d \in 1..Len(drops) : Accounted(d)) /\ (lost # {} => SdkRaises)
  BY DEF EveryDropAccounted, Accounted

\* Taking a report of n drops moves what was pending into the hands of t.
LEMMA TakenReportAccounts ==
    ASSUME TypeOK, EveryDropAccounted,
           NEW t \in Threads, call[t].pc = "idle",
           NEW r \in Reports, NEW s \in Nat, NEW forced \in BOOLEAN,
           NEW op, NEW pc \in {"forward", "emit"},
           BuildReport(s, r, forced), Proceed(t, op, pc, r),
           Len(drops') \in Nat, r.upto = Len(drops'),
           r.count - Len(drops') = droppedSince - Len(drops),
           UNCHANGED <<reported, lost>>
    PROVE  EveryDropAccounted'
  <1>1. InFlight(t)' = Covered(r)
    BY DEF Proceed, InFlight, TypeOK
  <1>2. \A u \in Threads : u # t => InFlight(u)' = InFlight(u)
    BY DEF Proceed, InFlight, TypeOK
  <1>3. Covered(r) = (Len(drops) - droppedSince + 1)..Len(drops')
    BY DEF Covered, TypeOK, Reports
  <1>4. ASSUME NEW d \in 1..Len(drops') PROVE Accounted(d)'
    <2>1. CASE d \in Covered(r)
      BY <1>1, <2>1 DEF Accounted
    <2>2. CASE d \notin Covered(r)
      <3>1. d \in 1..Len(drops) /\ d \notin Pending
        BY <1>3, <2>2 DEF Pending, TypeOK
      <3>2. d \in reported \/ d \in lost \/ \E u \in Threads : d \in InFlight(u)
        BY <3>1, AccountedForall DEF Accounted
      <3>3. d \notin InFlight(t)
        BY DEF InFlight
      <3> QED
        BY <1>2, <3>2, <3>3 DEF Accounted
    <2> QED
      BY <2>1, <2>2
  <1>5. lost' # {} => SdkRaises
    BY DEF EveryDropAccounted
  <1> QED
    BY <1>4, <1>5 DEF EveryDropAccounted, Accounted

\* Steps that leave drops, reports and the pending count alone.
LEMMA UntouchedAccounts ==
    ASSUME TypeOK, EveryDropAccounted, UNCHANGED <<drops, droppedSince>>,
           reported \subseteq reported', lost \subseteq lost',
           lost' = lost \/ SdkRaises,
           \A u \in Threads : InFlight(u) \subseteq InFlight(u)' \cup reported' \cup lost'
    PROVE  EveryDropAccounted'
  BY DEF EveryDropAccounted, Pending

LEMMA AccountingNext ==
    ASSUME TypeOK, EveryDropAccounted, [Next]_vars
    PROVE  EveryDropAccounted'
  <1>1. ASSUME NEW t \in Threads, NEW e \in Events, CaptureAdmitted(t, e)
        PROVE  EveryDropAccounted'
    <2> DEFINE r == Snapshot(droppedSince, samples, Len(drops))
    <2>1. call[t].pc = "idle" /\ AdmitAt(t, clock) /\ UNCHANGED <<drops, reported, lost>>
      BY <1>1 DEF CaptureAdmitted, MayCapture, AdmitAt, fates
    <2>2. CASE droppedSince > 0 /\ Due(clock)
      <3>1. BuildReport(clock, r, FALSE) /\ Proceed(t, "capture", "forward", r)
        BY <2>1, <2>2 DEF AdmitAt
      <3>2. r \in Reports /\ clock \in Nat /\ r.upto = Len(drops) /\ r.count = droppedSince
            /\ Len(drops) \in Nat
        BY ReportTypes DEF TypeOK, Snapshot
      <3> HIDE DEF r
      <3> QED
        BY <2>1, <3>1, <3>2, TakenReportAccounts
    <2>3. CASE ~ (droppedSince > 0 /\ Due(clock))
      <3>1. droppedSince' = droppedSince /\ Proceed(t, "capture", "forward", NoReport)
        BY <2>1, <2>3 DEF AdmitAt, KeepCounting
      <3>2. \A u \in Threads : InFlight(u) \subseteq InFlight(u)'
        BY <2>1, <3>1 DEF InFlight, Proceed, TypeOK
      <3> QED
        BY <2>1, <3>1, <3>2, UntouchedAccounts
    <2> QED
      BY <2>2, <2>3
  <1>2. ASSUME NEW t \in Threads, NEW e \in Events, CaptureDropped(t, e)
        PROVE  EveryDropAccounted'
    <2> DEFINE r == Snapshot(droppedSince + 1, Sampled(e), Len(drops) + 1)
    <2>1. call[t].pc = "idle" /\ DropAt(t, e, clock) /\ UNCHANGED <<reported, lost>>
          /\ Len(drops') = Len(drops) + 1 /\ Len(drops) \in Nat
      <3>1. call[t].pc = "idle" /\ DropAt(t, e, clock)
        BY <1>2 DEF CaptureDropped, MayCapture
      <3>2. drops' = Append(drops, e) /\ UNCHANGED <<reported, lost>>
        BY <3>1 DEF DropAt, fates
      <3> QED
        BY <3>1, <3>2 DEF TypeOK
    <2>2. CASE Due(clock)
      <3>1. BuildReport(clock, r, FALSE) /\ Proceed(t, "capture", "emit", r)
        BY <2>1, <2>2 DEF DropAt
      <3>2. r \in Reports /\ clock \in Nat /\ r.upto = Len(drops')
            /\ r.count - Len(drops') = droppedSince - Len(drops) /\ Len(drops') \in Nat
        <4>1. r \in Reports
          BY ReportTypes
        <4>2. r.upto = Len(drops) + 1 /\ r.count = droppedSince + 1
          BY DEF Snapshot
        <4>3. clock \in Nat /\ droppedSince \in Int
          BY DEF TypeOK
        <4> HIDE DEF r
        <4> QED
          BY <2>1, <4>1, <4>2, <4>3
      <3> HIDE DEF r
      <3> QED
        BY <2>1, <3>1, <3>2, TakenReportAccounts
    <2>3. CASE ~ Due(clock)
      <3>1. droppedSince' = droppedSince + 1 /\ UNCHANGED <<call, reported, lost>>
        BY <2>1, <2>3 DEF DropAt, KeepCounting
      <3>2. Pending' = Pending \cup {Len(drops) + 1} /\ \A u \in Threads : InFlight(u)' = InFlight(u)
        BY <2>1, <3>1 DEF Pending, InFlight, TypeOK
      <3>3. 1..Len(drops') = 1..Len(drops) \cup {Len(drops) + 1}
        BY <2>1
      <3> QED
        BY <3>1, <3>2, <3>3 DEF EveryDropAccounted
    <2> QED
      BY <2>2, <2>3
  <1>3. ASSUME NEW t \in Threads, NEW e \in Events, CaptureExempt(t, e)
        PROVE  EveryDropAccounted'
    <2>1. \A u \in Threads : InFlight(u) \subseteq InFlight(u)'
      BY <1>3 DEF CaptureExempt, InFlight, Proceed, TypeOK
    <2> QED
      BY <1>3, <2>1, UntouchedAccounts DEF CaptureExempt, accounting, fates
  <1>4. ASSUME NEW t \in Threads, NEW op, Drain(t, op) PROVE EveryDropAccounted'
    <2> DEFINE r == Snapshot(droppedSince, samples, Len(drops))
    <2>1. call[t].pc = "idle" /\ UNCHANGED <<drops, reported, lost>> /\ Len(drops) \in Nat
      BY <1>4 DEF Drain, fates, TypeOK
    <2>2. CASE droppedSince > 0
      <3>1. BuildReport(clock, r, TRUE) /\ Proceed(t, op, "emit", r)
        BY <1>4, <2>2 DEF Drain, DrainsWhen
      <3>2. r \in Reports /\ clock \in Nat /\ r.upto = Len(drops) /\ r.count = droppedSince
        BY ReportTypes DEF TypeOK, Snapshot
      <3> HIDE DEF r
      <3> QED
        BY <2>1, <3>1, <3>2, TakenReportAccounts
    <2>3. CASE ~ (droppedSince > 0)
      <3>1. droppedSince' = droppedSince /\ Proceed(t, op, "inner", r)
        BY <1>4, <2>3 DEF Drain, DrainsWhen, accounting
      <3>2. \A u \in Threads : InFlight(u) \subseteq InFlight(u)'
        BY <2>1, <3>1 DEF InFlight, Proceed, TypeOK
      <3> QED
        BY <2>1, <3>1, <3>2, UntouchedAccounts
    <2> QED
      BY <2>2, <2>3
  <1>5. ASSUME NEW t \in Threads, Forward(t) PROVE EveryDropAccounted'
    <2>1. ASSUME NEW u \in Threads PROVE InFlight(u) \subseteq InFlight(u)'
      <3>1. CASE u # t
        BY <1>5, <3>1 DEF Forward, InFlight, TypeOK
      <3>2. CASE u = t /\ call[t].report.count = 0
        <4>1. call[t].report \in Reports
          BY DEF TypeOK, Calls
        <4>2. Covered(call[t].report) = {}
          BY <3>2, <4>1 DEF Covered, Reports
        <4> QED
          BY <3>2, <4>2 DEF InFlight
      <3>3. CASE u = t /\ call[t].report.count # 0
        <4> DEFINE c == [call[t] EXCEPT !.pc = "emit"]
        <4>1. call' = [call EXCEPT ![t] = c]
          BY <1>5, <3>3 DEF Forward, Forwarded
        <4>2. c.pc = "emit" /\ c.report = call[t].report
          BY DEF TypeOK, Calls
        <4>3. call'[t] = c
          BY <4>1 DEF TypeOK
        <4> QED
          BY <3>3, <4>2, <4>3 DEF InFlight
      <3> QED
        BY <3>1, <3>2, <3>3
    <2> QED
      BY <1>5, <2>1, UntouchedAccounts DEF Forward, accounting, fates
  <1>6. ASSUME NEW t \in Threads, EmitReport(t) PROVE EveryDropAccounted'
    <2>1. reported' = reported \cup Covered(call[t].report) /\ UNCHANGED <<drops, droppedSince, lost>>
      BY <1>6 DEF EmitReport, accounting
    <2>2. ASSUME NEW u \in Threads PROVE InFlight(u) \subseteq InFlight(u)' \cup reported'
      <3>1. CASE u # t
        BY <1>6, <3>1 DEF EmitReport, InFlight, TypeOK
      <3>2. CASE u = t
        BY <2>1, <3>2 DEF InFlight
      <3> QED
        BY <3>1, <3>2
    <2> QED
      BY <2>1, <2>2, UntouchedAccounts
  <1>7. ASSUME NEW t \in Threads, ForwardRaises(t) PROVE EveryDropAccounted'
    <2>1. /\ SdkRaises
          /\ lost' = lost \cup Covered(call[t].report)
          /\ UNCHANGED <<drops, droppedSince, reported>>
      BY <1>7 DEF ForwardRaises, accounting
    <2>2. ASSUME NEW u \in Threads PROVE InFlight(u) \subseteq InFlight(u)' \cup lost'
      <3>1. CASE u # t
        BY <1>7, <3>1 DEF ForwardRaises, InFlight, TypeOK
      <3>2. CASE u = t
        BY <2>1, <3>2 DEF InFlight
      <3> QED
        BY <3>1, <3>2
    <2> QED
      BY <2>1, <2>2, UntouchedAccounts
  <1>8. ASSUME NEW t \in Threads, CallInner(t) PROVE EveryDropAccounted'
    <2>1. \A u \in Threads : InFlight(u) \subseteq InFlight(u)'
      BY <1>8 DEF CallInner, InFlight, TypeOK
    <2> QED
      BY <1>8, <2>1, UntouchedAccounts DEF CallInner, accounting, fates
  <1>9. CASE UNCHANGED <<drops, droppedSince, call, reported, lost>>
    BY <1>9, UntouchedAccounts DEF InFlight
  <1>10. ASSUME NEW t \in Threads, Finish(t) PROVE EveryDropAccounted'
    BY <1>5, <1>6, <1>8, <1>10, <1>7 DEF Finish
  <1>11. ASSUME NEW t \in Threads, Flush(t) \/ Shutdown(t) PROVE EveryDropAccounted'
    BY <1>4, <1>11 DEF Flush, Shutdown
  <1>12. ASSUME Tick \/ UNCHANGED vars PROVE UNCHANGED <<drops, droppedSince, call, reported, lost>>
    BY <1>12 DEF Tick, accounting, fates, vars
  <1> QED
    BY <1>1, <1>2, <1>3, <1>9, <1>10, <1>11, <1>12 DEF Next

\* No drop is ever forgotten, whatever the threads do: it is pending, carried
\* by a thread, reported, or was in a report that a raising capture took along,
\* which needs a wrapped client that raises.
THEOREM NoDropForgotten == Spec => []EveryDropAccounted
  <1>1. Init => TypeOK /\ EveryDropAccounted
    <2>1. Init => EveryDropAccounted
      BY DEF Init, EveryDropAccounted
    <2> QED
      BY <2>1, TypeInit
  <1>2. TypeOK /\ EveryDropAccounted /\ [Next]_vars => TypeOK' /\ EveryDropAccounted'
    BY TypeNext, AccountingNext
  <1> QED
    BY <1>1, <1>2, PTL DEF Spec

-----------------------------------------------------------------------------
(* The reports                                                             *)

\* A step takes a report of every pending drop along, when due or forced...
Takes ==
    \E r \in Reports, forced \in BOOLEAN :
        /\ BuildReport(clock, r, forced)
        /\ r.upto = Len(drops')
        /\ r.upto - r.count = Len(drops) - droppedSince
        /\ forced \/ Due(clock)
        /\ \E t \in Threads, pc \in {"forward", "emit"}, op \in {"capture", "flush", "shutdown"} :
             Proceed(t, op, pc, r)

\* ... or counts what it drops, and at a gated capture only short of the interval.
Counts ==
    /\ Len(drops') - droppedSince' = Len(drops) - droppedSince
    /\ UNCHANGED <<lastReportAt, reports>>
    /\ \/ UNCHANGED <<droppedSince, lastRefill>>
       \/ lastRefill' = clock /\ (droppedSince' > 0 => ~ Due(clock))

LEMMA TakesOrCounts ==
    ASSUME TypeOK, [Next]_vars
    PROVE  Takes \/ Counts
  <1>t. clock \in Nat /\ Len(drops) \in Nat /\ droppedSince \in Nat
    BY DEF TypeOK
  <1>1. ASSUME NEW t \in Threads, AdmitAt(t, clock) PROVE Takes \/ Counts
    <2> DEFINE r == Snapshot(droppedSince, samples, Len(drops))
    <2>1. UNCHANGED drops /\ lastRefill' = clock
      BY <1>1 DEF AdmitAt
    <2>2. CASE droppedSince > 0 /\ Due(clock)
      <3>1. BuildReport(clock, r, FALSE) /\ Proceed(t, "capture", "forward", r)
        BY <1>1, <2>2 DEF AdmitAt
      <3>2. r \in Reports /\ r.upto = Len(drops) /\ r.count = droppedSince
        BY ReportTypes DEF Snapshot
      <3> HIDE DEF r
      <3> QED
        BY <1>t, <2>1, <2>2, <3>1, <3>2 DEF Takes
    <2>3. CASE ~ (droppedSince > 0 /\ Due(clock))
      <3>1. KeepCounting(droppedSince, samples)
        BY <1>1, <2>3 DEF AdmitAt
      <3> QED
        BY <1>t, <2>1, <2>3, <3>1 DEF Counts, KeepCounting
    <2> QED
      BY <2>2, <2>3
  <1>2. ASSUME NEW t \in Threads, NEW e \in Events, DropAt(t, e, clock) PROVE Takes \/ Counts
    <2> DEFINE r == Snapshot(droppedSince + 1, Sampled(e), Len(drops) + 1)
    <2>1. Len(drops') = Len(drops) + 1 /\ lastRefill' = clock
      BY <1>2 DEF DropAt, TypeOK
    <2>2. CASE Due(clock)
      <3>1. BuildReport(clock, r, FALSE) /\ Proceed(t, "capture", "emit", r)
        BY <1>2, <2>2 DEF DropAt
      <3>2. r \in Reports /\ r.upto = Len(drops) + 1 /\ r.count = droppedSince + 1
        BY ReportTypes DEF Snapshot
      <3> HIDE DEF r
      <3>3. r.upto - r.count = Len(drops) - droppedSince
        BY <1>t, <3>2
      <3> QED
        BY <2>1, <2>2, <3>1, <3>2, <3>3 DEF Takes
    <2>3. CASE ~ Due(clock)
      <3>1. KeepCounting(droppedSince + 1, Sampled(e))
        BY <1>2, <2>3 DEF DropAt
      <3> QED
        BY <1>t, <2>1, <2>3, <3>1 DEF Counts, KeepCounting
    <2> QED
      BY <2>2, <2>3
  <1>3. ASSUME NEW t \in Threads, NEW op \in {"flush", "shutdown"}, Drain(t, op) PROVE Takes \/ Counts
    <2> DEFINE r == Snapshot(droppedSince, samples, Len(drops))
    <2>1. UNCHANGED <<drops, lastRefill>>
      BY <1>3 DEF Drain, bucket
    <2>2. CASE DrainsWhen
      <3>1. BuildReport(clock, r, TRUE) /\ Proceed(t, op, "emit", r)
        BY <1>3, <2>2 DEF Drain
      <3>2. r \in Reports /\ r.upto = Len(drops) /\ r.count = droppedSince
        BY ReportTypes DEF Snapshot
      <3> HIDE DEF r
      <3> QED
        BY <1>t, <2>1, <3>1, <3>2 DEF Takes
    <2>3. CASE ~ DrainsWhen
      BY <1>3, <2>1, <2>3 DEF Drain, Counts, accounting
    <2> QED
      BY <2>2, <2>3
  <1>4. CASE UNCHANGED <<drops, droppedSince, lastRefill, lastReportAt, reports>>
    BY <1>4 DEF Counts
  <1>5. ASSUME NEW t \in Threads, NEW e \in Events,
               CaptureAdmitted(t, e) \/ CaptureDropped(t, e) \/ CaptureExempt(t, e)
        PROVE  Takes \/ Counts
    BY <1>1, <1>2, <1>4, <1>5
    DEF CaptureAdmitted, CaptureDropped, CaptureExempt, bucket, accounting
  <1>6. ASSUME NEW t \in Threads, Flush(t) \/ Shutdown(t) PROVE Takes \/ Counts
    BY <1>3, <1>6 DEF Flush, Shutdown
  <1>7. ASSUME NEW t \in Threads, Finish(t) PROVE Takes \/ Counts
    BY <1>4, <1>7
    DEF Finish, Forward, ForwardRaises, EmitReport, CallInner, bucket, accounting
  <1>8. CASE Tick \/ UNCHANGED vars
    BY <1>4, <1>8 DEF Tick, bucket, accounting, vars
  <1> QED
    BY <1>5, <1>6, <1>7, <1>8 DEF Next

\* What taking a report appends.
LEMMA TakenReport ==
    ASSUME TypeOK, NEW r \in Reports, NEW forced \in BOOLEAN, BuildReport(clock, r, forced)
    PROVE  /\ Len(reports) \in Nat
           /\ Len(reports') = Len(reports) + 1
           /\ \A i \in 1..Len(reports) : reports'[i] = reports[i]
           /\ reports'[Len(reports) + 1].at = clock
           /\ reports'[Len(reports) + 1].forced = forced
           /\ reports'[Len(reports) + 1].built = r
           /\ lastReportAt' = clock
           /\ droppedSince' = 0
  BY DEF TypeOK, BuildReport, Stamp, ResetAccounting

LEMMA TilingNext ==
    ASSUME TypeOK, ReportsTileDrops, [Next]_vars
    PROVE  ReportsTileDrops'
  <1>1. CASE Takes
    <2>1. PICK r \in Reports, forced \in BOOLEAN :
            /\ BuildReport(clock, r, forced)
            /\ r.upto = Len(drops')
            /\ r.upto - r.count = Len(drops) - droppedSince
      BY <1>1 DEF Takes
    <2>2. Len(drops') \in Nat /\ Len(drops) \in Nat /\ droppedSince \in Nat
      <3>1. TypeOK'
        BY TypeNext
      <3> QED
        BY <3>1 DEF TypeOK
    <2>3. /\ Len(reports) \in Nat
          /\ Len(reports') = Len(reports) + 1
          /\ \A i \in 1..Len(reports) : reports'[i] = reports[i]
          /\ reports'[Len(reports) + 1].built = r
          /\ droppedSince' = 0
      BY <2>1, TakenReport
    <2>4. Len(drops) - droppedSince
            = IF Len(reports) = 0 THEN 0 ELSE reports[Len(reports)].built.upto
      BY DEF ReportsTileDrops
    <2>5. ASSUME NEW i \in 1..Len(reports')
          PROVE  reports'[i].built.upto - reports'[i].built.count
                   = IF i - 1 = 0 THEN 0 ELSE reports'[i - 1].built.upto
      <3>1. CASE i \in 1..Len(reports)
        <4>1. i - 1 = 0 \/ i - 1 \in 1..Len(reports)
          BY <2>3, <3>1
        <4> QED
          BY <2>3, <3>1, <4>1 DEF ReportsTileDrops
      <3>2. CASE i = Len(reports) + 1
        <4>1. i - 1 = Len(reports) /\ (i - 1 = 0 \/ i - 1 \in 1..Len(reports))
          BY <2>3, <3>2
        <4> QED
          BY <2>1, <2>3, <2>4, <3>2, <4>1
      <3> QED
        BY <2>3, <3>1, <3>2
    <2>6. Len(drops') - droppedSince'
            = IF Len(reports') = 0 THEN 0 ELSE reports'[Len(reports')].built.upto
      BY <2>1, <2>2, <2>3
    <2> QED
      BY <2>5, <2>6 DEF ReportsTileDrops
  <1>2. CASE Counts
    BY <1>2 DEF Counts, ReportsTileDrops
  <1> QED
    BY <1>1, <1>2, TakesOrCounts

\* No drop is counted by two reports and none falls between two of them, for
\* any number of threads capturing, flushing and shutting down.
THEOREM ReportsTile == Spec => []ReportsTileDrops
  <1>1. Init => TypeOK /\ ReportsTileDrops
    <2>1. Init => ReportsTileDrops
      BY DEF Init, ReportsTileDrops
    <2> QED
      BY <2>1, TypeInit
  <1>2. TypeOK /\ ReportsTileDrops /\ [Next]_vars => TypeOK' /\ ReportsTileDrops'
    BY TypeNext, TilingNext
  <1> QED
    BY <1>1, <1>2, PTL DEF Spec

\* The limiter remembers when it took its last report.
StampIsLastReport ==
    lastReportAt = IF reports = <<>> THEN Never ELSE reports[Len(reports)].at

LEMMA OnTimeNext ==
    ASSUME TypeOK, StampIsLastReport, ReportsOnTime, [Next]_vars
    PROVE  StampIsLastReport' /\ ReportsOnTime'
  <1>1. CASE Takes
    <2>1. PICK r \in Reports, forced \in BOOLEAN :
            BuildReport(clock, r, forced) /\ (forced \/ Due(clock))
      BY <1>1 DEF Takes
    <2>2. /\ Len(reports) \in Nat
          /\ Len(reports') = Len(reports) + 1
          /\ \A i \in 1..Len(reports) : reports'[i] = reports[i]
          /\ reports'[Len(reports) + 1].at = clock
          /\ reports'[Len(reports) + 1].forced = forced
          /\ lastReportAt' = clock
          /\ droppedSince' = 0
      BY <2>1, TakenReport
    <2>3. StampIsLastReport'
      BY <2>2 DEF StampIsLastReport
    <2>4. ASSUME NEW j \in 2..Len(reports')
          PROVE  reports'[j].forced \/ reports'[j].at - reports'[j - 1].at >= Interval
      <3>1. CASE j \in 2..Len(reports)
        BY <2>2, <3>1 DEF ReportsOnTime
      <3>2. CASE j = Len(reports) + 1
        <4>1. reports # <<>> /\ lastReportAt = reports[Len(reports)].at /\ lastReportAt # Never
          <5>1. Len(reports) \in 1..Len(reports) /\ reports # <<>>
            BY <2>2, <3>2
          <5>2. reports[Len(reports)].at \in Nat
            <6> DEFINE Entry == [at : Nat, forced : BOOLEAN, built : Reports]
            <6>1. reports \in Seq(Entry)
              BY DEF TypeOK
            <6>2. reports[Len(reports)] \in Entry
              <7> HIDE DEF Entry
              <7> QED
                BY <5>1, <6>1
            <6> QED
              BY <6>2
          <5> QED
            BY <5>1, <5>2 DEF StampIsLastReport, Never
        <4>2. reports'[j - 1].at = lastReportAt
          BY <2>2, <3>2, <4>1
        <4> QED
          BY <2>1, <2>2, <3>2, <4>1, <4>2 DEF Due
      <3> QED
        BY <2>2, <3>1, <3>2
    <2> QED
      BY <2>2, <2>3, <2>4 DEF ReportsOnTime
  <1>2. CASE Counts
    <2>1. UNCHANGED <<lastReportAt, reports>>
      BY <1>2 DEF Counts
    <2>2. droppedSince' > 0 => lastReportAt' # Never /\ lastRefill' - lastReportAt' < Interval
      <3>1. CASE UNCHANGED <<droppedSince, lastRefill>>
        BY <2>1, <3>1 DEF ReportsOnTime
      <3>2. CASE lastRefill' = clock /\ (droppedSince' > 0 => ~ Due(clock))
        <4>1. ASSUME lastReportAt # Never
              PROVE  clock \in Int /\ lastReportAt \in Int /\ Interval \in Int
          BY <4>1, ReportAssumption DEF TypeOK, ReportAssumption
        <4> QED
          BY <2>1, <3>2, <4>1 DEF Due
      <3> QED
        BY <1>2, <3>1, <3>2 DEF Counts
    <2> QED
      BY <2>1, <2>2 DEF ReportsOnTime, StampIsLastReport
  <1> QED
    BY <1>1, <1>2, TakesOrCounts

\* A gated capture never leaves drops waiting past the interval, and no two
\* reports come closer than the interval unless a lifecycle call forced one.
THEOREM ReportsAreOnTime == Spec => []ReportsOnTime
  <1>1. Init => TypeOK /\ StampIsLastReport /\ ReportsOnTime
    <2>1. Init => StampIsLastReport /\ ReportsOnTime
      BY DEF Init, StampIsLastReport, ReportsOnTime
    <2> QED
      BY <2>1, TypeInit
  <1>2. TypeOK /\ StampIsLastReport /\ ReportsOnTime /\ [Next]_vars
          => TypeOK' /\ StampIsLastReport' /\ ReportsOnTime'
    BY TypeNext, OnTimeNext
  <1> QED
    BY <1>1, <1>2, PTL DEF Spec

-----------------------------------------------------------------------------
(* The samples                                                             *)

\* names stands for the events all: it is all of them, or as many as may be.
StandsFor(names, all) ==
    /\ names \subseteq all
    /\ names = all \/ Cardinality(names) = SampleLimit

NamesOf(ds) == {drops[d] : d \in ds}

\* The sample kept stands for the pending drops, and reports are of past drops.
SamplesStand ==
    /\ IsFiniteSet(samples) /\ Cardinality(samples) <= SampleLimit
    /\ StandsFor(samples, NamesOf(Pending))
    /\ \A i \in 1..Len(reports) : reports[i].built.upto <= Len(drops)

\* A step drops one capture or none, and either counts or takes a report.
Drops(e) == drops' = Append(drops, e)
Keeps(n, names) == droppedSince' = n /\ samples' = names /\ UNCHANGED reports
Reporting(n, names, upto) ==
    \E forced \in BOOLEAN : BuildReport(clock, Snapshot(n, names, upto), forced)

LEMMA SamplingSteps ==
    ASSUME [Next]_vars
    PROVE  \/ UNCHANGED drops /\ Keeps(droppedSince, samples)
           \/ UNCHANGED drops /\ Reporting(droppedSince, samples, Len(drops))
           \/ \E e \in Events :
                /\ Drops(e)
                /\ \/ Keeps(droppedSince + 1, Sampled(e))
                   \/ Reporting(droppedSince + 1, Sampled(e), Len(drops) + 1)
  <1> DEFINE Goal ==
           \/ UNCHANGED drops /\ Keeps(droppedSince, samples)
           \/ UNCHANGED drops /\ Reporting(droppedSince, samples, Len(drops))
           \/ \E e \in Events :
                /\ Drops(e)
                /\ \/ Keeps(droppedSince + 1, Sampled(e))
                   \/ Reporting(droppedSince + 1, Sampled(e), Len(drops) + 1)
  <1>1. ASSUME NEW t \in Threads, NEW e \in Events, CaptureAdmitted(t, e) PROVE Goal
    <2>1. AdmitAt(t, clock)
      BY <1>1 DEF CaptureAdmitted
    <2>2. CASE droppedSince > 0 /\ Due(clock)
      BY <2>1, <2>2 DEF AdmitAt, Reporting
    <2>3. CASE ~ (droppedSince > 0 /\ Due(clock))
      BY <2>1, <2>3 DEF AdmitAt, Keeps, KeepCounting
    <2> QED
      BY <2>2, <2>3
  <1>2. ASSUME NEW t \in Threads, NEW e \in Events, CaptureDropped(t, e) PROVE Goal
    <2>1. DropAt(t, e, clock)
      BY <1>2 DEF CaptureDropped
    <2>2. CASE Due(clock)
      BY <2>1, <2>2 DEF DropAt, Drops, Reporting
    <2>3. CASE ~ Due(clock)
      BY <2>1, <2>3 DEF DropAt, Drops, Keeps, KeepCounting
    <2> QED
      BY <2>2, <2>3
  <1>3. ASSUME NEW t \in Threads, NEW op, Drain(t, op) PROVE Goal
    <2>1. CASE DrainsWhen
      BY <1>3, <2>1 DEF Drain, Reporting
    <2>2. CASE ~ DrainsWhen
      BY <1>3, <2>2 DEF Drain, Keeps, accounting
    <2> QED
      BY <2>1, <2>2
  <1>4. ASSUME NEW t \in Threads, NEW e \in Events, CaptureExempt(t, e) PROVE Goal
    BY <1>4 DEF CaptureExempt, Keeps, accounting
  <1>5. ASSUME NEW t \in Threads, Finish(t) PROVE Goal
    BY <1>5 DEF Finish, Forward, ForwardRaises, EmitReport, CallInner, Keeps, accounting
  <1>6. CASE Tick \/ UNCHANGED vars
    BY <1>6 DEF Tick, Keeps, accounting, vars
  <1> QED
    BY <1>1, <1>2, <1>3, <1>4, <1>5, <1>6 DEF Next, Flush, Shutdown

\* Sampling one more drop keeps the sample within its limit and standing for
\* the drops it is of.
LEMMA SampledStands ==
    ASSUME NEW e, NEW all, IsFiniteSet(samples), Cardinality(samples) <= SampleLimit,
           StandsFor(samples, all)
    PROVE  /\ IsFiniteSet(Sampled(e)) /\ Cardinality(Sampled(e)) <= SampleLimit
           /\ StandsFor(Sampled(e), all \cup {e})
  <1>1. SampleLimit \in Nat /\ Cardinality(samples) \in Nat
    BY ReportAssumption, FS_CardinalityType DEF ReportAssumption
  <1>2. CASE Cardinality(samples) < SampleLimit
    <2>1. Sampled(e) = samples \cup {e}
      BY <1>2 DEF Sampled
    <2>2. /\ IsFiniteSet(samples \cup {e})
          /\ Cardinality(samples \cup {e})
               = IF e \in samples THEN Cardinality(samples) ELSE Cardinality(samples) + 1
      BY FS_AddElement
    <2>3. samples = all
      BY <1>1, <1>2 DEF StandsFor
    <2> QED
      BY <1>1, <1>2, <2>1, <2>2, <2>3 DEF StandsFor
  <1>3. CASE ~ (Cardinality(samples) < SampleLimit)
    <2>1. Sampled(e) = samples /\ Cardinality(samples) = SampleLimit
      BY <1>1, <1>3 DEF Sampled
    <2> QED
      BY <1>1, <2>1 DEF StandsFor
  <1> QED
    BY <1>2, <1>3

\* Past reports stay right: their drops keep their names.
LEMMA PastReports ==
    ASSUME TypeOK, SamplesStand, ReportSamplesItsDrops,
           UNCHANGED drops \/ \E e \in Events : Drops(e),
           NEW i \in 1..Len(reports), reports'[i] = reports[i]
    PROVE  /\ StandsFor(reports'[i].built.sample, {drops'[d] : d \in Covered(reports'[i].built)})
           /\ reports'[i].built.upto <= Len(drops')
  <1> DEFINE b == reports[i].built
  <1>1. b \in Reports
    <2> DEFINE Entry == [at : Nat, forced : BOOLEAN, built : Reports]
    <2>1. reports \in Seq(Entry)
      BY DEF TypeOK
    <2>2. reports[i] \in Entry
      <3> HIDE DEF Entry
      <3> QED
        BY <2>1
    <2> QED
      BY <2>2
  <1>2. b.upto <= Len(drops) /\ StandsFor(b.sample, {drops[d] : d \in Covered(b)})
    BY DEF SamplesStand, ReportSamplesItsDrops, StandsFor
  <1>3. Len(drops) \in Nat /\ Len(drops') \in Nat /\ Len(drops) <= Len(drops')
        /\ \A d \in 1..Len(drops) : drops'[d] = drops[d]
    <2>1. CASE UNCHANGED drops
      BY <2>1 DEF TypeOK
    <2>2. ASSUME NEW e \in Events, Drops(e)
          PROVE  /\ Len(drops') = Len(drops) + 1 /\ Len(drops) \in Nat
                 /\ \A d \in 1..Len(drops) : drops'[d] = drops[d]
      BY <2>2 DEF TypeOK, Drops
    <2> QED
      BY <2>1, <2>2
  <1> HIDE DEF b
  <1>4. \A d \in Covered(b) : d \in 1..Len(drops)
    BY <1>1, <1>2, <1>3 DEF Covered, Reports
  <1>5. {drops'[d] : d \in Covered(b)} = {drops[d] : d \in Covered(b)}
    BY <1>3, <1>4
  <1>6. b.upto <= Len(drops')
    BY <1>1, <1>2, <1>3 DEF Reports
  <1>7. reports'[i].built = b
    BY DEF b
  <1> QED
    BY <1>2, <1>5, <1>6, <1>7

\* A report that stands for its drops, the last of them the latest one.
LEMMA NewReport ==
    ASSUME TypeOK, SamplesStand, ReportSamplesItsDrops,
           UNCHANGED drops \/ \E e \in Events : Drops(e),
           NEW r \in Reports, NEW forced \in BOOLEAN, BuildReport(clock, r, forced),
           r.upto = Len(drops'),
           StandsFor(r.sample, {drops'[d] : d \in Covered(r)})
    PROVE  SamplesStand' /\ ReportSamplesItsDrops'
  <1>1. /\ Len(reports) \in Nat /\ Len(reports') = Len(reports) + 1
        /\ \A i \in 1..Len(reports) : reports'[i] = reports[i]
        /\ reports'[Len(reports) + 1].built = r
        /\ droppedSince' = 0
    BY TakenReport
  <1>2. samples' = {} /\ SampleLimit \in Nat /\ Len(drops') \in Nat
    BY ReportAssumption DEF ReportAssumption, BuildReport, ResetAccounting, TypeOK, Drops
  <1>3. \A i \in 1..Len(reports) :
          /\ StandsFor(reports'[i].built.sample, {drops'[d] : d \in Covered(reports'[i].built)})
          /\ reports'[i].built.upto <= Len(drops')
    BY <1>1, PastReports
  <1>4. \A i \in 1..Len(reports') :
          /\ StandsFor(reports'[i].built.sample, {drops'[d] : d \in Covered(reports'[i].built)})
          /\ reports'[i].built.upto <= Len(drops')
    <2> TAKE i \in 1..Len(reports')
    <2>1. CASE i \in 1..Len(reports)
      BY <1>3, <2>1
    <2>2. CASE i = Len(reports) + 1
      <3>1. reports'[i].built = r
        BY <1>1, <2>2
      <3>2. r.upto <= Len(drops')
        BY <1>2
      <3> QED
        BY <3>1, <3>2
    <2> QED
      BY <1>1, <2>1, <2>2
  <1>5. NamesOf(Pending)' = {} /\ IsFiniteSet(samples') /\ Cardinality(samples') = 0
    BY <1>1, <1>2, FS_EmptySet DEF NamesOf, Pending
  <1> QED
    BY <1>2, <1>4, <1>5 DEF SamplesStand, ReportSamplesItsDrops, StandsFor

LEMMA SamplesNext ==
    ASSUME TypeOK, SamplesStand, ReportSamplesItsDrops, [Next]_vars
    PROVE  SamplesStand' /\ ReportSamplesItsDrops'
  <1>t. Len(drops) \in Nat /\ droppedSince \in Nat /\ droppedSince <= Len(drops)
    BY DEF TypeOK
  <1>1. CASE UNCHANGED drops /\ Keeps(droppedSince, samples)
    BY <1>1
    DEF Keeps, SamplesStand, ReportSamplesItsDrops, NamesOf, Pending, StandsFor
  <1>2. CASE UNCHANGED drops /\ Reporting(droppedSince, samples, Len(drops))
    <2> DEFINE r == Snapshot(droppedSince, samples, Len(drops))
    <2>1. PICK forced \in BOOLEAN : BuildReport(clock, r, forced)
      BY <1>2 DEF Reporting
    <2>2. r \in Reports /\ r.upto = Len(drops) /\ r.sample = samples /\ Covered(r) = Pending
      BY ReportTypes DEF Snapshot, Covered, Pending
    <2> HIDE DEF r
    <2>3. StandsFor(r.sample, {drops'[d] : d \in Covered(r)})
      BY <1>2, <2>2 DEF SamplesStand, NamesOf
    <2> QED
      BY <1>2, <2>1, <2>2, <2>3, NewReport
  <1>3. ASSUME NEW e \in Events, Drops(e),
               \/ Keeps(droppedSince + 1, Sampled(e))
               \/ Reporting(droppedSince + 1, Sampled(e), Len(drops) + 1)
        PROVE  SamplesStand' /\ ReportSamplesItsDrops'
    <2>1. /\ Len(drops') = Len(drops) + 1 /\ drops'[Len(drops) + 1] = e
          /\ \A d \in 1..Len(drops) : drops'[d] = drops[d]
      BY <1>3 DEF Drops, TypeOK
    <2> DEFINE now == (Len(drops) - droppedSince + 1)..(Len(drops) + 1)
    <2>2. now = Pending \cup {Len(drops) + 1} /\ \A d \in Pending : d \in 1..Len(drops)
      BY <1>t DEF Pending
    <2>3. {drops'[d] : d \in now} = NamesOf(Pending) \cup {e}
      <3> HIDE DEF now
      <3> QED
        BY <2>1, <2>2 DEF NamesOf
    <2>4. /\ IsFiniteSet(Sampled(e)) /\ Cardinality(Sampled(e)) <= SampleLimit
          /\ StandsFor(Sampled(e), {drops'[d] : d \in now})
      <3> HIDE DEF now
      <3> QED
        BY <2>3, SampledStands DEF SamplesStand
    <2>5. CASE Keeps(droppedSince + 1, Sampled(e))
      <3>1. Pending' = now
        BY <1>t, <2>1, <2>5 DEF Keeps, Pending
      <3> HIDE DEF now
      <3>2. samples' = Sampled(e) /\ UNCHANGED reports
        BY <2>5 DEF Keeps
      <3>3. \A i \in 1..Len(reports) :
              /\ StandsFor(reports'[i].built.sample, {drops'[d] : d \in Covered(reports'[i].built)})
              /\ reports'[i].built.upto <= Len(drops')
        BY <1>3, <3>2, PastReports
      <3>4. ReportSamplesItsDrops'
        BY <3>2, <3>3 DEF ReportSamplesItsDrops, StandsFor
      <3>5. StandsFor(samples, NamesOf(Pending))'
        BY <2>4, <3>1, <3>2 DEF StandsFor, NamesOf
      <3> QED
        BY <2>4, <3>2, <3>3, <3>4, <3>5 DEF SamplesStand
    <2>6. CASE Reporting(droppedSince + 1, Sampled(e), Len(drops) + 1)
      <3> DEFINE r == Snapshot(droppedSince + 1, Sampled(e), Len(drops) + 1)
      <3>1. PICK forced \in BOOLEAN : BuildReport(clock, r, forced)
        BY <2>6 DEF Reporting
      <3>2. r \in Reports /\ r.upto = Len(drops) + 1 /\ r.count = droppedSince + 1
            /\ r.sample = Sampled(e)
        BY ReportTypes DEF Snapshot
      <3> HIDE DEF r
      <3>3. Covered(r) = now
        BY <1>t, <3>2 DEF Covered
      <3> HIDE DEF now
      <3>4. StandsFor(r.sample, {drops'[d] : d \in Covered(r)})
        BY <2>4, <3>2, <3>3
      <3> QED
        BY <1>3, <2>1, <3>1, <3>2, <3>4, NewReport
    <2> QED
      BY <1>3, <2>5, <2>6
  <1> QED
    BY <1>1, <1>2, <1>3, SamplingSteps

LEMMA SamplesInit == Init => SamplesStand /\ ReportSamplesItsDrops
  <1> SUFFICES ASSUME Init PROVE SamplesStand /\ ReportSamplesItsDrops
    OBVIOUS
  <1>1. /\ samples = {} /\ drops = <<>> /\ reports = <<>> /\ droppedSince = 0
        /\ SampleLimit \in Nat
    BY ReportAssumption DEF ReportAssumption, Init
  <1>2. IsFiniteSet(samples) /\ Cardinality(samples) = 0 /\ NamesOf(Pending) = {}
    BY <1>1, FS_EmptySet DEF NamesOf, Pending
  <1> QED
    BY <1>1, <1>2 DEF SamplesStand, ReportSamplesItsDrops, StandsFor

\* A report names only events it dropped, and all of them up to the limit,
\* however drops and reports of several threads interleave.
THEOREM ReportsSampleTheirDrops == Spec => []ReportSamplesItsDrops
  <1>1. Init => TypeOK /\ SamplesStand /\ ReportSamplesItsDrops
    BY TypeInit, SamplesInit
  <1>2. TypeOK /\ SamplesStand /\ ReportSamplesItsDrops /\ [Next]_vars
          => TypeOK' /\ SamplesStand' /\ ReportSamplesItsDrops'
    BY TypeNext, SamplesNext
  <1> QED
    BY <1>1, <1>2, PTL DEF Spec

-----------------------------------------------------------------------------
(* The tail of a flood                                                     *)

\* Drop d was handed to a live client, is carried there, or lost with a raise.
Safe(d) == d \in delivered \/ d \in lost \/ \E t \in Threads : d \in InFlight(t)

\* While the client is up, every drop is pending or safe ...
UpAccounted == innerUp => \A d \in 1..Len(drops) : d \in Pending \/ Safe(d)

\* ... and safe from the moment a lifecycle call has drained.
DrainedIsSafe ==
    innerUp => \A t \in Threads :
        call[t].pc # "idle" /\ call[t].op # "capture"
          => \A d \in 1..call[t].report.upto : Safe(d)

LEMMA SafeStays ==
    ASSUME TypeOK, [Next]_vars, innerUp, NEW d, Safe(d)
    PROVE  Safe(d)'
  <1>1. ASSUME NEW t \in Threads, call[t].pc = "idle", NEW op, NEW pc, NEW r,
               Proceed(t, op, pc, r), UNCHANGED <<delivered, lost>>
        PROVE  Safe(d)'
    <2>1. \A u \in Threads : u # t => InFlight(u)' = InFlight(u)
      BY <1>1 DEF Proceed, InFlight, TypeOK
    <2>2. InFlight(t) = {}
      BY <1>1 DEF InFlight
    <2> QED
      BY <1>1, <2>1, <2>2 DEF Safe
  <1>2. CASE UNCHANGED <<call, delivered, lost>>
    BY <1>2 DEF Safe, InFlight
  <1>3. ASSUME NEW t \in Threads, NEW e \in Events,
               CaptureAdmitted(t, e) \/ CaptureDropped(t, e) \/ CaptureExempt(t, e)
        PROVE  Safe(d)'
    <2>1. call[t].pc = "idle" /\ UNCHANGED <<delivered, lost>>
      BY <1>3
      DEF CaptureAdmitted, CaptureDropped, CaptureExempt, MayCapture, AdmitAt, DropAt, fates
    <2>2. UNCHANGED call \/ \E pc, r : Proceed(t, "capture", pc, r)
      BY <1>3 DEF CaptureAdmitted, CaptureDropped, CaptureExempt, AdmitAt, DropAt
    <2> QED
      BY <1>1, <1>2, <2>1, <2>2
  <1>4. ASSUME NEW t \in Threads, Flush(t) \/ Shutdown(t) PROVE Safe(d)'
    <2>1. call[t].pc = "idle" /\ UNCHANGED <<delivered, lost>>
      BY <1>4 DEF Flush, Shutdown, Drain, fates
    <2>2. \E op, pc, r : Proceed(t, op, pc, r)
      BY <1>4 DEF Flush, Shutdown, Drain
    <2> QED
      BY <1>1, <2>1, <2>2
  <1>5. ASSUME NEW t \in Threads, Finish(t) PROVE Safe(d)'
    <2>1. delivered \subseteq delivered' /\ lost \subseteq lost'
          /\ \A u \in Threads : u # t => InFlight(u)' = InFlight(u)
      <3>1. delivered \subseteq delivered' /\ lost \subseteq lost'
        BY <1>5 DEF Finish, Forward, ForwardRaises, EmitReport, CallInner, fates
      <3>2. \A u \in Threads : u # t => call'[u] = call[u]
        BY <1>5 DEF Finish, Forward, ForwardRaises, EmitReport, CallInner, TypeOK
      <3> QED
        BY <3>1, <3>2 DEF InFlight
    <2>2. InFlight(t) \subseteq InFlight(t)' \cup delivered' \cup lost'
      <3>1. CASE Forward(t)
        <4>1. CASE call[t].report.count = 0
          <5>1. call[t].report \in Reports
            BY DEF TypeOK, Calls
          <5>2. Covered(call[t].report) = {}
            BY <4>1, <5>1 DEF Covered, Reports
          <5> QED
            BY <5>2 DEF InFlight
        <4>2. CASE call[t].report.count # 0
          <5> DEFINE c == [call[t] EXCEPT !.pc = "emit"]
          <5>1. call' = [call EXCEPT ![t] = c]
            BY <3>1, <4>2 DEF Forward, Forwarded
          <5>2. c.pc = "emit" /\ c.report = call[t].report
            BY DEF TypeOK, Calls
          <5>3. call'[t] = c
            BY <5>1 DEF TypeOK
          <5> QED
            BY <5>2, <5>3 DEF InFlight
        <4> QED
          BY <4>1, <4>2
      <3>2. CASE ForwardRaises(t)
        BY <3>2 DEF ForwardRaises, InFlight
      <3>3. CASE EmitReport(t)
        BY <3>3 DEF EmitReport, InFlight
      <3>4. CASE CallInner(t)
        BY <3>4 DEF CallInner, InFlight
      <3> QED
        BY <1>5, <3>1, <3>2, <3>3, <3>4 DEF Finish
    <2> QED
      BY <2>1, <2>2 DEF Safe
  <1>6. CASE Tick \/ UNCHANGED vars
    BY <1>2, <1>6 DEF Tick, fates, vars
  <1> QED
    BY <1>3, <1>4, <1>5, <1>6 DEF Next

\* A client that was shut down stays so.
LEMMA StaysDown == ASSUME TypeOK, [Next]_vars, innerUp' PROVE innerUp
  BY DEF TypeOK, Next, CaptureAdmitted, CaptureDropped, CaptureExempt, AdmitAt, DropAt,
         Flush, Shutdown, Drain, Finish, Forward, ForwardRaises, EmitReport, CallInner,
         Tick, vars

LEMMA UpAccountedNext ==
    ASSUME TypeOK, UpAccounted, [Next]_vars
    PROVE  UpAccounted'
  <1> SUFFICES ASSUME innerUp', NEW d \in 1..Len(drops')
               PROVE  d \in Pending' \/ Safe(d)'
    BY DEF UpAccounted
  <1>1. innerUp /\ (Safe(d) => Safe(d)')
    BY StaysDown, SafeStays
  <1>2. Len(drops) \in Nat /\ Len(drops') \in Nat /\ droppedSince \in Nat /\ droppedSince' \in Nat
    <2>1. TypeOK'
      BY TypeNext
    <2> QED
      BY <2>1 DEF TypeOK
  <1>3. ASSUME d <= Len(drops) - droppedSince PROVE Safe(d)'
    <2>1. d \in 1..Len(drops) /\ d \notin Pending
      BY <1>2, <1>3 DEF Pending
    <2> QED
      BY <1>1, <2>1 DEF UpAccounted
  <1>4. ASSUME Counts, ~ (d <= Len(drops) - droppedSince) PROVE d \in Pending'
    <2>1. Len(drops') - droppedSince' = Len(drops) - droppedSince
      BY <1>4 DEF Counts
    <2> QED
      BY <1>2, <1>4, <2>1 DEF Pending
  <1>5. ASSUME Takes, ~ (d <= Len(drops) - droppedSince) PROVE Safe(d)'
    <2>1. PICK r \in Reports, t \in Threads, pc \in {"forward", "emit"},
               op \in {"capture", "flush", "shutdown"} :
            /\ r.upto = Len(drops')
            /\ r.upto - r.count = Len(drops) - droppedSince
            /\ Proceed(t, op, pc, r)
      BY <1>5 DEF Takes
    <2>2. InFlight(t)' = Covered(r)
      BY <2>1 DEF Proceed, InFlight, TypeOK
    <2>3. d \in Covered(r)
      BY <1>2, <1>5, <2>1 DEF Covered, Reports
    <2> QED
      BY <2>2, <2>3 DEF Safe
  <1> QED
    BY <1>3, <1>4, <1>5, TakesOrCounts

LEMMA DrainedIsSafeNext ==
    ASSUME TypeOK, UpAccounted, DrainedIsSafe, [Next]_vars
    PROVE  DrainedIsSafe'
  <1> SUFFICES ASSUME innerUp', NEW t \in Threads, call'[t].pc # "idle", call'[t].op # "capture",
                      NEW d \in 1..call'[t].report.upto
               PROVE  Safe(d)'
    BY DEF DrainedIsSafe
  <1>1. innerUp
    BY StaysDown
  <1>2. ASSUME call[t].pc # "idle", call[t].op = call'[t].op, call[t].report = call'[t].report
        PROVE  Safe(d)'
    <2>1. Safe(d)
      BY <1>1, <1>2 DEF DrainedIsSafe
    <2> QED
      BY <1>1, <2>1, SafeStays
  <1>3. ASSUME NEW op, Drain(t, op) PROVE Safe(d)'
    <2>1. Len(drops') = Len(drops) /\ Len(drops) \in Nat /\ droppedSince \in Nat
      BY <1>3 DEF Drain, TypeOK
    <2>2. droppedSince' = 0
      <3>1. CASE DrainsWhen
        BY <1>3, <3>1 DEF Drain, BuildReport, ResetAccounting
      <3>2. CASE ~ DrainsWhen
        <4>1. UNCHANGED droppedSince
          BY <1>3, <3>2 DEF Drain, accounting
        <4> QED
          BY <2>1, <3>2, <4>1 DEF DrainsWhen
      <3> QED
        BY <3>1, <3>2
    <2>3. call'[t].report = Snapshot(droppedSince, samples, Len(drops))
      <3> DEFINE r == Snapshot(droppedSince, samples, Len(drops))
      <3>1. Proceed(t, op, "emit", r) \/ Proceed(t, op, "inner", r)
        BY <1>3 DEF Drain
      <3> HIDE DEF r
      <3>2. call'[t].report = r
        BY <3>1 DEF Proceed, TypeOK
      <3> QED
        BY <3>2 DEF r
    <2>4. d \in 1..Len(drops') /\ Pending' = {}
      BY <2>1, <2>2, <2>3 DEF Snapshot, Pending
    <2> QED
      BY <2>4, UpAccountedNext DEF UpAccounted
  <1>4. ASSUME NEW u \in Threads, u # t, NEW c, call' = [call EXCEPT ![u] = c] PROVE Safe(d)'
    <2>1. call'[t] = call[t]
      BY <1>4 DEF TypeOK
    <2> QED
      BY <1>2, <2>1
  <1>5. CASE UNCHANGED call
    BY <1>2, <1>5
  <1>6. ASSUME NEW u \in Threads, NEW e \in Events,
               CaptureAdmitted(u, e) \/ CaptureDropped(u, e) \/ CaptureExempt(u, e)
        PROVE  Safe(d)'
    <2>1. UNCHANGED call \/ \E pc, r : Proceed(u, "capture", pc, r)
      BY <1>6 DEF CaptureAdmitted, CaptureDropped, CaptureExempt, AdmitAt, DropAt
    <2>2. ASSUME NEW pc, NEW r, Proceed(u, "capture", pc, r) PROVE u # t
      BY <2>2 DEF Proceed, TypeOK
    <2> QED
      BY <1>4, <1>5, <2>1, <2>2 DEF Proceed
  <1>7. ASSUME NEW u \in Threads, NEW op, Drain(u, op) PROVE Safe(d)'
    <2>1. CASE u = t
      BY <1>3, <1>7, <2>1
    <2>2. CASE u # t
      BY <1>4, <1>7, <2>2 DEF Drain, Proceed
    <2> QED
      BY <2>1, <2>2
  <1>8. ASSUME NEW u \in Threads, Finish(u) PROVE Safe(d)'
    <2>1. CASE u # t
      BY <1>4, <1>8, <2>1 DEF Finish, Forward, ForwardRaises, EmitReport, CallInner
    <2>2. CASE u = t
      <3> DEFINE on(pc) == [call[t] EXCEPT !.pc = pc]
      <3>1. \/ call' = [call EXCEPT ![t] = Idle]
            \/ \E pc \in {"emit", "inner"} : call' = [call EXCEPT ![t] = on(pc)]
        BY <1>8, <2>2 DEF Finish, Forward, Forwarded, ForwardRaises, EmitReport, CallInner
      <3>2. \A pc \in {"emit", "inner"} :
              on(pc).op = call[t].op /\ on(pc).report = call[t].report
        BY DEF TypeOK, Calls
      <3> HIDE DEF on
      <3>3. call'[t] = Idle \/ \E pc \in {"emit", "inner"} : call'[t] = on(pc)
        BY <3>1 DEF TypeOK
      <3>4. call[t].op = call'[t].op /\ call[t].report = call'[t].report
        BY <3>2, <3>3 DEF Idle
      <3>5. call[t].pc # "idle"
        BY <1>8, <2>2 DEF Finish, Forward, ForwardRaises, EmitReport, CallInner
      <3> QED
        BY <1>2, <3>4, <3>5
    <2> QED
      BY <2>1, <2>2
  <1>9. CASE Tick \/ UNCHANGED vars
    BY <1>5, <1>9 DEF Tick, vars
  <1> QED
    BY <1>6, <1>7, <1>8, <1>9 DEF Next, Flush, Shutdown

\* A flood's tail survives the first shutdown: what was dropped before it
\* drained was handed to the live client, or another thread still carries it,
\* or a capture that raised took it along.
THEOREM TailIsDelivered == Spec => ShutdownDeliversTail
  <1>1. Init => UpAccounted /\ DrainedIsSafe
    BY DEF Init, UpAccounted, DrainedIsSafe, Idle
  <1>2. TypeOK /\ UpAccounted /\ DrainedIsSafe /\ [Next]_vars
          => TypeOK' /\ UpAccounted' /\ DrainedIsSafe'
    BY TypeNext, UpAccountedNext, DrainedIsSafeNext
  <1>3. TypeOK /\ DrainedIsSafe
          => \A t \in Threads :
               call[t].pc = "inner" /\ call[t].op = "shutdown" /\ innerUp
                 => 1..call[t].report.upto \subseteq
                      delivered \cup lost \cup UNION {InFlight(u) : u \in Threads}
    BY DEF DrainedIsSafe, Safe
  <1>4. TypeOK /\ DrainedIsSafe /\ [Next]_vars
          => [\A t \in Threads :
                call[t].pc = "inner" /\ call[t].op = "shutdown" /\ innerUp /\ ~ innerUp'
                  => 1..call[t].report.upto \subseteq
                       delivered \cup lost \cup UNION {InFlight(u) : u \in Threads}]_vars
    BY <1>3
  <1> QED
    BY <1>1, <1>2, <1>4, TypeInit, PTL DEF Spec, ShutdownDeliversTail

-----------------------------------------------------------------------------
(* The sends of requests over the limiter                                  *)

Captures == [event : Events, at : Nat, dropped : BOOLEAN]

\* A send's loop is over steps that are there, and its captures are the loop's
\* first ones and then the summary.
Sends ==
    /\ emits \in [Requests -> BOOLEAN]
    /\ steps \in [Requests -> Seq(Steps)]
    /\ phase \in [Requests -> {"before", "sending", "returned", "raised"}]
    /\ loop \in [Requests -> Nat]
    /\ sent \in [Requests -> Seq(Captures)]
    /\ \A r \in Requests :
         /\ loop[r] <= Len(steps[r])
         /\ Len(sent[r]) <= loop[r] + 1
         /\ Len(sent[r]) = loop[r] + 1 => sent[r][Len(sent[r])].event = Summary[r]
         /\ phase[r] = "before" => sent[r] = <<>>
         /\ phase[r] = "returned" => Len(sent[r]) = loop[r] + 1

\* What a capture that was dropped leaves behind, and while the clock stands
\* still an empty bucket.
DropsShow ==
    \A r \in Requests : \A j \in 1..Len(sent[r]) :
        /\ sent[r][j].at <= clock
        /\ sent[r][j].dropped =>
             /\ \E d \in 1..Len(drops) : drops[d] = sent[r][j].event
             /\ sent[r][j].at = clock => tokens < Unit /\ lastRefill = clock

SendInv == TypeOK /\ Sends /\ DropsShow /\ SurvivorsComeFirst

LEMMA SendInvInit == SendInit => SendInv
  <1> SUFFICES ASSUME SendInit PROVE SendInv
    OBVIOUS
  <1>1. TypeOK
    BY TypeInit DEF SendInit
  <1>2. Sends
    <2>1. \A S : <<>> \in Seq(S)
      OBVIOUS
    <2> QED
      BY <2>1 DEF SendInit, Sends
  <1>3. DropsShow /\ SurvivorsComeFirst
    BY DEF SendInit, DropsShow, SurvivorsComeFirst
  <1> QED
    BY <1>1, <1>2, <1>3 DEF SendInv

LEMMA NextEventIsEvent ==
    ASSUME SendInv, NEW r \in Requests
    PROVE  NextEvent(r) \in Events
  <1>1. Steps \subseteq Events /\ Summary[r] \in Events
    BY SendAssumption DEF SendAssumption
  <1>2. CASE Done(r) < loop[r]
    <2>1. /\ Done(r) \in Nat /\ loop[r] \in Nat /\ Len(steps[r]) \in Nat
          /\ steps[r] \in Seq(Steps) /\ loop[r] <= Len(steps[r])
      BY DEF SendInv, Sends, Done
    <2>2. Done(r) + 1 \in 1..Len(steps[r])
      BY <1>2, <2>1
    <2> QED
      BY <1>1, <1>2, <2>1, <2>2 DEF NextEvent
  <1> QED
    BY <1>1, <1>2 DEF NextEvent

\* Every step of the composition is one of the limiter's or none, so what is
\* proved of the limiter holds of it under the sends.
LEMMA SendIsLimiterStep == SendInv /\ [SendNext]_allVars => [Next]_vars
  <1> SUFFICES ASSUME SendInv, [SendNext]_allVars PROVE [Next]_vars
    OBVIOUS
  <1>t. Requests \subseteq Threads
    BY SendAssumption DEF SendAssumption
  <1>1. ASSUME NEW r \in Requests, SendEvent(r) PROVE Next
    BY <1>1, <1>t, NextEventIsEvent DEF SendEvent, Next
  <1>2. ASSUME NEW t \in Threads, Ends(t) PROVE Next
    BY <1>2 DEF Ends, CaptureRaises, Next, Finish
  <1>3. ASSUME NEW t \in Threads, Uses(t) PROVE Next
    BY <1>3 DEF Uses, Next
  <1> QED
    BY <1>1, <1>2, <1>3
    DEF SendNext, StepEnds, BeginSend, SendReturns, IterationRaises, Next, allVars

\* What the limiter's steps do to the bucket and the drops while the clock
\* stands still: a bucket without a token stays so.
LEMMA DryBucketStays ==
    ASSUME TypeOK, [Next]_vars, clock' = clock
    PROVE  /\ tokens < Unit /\ lastRefill = clock => tokens' < Unit /\ lastRefill' = clock
           /\ \A d \in 1..Len(drops) : d \in 1..Len(drops') /\ drops'[d] = drops[d]
  <1>u. Unit \in Nat /\ Rate \in Nat /\ Burst \in Nat /\ tokens \in 0..Burst /\ clock \in Nat
    BY BucketAssumption DEF BucketAssumption, TypeOK
  <1>r. lastRefill = clock => Refilled(clock) = tokens
    BY <1>u DEF Refilled
  <1>1. CASE \E t \in Threads, e \in Events : CaptureAdmitted(t, e)
    BY <1>1, <1>r, <1>u DEF CaptureAdmitted, AdmitAt, HasToken
  <1>2. CASE \E t \in Threads, e \in Events : CaptureDropped(t, e)
    <2>1. /\ ~ (Refilled(clock) >= Unit) /\ tokens' = Refilled(clock) /\ lastRefill' = clock
          /\ \E e \in Events : drops' = Append(drops, e)
      BY <1>2 DEF CaptureDropped, DropAt, HasToken
    <2>2. Refilled(clock) \in 0..Burst
      BY RefillUp
    <2>3. tokens' < Unit
      BY <2>1, <2>2, <1>u
    <2>4. \A d \in 1..Len(drops) : d \in 1..Len(drops') /\ drops'[d] = drops[d]
      BY <2>1 DEF TypeOK
    <2> QED
      BY <2>1, <2>3, <2>4
  <1>3. CASE UNCHANGED <<bucket, drops>>
    BY <1>3 DEF bucket
  <1> QED
    BY <1>1, <1>2, <1>3
    DEF Next, CaptureExempt, Flush, Shutdown, Drain, Finish, Forward, ForwardRaises, EmitReport,
        CallInner, Tick, vars, bucket

LEMMA ClockAndDrops ==
    ASSUME TypeOK, [Next]_vars
    PROVE  /\ clock \in Nat /\ (clock' = clock \/ clock' = clock + 1)
           /\ \A d \in 1..Len(drops) : d \in 1..Len(drops') /\ drops'[d] = drops[d]
  <1>1. clock \in Nat
    BY DEF TypeOK
  <1>2. clock' = clock \/ (clock' = clock + 1 /\ drops' = drops)
    BY DEF Next, CaptureAdmitted, CaptureDropped, AdmitAt, DropAt, CaptureExempt, Flush, Shutdown,
           Drain, Finish, Forward, ForwardRaises, EmitReport, CallInner, Tick, vars
  <1> QED
    BY <1>1, <1>2, DryBucketStays

\* A step that adds no capture to a send.
LEMMA ShownStays ==
    ASSUME SendInv, [Next]_vars, sent' = sent
    PROVE  DropsShow' /\ SurvivorsComeFirst'
  <1>1. SurvivorsComeFirst'
    BY DEF SendInv, SurvivorsComeFirst
  <1>2. DropsShow'
    <2> SUFFICES ASSUME NEW r \in Requests, NEW j \in 1..Len(sent[r])
                 PROVE  /\ sent[r][j].at <= clock'
                        /\ sent[r][j].dropped =>
                             /\ \E d \in 1..Len(drops') : drops'[d] = sent[r][j].event
                             /\ sent[r][j].at = clock' => tokens' < Unit /\ lastRefill' = clock'
      BY DEF DropsShow
    <2>1. /\ sent[r][j].at \in Nat /\ sent[r][j].at <= clock
          /\ sent[r][j].dropped =>
               /\ \E d \in 1..Len(drops) : drops[d] = sent[r][j].event
               /\ sent[r][j].at = clock => tokens < Unit /\ lastRefill = clock
      <3>1. sent[r] \in Seq(Captures)
        BY DEF SendInv, Sends
      <3>2. sent[r][j] \in Captures
        BY <3>1
      <3> QED
        BY <3>2 DEF SendInv, DropsShow, Captures
    <2>2. /\ clock \in Nat /\ (clock' = clock \/ clock' = clock + 1)
          /\ \A d \in 1..Len(drops) : d \in 1..Len(drops') /\ drops'[d] = drops[d]
      BY ClockAndDrops DEF SendInv
    <2>3. CASE clock' = clock
      BY <2>1, <2>2, <2>3, DryBucketStays DEF SendInv
    <2>4. CASE clock' = clock + 1
      <3>1. sent[r][j].at <= clock' /\ sent[r][j].at # clock'
        BY <2>1, <2>2, <2>4
      <3> QED
        BY <2>1, <2>2, <3>1
    <2> QED
      BY <2>2, <2>3, <2>4
  <1> QED
    BY <1>1, <1>2

\* The capture that thread r makes shows what the limiter did with it.
LEMMA CaptureShows ==
    ASSUME TypeOK, NEW r \in Threads, NEW e \in Events,
           CaptureAdmitted(r, e) \/ CaptureDropped(r, e) \/ CaptureExempt(r, e)
    PROVE  /\ clock' = clock /\ clock \in Nat
           /\ drops' # drops =>
                /\ \E d \in 1..Len(drops') : drops'[d] = e
                /\ tokens' < Unit /\ lastRefill' = clock
           /\ drops' = drops => e \in ExemptEvents \/ ~ (tokens < Unit /\ lastRefill = clock)
  <1>u. /\ Unit \in Nat /\ Rate \in Nat /\ Burst \in Nat
        /\ tokens \in 0..Burst /\ clock \in Nat /\ drops \in Seq(Events)
    BY BucketAssumption DEF BucketAssumption, TypeOK
  <1>1. CASE CaptureAdmitted(r, e)
    <2>1. lastRefill = clock => Refilled(clock) = tokens
      BY <1>u DEF Refilled
    <2> QED
      BY <1>1, <2>1, <1>u DEF CaptureAdmitted, AdmitAt, HasToken
  <1>2. CASE CaptureDropped(r, e)
    <2>1. /\ ~ (Refilled(clock) >= Unit) /\ tokens' = Refilled(clock) /\ lastRefill' = clock
          /\ drops' = Append(drops, e) /\ clock' = clock
      BY <1>2 DEF CaptureDropped, DropAt, HasToken
    <2>2. Refilled(clock) \in 0..Burst
      BY RefillUp
    <2>3. tokens' < Unit
      BY <2>1, <2>2, <1>u
    <2>4. Len(drops) + 1 \in 1..Len(drops') /\ drops'[Len(drops) + 1] = e /\ drops' # drops
      BY <2>1, <1>u
    <2> QED
      BY <2>1, <2>3, <2>4, <1>u
  <1>3. CASE CaptureExempt(r, e)
    BY <1>3, <1>u DEF CaptureExempt
  <1> QED
    BY <1>1, <1>2, <1>3

LEMMA ShownBySend ==
    ASSUME SendInv, NEW r \in Requests, SendEvent(r)
    PROVE  DropsShow' /\ SurvivorsComeFirst'
  <1> DEFINE e == NextEvent(r)
             last == [event |-> e, at |-> clock, dropped |-> drops' # drops]
  <1>1. /\ CaptureAdmitted(r, e) \/ CaptureDropped(r, e) \/ CaptureExempt(r, e)
        /\ sent' = [sent EXCEPT ![r] = Append(@, last)]
    BY DEF SendEvent
  <1>t. e \in Events /\ r \in Threads
    BY SendAssumption, NextEventIsEvent DEF SendAssumption
  <1>n. [Next]_vars
    BY SendIsLimiterStep DEF SendNext
  <1> HIDE DEF e
  <1>2. /\ clock' = clock /\ clock \in Nat
        /\ drops' # drops =>
             /\ \E d \in 1..Len(drops') : drops'[d] = e
             /\ tokens' < Unit /\ lastRefill' = clock
        /\ drops' = drops => e \in ExemptEvents \/ ~ (tokens < Unit /\ lastRefill = clock)
    BY <1>1, <1>t, CaptureShows DEF SendInv
  <1>3. /\ last.event = e /\ last.at = clock /\ last.dropped = (drops' # drops)
        /\ last \in Captures
    BY <1>t, <1>2 DEF Captures
  <1> HIDE DEF last
  <1>s. /\ sent \in [Requests -> Seq(Captures)]
        /\ \A u \in Requests : sent[u] \in Seq(Captures) /\ Len(sent[u]) \in Nat
    BY DEF SendInv, Sends
  <1>4. \A u \in Requests : \A j \in 1..Len(sent'[u]) :
          \/ j \in 1..Len(sent[u]) /\ sent'[u][j] = sent[u][j]
          \/ u = r /\ j = Len(sent[r]) + 1 /\ sent'[u][j] = last
    BY <1>1, <1>3, <1>s
  <1>5. DropsShow'
    <2> SUFFICES ASSUME NEW u \in Requests, NEW j \in 1..Len(sent'[u])
                 PROVE  /\ sent'[u][j].at <= clock
                        /\ sent'[u][j].dropped =>
                             /\ \E d \in 1..Len(drops') : drops'[d] = sent'[u][j].event
                             /\ sent'[u][j].at = clock => tokens' < Unit /\ lastRefill' = clock
      BY <1>2 DEF DropsShow
    <2>1. CASE j \in 1..Len(sent[u]) /\ sent'[u][j] = sent[u][j]
      <3>1. /\ sent[u][j].at <= clock
            /\ sent[u][j].dropped =>
                 /\ \E d \in 1..Len(drops) : drops[d] = sent[u][j].event
                 /\ sent[u][j].at = clock => tokens < Unit /\ lastRefill = clock
        BY <2>1 DEF SendInv, DropsShow
      <3>2. /\ tokens < Unit /\ lastRefill = clock => tokens' < Unit /\ lastRefill' = clock
            /\ \A d \in 1..Len(drops) : d \in 1..Len(drops') /\ drops'[d] = drops[d]
        BY <1>2, <1>n, DryBucketStays DEF SendInv
      <3> QED
        BY <2>1, <3>1, <3>2
    <2>2. CASE sent'[u][j] = last
      <3>1. sent'[u][j].at = clock /\ sent'[u][j].event = e
        BY <2>2, <1>3
      <3>2. sent'[u][j].dropped => drops' # drops
        BY <2>2, <1>3, Zenon
      <3> QED
        BY <3>1, <3>2, <1>2
    <2> QED
      BY <1>4, <2>1, <2>2
  <1>6. SurvivorsComeFirst'
    <2> SUFFICES ASSUME NEW u \in Requests, NEW j \in 1..Len(sent'[u]), NEW i \in 1..j,
                        sent'[u][i].dropped, ~ sent'[u][j].dropped
                 PROVE  sent'[u][j].at > sent'[u][i].at \/ sent'[u][j].event \in ExemptEvents
      BY DEF SurvivorsComeFirst
    <2>1. CASE j \in 1..Len(sent[u]) /\ sent'[u][j] = sent[u][j]
      <3>1. i \in 1..Len(sent'[u]) /\ i # Len(sent[u]) + 1
        BY <2>1, <1>s
      <3>2. sent'[u][i] = sent[u][i]
        BY <3>1, <1>4
      <3> QED
        BY <2>1, <3>2 DEF SendInv, SurvivorsComeFirst
    <2>2. CASE u = r /\ j = Len(sent[r]) + 1 /\ sent'[u][j] = last
      <3>1. i # j
        OBVIOUS
      <3>2. i \in 1..Len(sent'[u]) /\ i \in 1..Len(sent[r]) /\ i # Len(sent[r]) + 1
        BY <2>2, <3>1, <1>s
      <3>3. sent'[u][i] = sent[r][i]
        BY <2>2, <3>2, <1>4
      <3>4. sent[r][i].at \in Nat
        <4>1. sent[r][i] \in Captures
          BY <3>2, <1>s
        <4> QED
          BY <4>1 DEF Captures
      <3>5. sent[r][i].at <= clock /\ (sent[r][i].at = clock => tokens < Unit /\ lastRefill = clock)
        BY <3>2, <3>3 DEF SendInv, DropsShow
      <3> QED
        <4>1. sent'[u][j].at = clock /\ sent'[u][j].event = e
          BY <2>2, <1>3
        <4>2. drops' = drops
          BY <2>2, <1>3, Zenon
        <4>3. e \in ExemptEvents \/ sent[r][i].at # clock
          BY <4>2, <3>5, <1>2
        <4>4. sent'[u][i].at = sent[r][i].at
          BY <3>3
        <4> QED
          BY <4>1, <4>3, <4>4, <3>4, <3>5, <1>2
    <2> QED
      BY <1>4, <2>1, <2>2
  <1> QED
    BY <1>5, <1>6

\* The send of request r alone moves on.
LEMMA SendsNext == SendInv /\ [SendNext]_allVars => Sends'
  <1> SUFFICES ASSUME SendInv, [SendNext]_allVars PROVE Sends'
    OBVIOUS
  <1>s. /\ emits \in [Requests -> BOOLEAN] /\ steps \in [Requests -> Seq(Steps)]
        /\ loop \in [Requests -> Nat] /\ sent \in [Requests -> Seq(Captures)]
        /\ phase \in [Requests -> {"before", "sending", "returned", "raised"}]
        /\ \A r \in Requests : /\ steps[r] \in Seq(Steps) /\ Len(steps[r]) \in Nat /\ loop[r] \in Nat
                               /\ sent[r] \in Seq(Captures) /\ Len(sent[r]) \in Nat
    BY DEF SendInv, Sends
  <1>i. \A r \in Requests :
          /\ loop[r] <= Len(steps[r])
          /\ Len(sent[r]) <= loop[r] + 1
          /\ Len(sent[r]) = loop[r] + 1 => sent[r][Len(sent[r])].event = Summary[r]
          /\ phase[r] = "before" => sent[r] = <<>>
          /\ phase[r] = "returned" => Len(sent[r]) = loop[r] + 1
    BY DEF SendInv, Sends
  <1>1. ASSUME NEW r \in Requests, NEW s \in Steps, StepEnds(r, s) PROVE Sends'
    <2>1. /\ steps' = [steps EXCEPT ![r] = Append(@, s)]
          /\ UNCHANGED <<emits, phase, loop, sent>>
      BY <1>1 DEF StepEnds
    <2>2. steps' \in [Requests -> Seq(Steps)] /\ \A u \in Requests : Len(steps[u]) <= Len(steps'[u])
      BY <2>1, <1>s
    <2>3. \A u \in Requests : loop[u] <= Len(steps'[u])
      <3>1. \A u \in Requests : Len(steps'[u]) \in Nat
        BY <2>2
      <3> QED
        BY <2>2, <3>1, <1>s, <1>i
    <2> QED
      BY <2>1, <2>2, <2>3, <1>s, <1>i DEF Sends
  <1>2. ASSUME NEW r \in Requests, BeginSend(r) PROVE Sends'
    <2> DEFINE n == IF emits[r] THEN Len(steps[r]) ELSE 0
    <2>1. /\ phase[r] = "before" /\ phase' = [phase EXCEPT ![r] = "sending"]
          /\ loop' = [loop EXCEPT ![r] = n] /\ UNCHANGED <<emits, steps, sent>>
      BY <1>2 DEF BeginSend
    <2>2. n \in Nat /\ n <= Len(steps[r])
      BY <1>s
    <2> HIDE DEF n
    <2>3. Len(sent[r]) = 0
      BY <2>1, <1>i
    <2> QED
      BY <2>1, <2>2, <2>3, <1>s, <1>i DEF Sends
  <1>3. ASSUME NEW r \in Requests, SendEvent(r) PROVE Sends'
    <2> DEFINE last == [event |-> NextEvent(r), at |-> clock, dropped |-> drops' # drops]
    <2>1. /\ phase[r] = "sending" /\ Done(r) <= loop[r]
          /\ sent' = [sent EXCEPT ![r] = Append(@, last)]
          /\ UNCHANGED <<emits, steps, phase, loop>>
      BY <1>3 DEF SendEvent, AtNext
    <2>2. last \in Captures /\ last.event = NextEvent(r)
      BY NextEventIsEvent DEF Captures, SendInv, TypeOK
    <2> HIDE DEF last
    <2>3. sent' \in [Requests -> Seq(Captures)]
      BY <2>1, <2>2, <1>s
    <2>4. /\ sent'[r] = Append(sent[r], last) /\ Len(sent'[r]) = Len(sent[r]) + 1
          /\ sent'[r][Len(sent'[r])] = last
          /\ \A u \in Requests \ {r} : sent'[u] = sent[u]
      BY <2>1, <2>2, <1>s
    <2>5. Len(sent'[r]) = loop[r] + 1 => sent'[r][Len(sent'[r])].event = Summary[r]
      BY <2>2, <2>4, <1>s DEF NextEvent, Done
    <2>6. Len(sent'[r]) <= loop[r] + 1
      BY <2>1, <2>4, <1>s DEF Done
    <2> QED
      BY <2>1, <2>3, <2>4, <2>5, <2>6, <1>s, <1>i DEF Sends
  <1>4. ASSUME NEW r \in Requests, SendReturns(r) PROVE Sends'
    <2>1. /\ phase[r] = "sending" /\ Done(r) > loop[r]
          /\ phase' = [phase EXCEPT ![r] = "returned"] /\ UNCHANGED <<emits, steps, loop, sent>>
      BY <1>4 DEF SendReturns, AtNext
    <2>2. Len(sent[r]) = loop[r] + 1
      BY <2>1, <1>s, <1>i DEF Done
    <2> QED
      BY <2>1, <2>2, <1>s, <1>i DEF Sends
  <1>5. ASSUME NEW r \in Requests, phase' = [phase EXCEPT ![r] = "raised"],
               UNCHANGED <<emits, steps, loop, sent>>
        PROVE  Sends'
    BY <1>5, <1>s, <1>i DEF Sends
  <1>6. ASSUME UNCHANGED telemetry PROVE Sends'
    BY <1>6 DEF telemetry, SendInv, Sends
  <1>7. CASE \E r \in Requests : IterationRaises(r) \/ CaptureRaises(r)
    BY <1>5, <1>7 DEF IterationRaises, CaptureRaises
  <1> QED
    BY <1>1, <1>2, <1>3, <1>4, <1>6, <1>7 DEF SendNext, Ends, Uses, allVars

LEMMA SendInvNext == SendInv /\ [SendNext]_allVars => SendInv'
  <1> SUFFICES ASSUME SendInv, [SendNext]_allVars PROVE SendInv'
    OBVIOUS
  <1>1. [Next]_vars /\ TypeOK'
    BY SendIsLimiterStep, TypeNext DEF SendInv
  <1>2. Sends'
    BY SendsNext
  <1>3. (\E r \in Requests : SendEvent(r)) \/ sent' = sent
    BY DEF SendNext, StepEnds, BeginSend, SendReturns, IterationRaises, Ends, CaptureRaises,
           Uses, telemetry, allVars
  <1>4. DropsShow' /\ SurvivorsComeFirst'
    BY <1>1, <1>3, ShownStays, ShownBySend
  <1> QED
    BY <1>1, <1>2, <1>4 DEF SendInv

\* The limiter under the sends is the limiter: every behaviour of the
\* composition is one of RateLimiter, so each theorem about Spec is one about
\* SendSpec.
THEOREM SendsUseTheLimiter == SendSpec => Spec
  <1>1. SendInit => Init /\ SendInv
    BY SendInvInit DEF SendInit
  <1> QED
    BY <1>1, SendInvNext, SendIsLimiterStep, PTL DEF SendSpec, Spec

\* A bucket that runs dry takes the end of a send: while the clock stands still
\* no capture of send_to_posthog passes after one of the same send was dropped,
\* unless its name is exempt, however the captures and lifecycle calls of other
\* threads come in between.
THEOREM TailIsLostFirst == SendSpec => []SurvivorsComeFirst
  <1>1. SendInv => SurvivorsComeFirst
    BY DEF SendInv
  <1> QED
    BY <1>1, SendInvInit, SendInvNext, PTL DEF SendSpec

\* When send_to_posthog has returned, the last capture it made was its
\* request's summary, and if the limiter dropped that one, a drop of its name
\* is pending, carried by some thread, reported, or lost with a capture that
\* raised.
THEOREM SummaryIsAccounted == SendSpec => []SummaryAccounted
  <1>1. SendInv /\ EveryDropAccounted => SummaryAccounted
    <2> SUFFICES ASSUME SendInv, EveryDropAccounted, NEW r \in Requests, phase[r] = "returned"
                 PROVE  /\ Last(sent[r]).event = Summary[r]
                        /\ Last(sent[r]).dropped =>
                             \E d \in Pending \cup reported \cup lost
                                        \cup UNION {InFlight(t) : t \in Threads} :
                                drops[d] = Summary[r]
      BY DEF SummaryAccounted
    <2>1. /\ Len(sent[r]) = loop[r] + 1 /\ loop[r] \in Nat
          /\ sent[r][Len(sent[r])].event = Summary[r]
      BY DEF SendInv, Sends
    <2>2. Len(sent[r]) \in 1..Len(sent[r])
      BY <2>1
    <2>3. Last(sent[r]).dropped => \E d \in 1..Len(drops) : drops[d] = Summary[r]
      BY <2>1, <2>2 DEF SendInv, DropsShow, Last
    <2> QED
      BY <2>1, <2>3 DEF EveryDropAccounted, Last
  <1>2. SendSpec => []EveryDropAccounted
    BY SendsUseTheLimiter, NoDropForgotten
  <1> QED
    BY <1>1, <1>2, SendInvInit, SendInvNext, PTL DEF SendSpec
=============================================================================
