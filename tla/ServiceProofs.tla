----------------------------- MODULE ServiceProofs -----------------------------
(***************************************************************************)
(* What Readiness, RequestContext and LazyPg promise, for every choice of  *)
(* their constants.  The three share no state: each part below is about    *)
(* the variables of one module, and stands alone.                          *)
(***************************************************************************)
EXTENDS Readiness, LazyPg, RequestContext, FiniteSetTheorems, SequenceTheorems, TLAPS

-----------------------------------------------------------------------------
(* Readiness: an invariant that ties the answer to the outcomes it was     *)
(* made of, and the clock to the deadlines of the probes still running.    *)

Phases == {"idle", "probing", "answered", "failed"}
States == {"none", "running", "cancelled", "goingOn", "ended"}
Endings ==
    {"none", "ok", "lateOk", "other", "lateOther", "raise", "timeoutError", "expired",
     "cancelledError"}

\* What the answer is made of stays what it was made of.
AnswerIsOfOutcomes ==
    phase = "answered" =>
        response = [http |-> IF AggregateStatus(outcome) = "unhealthy" THEN 503 ELSE 200,
                    status |-> AggregateStatus(outcome), services |-> outcome]

\* A probe that has not heeded its deadline holds the clock at it: until its
\* timer has fired and it has reacted, time does not pass the timeout.
DeadlineHoldsClock ==
    \A c \in Checks :
        /\ probe[c] \in {"running", "cancelled"} => clock <= Timeout
        /\ probe[c] \in {"cancelled", "goingOn"} => clock >= Timeout

ReadyInv ==
    /\ OkWasSaid
    /\ AnsweredInTime
    /\ AnswerIsOfOutcomes
    /\ DeadlineHoldsClock
    /\ endedAt \in [Checks -> Nat]
    /\ endedBy \in [Checks -> Endings]
    /\ wentOn \subseteq Checks
    /\ phase = "idle" => clock = 0
    /\ \A c \in Checks : phase = "idle" <=> probe[c] = "none"
    /\ \A c \in Checks : probe[c] = "goingOn" => c \in wentOn

LEMMA ReadyInvInit == Init => ReadyInv
  BY ReadinessAssumption
  DEF Init, ReadyInv, OkWasSaid, TypeOK, AnsweredInTime, AnswerIsOfOutcomes, DeadlineHoldsClock,
      ReadinessAssumption, Outcomes, Pending, Endings

\* _run_probe's outcome is "ok" for a probe that said so and for no other.
LEMMA OutcomeIsOk ==
    ASSUME NEW way \in Endings \ {"none", "cancelledError"}
    PROVE  /\ OutcomeOf(way) \in Outcomes
           /\ OutcomeOf(way) # Pending
           /\ OutcomeOf(way) = "ok" => way \in {"ok", "lateOk"}
  BY DEF Endings, OutcomeOf, Outcomes, Pending

LEMMA StartKeeps == ASSUME ReadyInv, Start PROVE ReadyInv'
  <1>u. /\ phase = "idle" /\ phase' = "probing"
        /\ probe' = [c \in Checks |-> "running"]
        /\ UNCHANGED <<clock, outcome, response, endedAt, endedBy, wentOn>>
    BY DEF Start
  <1>1. TypeOK'
    BY <1>u DEF ReadyInv, OkWasSaid, TypeOK
  <1>2. clock = 0 /\ clock <= Timeout
    BY <1>u, ReadinessAssumption DEF ReadyInv, ReadinessAssumption
  <1> QED
    BY <1>u, <1>1, <1>2, ReadinessAssumption
    DEF ReadyInv, OkWasSaid, AnsweredInTime, AnswerIsOfOutcomes, DeadlineHoldsClock,
        ReadinessAssumption

\* A probe that ends: in time, or after it went on.
LEMMA EndsKeeps ==
    ASSUME ReadyInv, NEW c \in Checks, NEW way \in Endings \ {"none", "cancelledError"},
           phase = "probing", probe[c] \in {"running", "cancelled", "goingOn"},
           way = "ok" => probe[c] = "running",
           way = "lateOk" => probe[c] \in {"cancelled", "goingOn"},
           Ends(c, way)
    PROVE  ReadyInv'
  <1>u. /\ probe' = [probe EXCEPT ![c] = "ended"]
        /\ outcome' = [outcome EXCEPT ![c] = OutcomeOf(way)]
        /\ endedAt' = [endedAt EXCEPT ![c] = clock]
        /\ endedBy' = [endedBy EXCEPT ![c] = way]
        /\ UNCHANGED <<clock, phase, response, wentOn>>
    BY DEF Ends
  <1>o. /\ OutcomeOf(way) \in Outcomes /\ OutcomeOf(way) # Pending
        /\ OutcomeOf(way) = "ok" => way \in {"ok", "lateOk"}
    BY OutcomeIsOk
  <1>c. /\ clock \in Nat
        /\ way = "ok" => clock <= Timeout
        /\ way = "lateOk" => clock >= Timeout
    BY DEF ReadyInv, OkWasSaid, TypeOK, DeadlineHoldsClock
  <1>1. TypeOK'
    BY <1>u, <1>o DEF ReadyInv, OkWasSaid, TypeOK
  <1>2. endedAt' \in [Checks -> Nat] /\ endedBy' \in [Checks -> Endings]
    BY <1>u, <1>c DEF ReadyInv
  <1>3. \A d \in Checks :
          outcome'[d] = "ok" =>
            IF endedBy'[d] = "lateOk" THEN endedAt'[d] >= Timeout
            ELSE endedBy'[d] = "ok" /\ endedAt'[d] <= Timeout
    BY <1>u, <1>o, <1>c DEF ReadyInv, OkWasSaid, TypeOK
  <1> QED
    BY <1>u, <1>1, <1>2, <1>3
    DEF ReadyInv, OkWasSaid, TypeOK, AnsweredInTime, AnswerIsOfOutcomes, DeadlineHoldsClock

LEMMA ProbeKeeps ==
    ASSUME ReadyInv, NEW c \in Checks,
           \/ \E way \in {"ok", "other", "raise", "timeoutError"} : EndsBy(c, way)
           \/ React(c)
           \/ \E way \in CancelledWays : EndsLate(c, way)
           \/ Breaks(c)
    PROVE  ReadyInv'
  <1>1. ASSUME NEW way \in {"ok", "other", "raise", "timeoutError"}, EndsBy(c, way)
        PROVE  ReadyInv'
    BY <1>1, EndsKeeps DEF EndsBy, Endings
  <1>2. ASSUME NEW way \in CancelledWays, Cancelled(c, way) \/ EndsLate(c, way)
        PROVE  ReadyInv'
    BY <1>2, EndsKeeps DEF Cancelled, EndsLate, EndsCancelled, CancelledWays, Endings
  <1>3. ASSUME Expire(c) PROVE ReadyInv'
    <2>1. TypeOK'
      BY <1>3 DEF Expire, Expires, ReadyInv, OkWasSaid, TypeOK
    <2> QED
      BY <1>3, <2>1
      DEF Expire, Expires, Deadline, ReadyInv, OkWasSaid, TypeOK, AnsweredInTime,
          AnswerIsOfOutcomes, DeadlineHoldsClock
  <1>4. ASSUME GoOn(c) PROVE ReadyInv'
    <2>1. TypeOK'
      BY <1>4 DEF GoOn, ReadyInv, OkWasSaid, TypeOK
    <2> QED
      BY <1>4, <2>1
      DEF GoOn, ReadyInv, OkWasSaid, TypeOK, AnsweredInTime, AnswerIsOfOutcomes,
          DeadlineHoldsClock
  <1>5. ASSUME Breaks(c) PROVE ReadyInv'
    <2>0. clock \in Nat
      BY DEF ReadyInv, OkWasSaid, TypeOK
    <2>1. TypeOK'
      BY <1>5 DEF Breaks, ReadyInv, OkWasSaid, TypeOK
    <2>2. endedAt' \in [Checks -> Nat] /\ endedBy' \in [Checks -> Endings]
      BY <1>5, <2>0 DEF Breaks, ReadyInv, Endings
    <2>3. outcome[c] = Pending
      BY <1>5 DEF Breaks, ReadyInv, OkWasSaid, TypeOK
    <2>4. \A d \in Checks :
            outcome'[d] = "ok" =>
              IF endedBy'[d] = "lateOk" THEN endedAt'[d] >= Timeout
              ELSE endedBy'[d] = "ok" /\ endedAt'[d] <= Timeout
      BY <1>5, <2>3 DEF Breaks, Pending, ReadyInv, OkWasSaid, TypeOK
    <2> QED
      BY <1>5, <2>1, <2>2, <2>4
      DEF Breaks, ReadyInv, OkWasSaid, TypeOK, AnsweredInTime, AnswerIsOfOutcomes,
          DeadlineHoldsClock
  <1> QED
    BY <1>1, <1>2, <1>3, <1>4, <1>5 DEF React

LEMMA RespondKeeps == ASSUME ReadyInv, Respond PROVE ReadyInv'
  <1>1. TypeOK'
    BY DEF Respond, ReadyInv, OkWasSaid, TypeOK
  <1>2. AnswerIsOfOutcomes'
    BY DEF Respond, AnswerIsOfOutcomes, AggregateStatus
  <1> QED
    BY <1>1, <1>2 DEF Respond, ReadyInv, OkWasSaid, AnsweredInTime, DeadlineHoldsClock

\* Time passes the timeout only for a probe that went on.
LEMMA TickKeeps == ASSUME ReadyInv, Tick PROVE ReadyInv'
  <1>u. /\ phase = "probing" /\ LoopIsIdle /\ clock < MaxClock /\ clock' = clock + 1
        /\ UNCHANGED <<phase, probe, outcome, response, endedAt, endedBy, wentOn>>
    BY DEF Tick
  <1>t. clock \in Nat /\ Timeout \in Nat /\ MaxClock \in Nat
    BY ReadinessAssumption DEF ReadinessAssumption, ReadyInv, OkWasSaid, TypeOK
  <1>1. TypeOK'
    BY <1>u, <1>t DEF ReadyInv, OkWasSaid, TypeOK
  <1>2. \A c \in Checks : probe[c] # "cancelled" /\ (probe[c] = "running" => clock < Timeout)
    BY <1>u, <1>t DEF LoopIsIdle, Expires, Deadline
  <1>3. DeadlineHoldsClock'
    BY <1>u, <1>t, <1>2 DEF ReadyInv, DeadlineHoldsClock
  <1>4. PICK c \in Checks : probe[c] # "ended"
    BY <1>u DEF LoopIsIdle
  <1>5. clock' > Timeout => probe[c] = "goingOn"
    BY <1>u, <1>t, <1>2, <1>4 DEF ReadyInv, OkWasSaid, TypeOK
  <1>6. AnsweredInTime'
    BY <1>u, <1>5 DEF ReadyInv, AnsweredInTime
  <1> QED
    BY <1>u, <1>1, <1>3, <1>6 DEF ReadyInv, OkWasSaid, AnswerIsOfOutcomes, AggregateStatus

LEMMA ReadyInvNext == ReadyInv /\ [Next]_vars => ReadyInv'
  <1> SUFFICES ASSUME ReadyInv, [Next]_vars PROVE ReadyInv'
    OBVIOUS
  <1>1. CASE UNCHANGED vars
    BY <1>1 DEF vars, ReadyInv, OkWasSaid, TypeOK, AnsweredInTime, AnswerIsOfOutcomes,
                DeadlineHoldsClock, AggregateStatus
  <1> QED
    BY <1>1, StartKeeps, ProbeKeeps, RespondKeeps, TickKeeps DEF Next

LEMMA AlwaysReadyInv == Spec => []ReadyInv
  BY ReadyInvInit, ReadyInvNext, PTL DEF Spec

\* For any set of checks: a response's two fields agree.
LEMMA ReadyInvAgrees == ReadyInv => AnswerAgrees
  <1> SUFFICES ASSUME ReadyInv, phase = "answered" PROVE AnswerAgrees
    BY DEF AnswerAgrees
  <1>1. /\ response.http = IF AggregateStatus(outcome) = "unhealthy" THEN 503 ELSE 200
        /\ response.status = AggregateStatus(outcome)
        /\ response.services = outcome
    BY DEF ReadyInv, AnswerIsOfOutcomes
  <1>2. AggregateStatus(outcome) = "unhealthy" <=> \E c \in Required : outcome[c] # "ok"
    BY DEF AggregateStatus
  <1>3. AggregateStatus(outcome) = "healthy" <=> \A c \in Checks : outcome[c] = "ok"
    BY ReadinessAssumption DEF AggregateStatus, ReadinessAssumption
  <1> HIDE DEF AggregateStatus
  <1> QED
    BY <1>1, <1>2, <1>3 DEF AnswerAgrees

\* The HTTP code and the body of an answer are made of the same outcomes, so they
\* agree: 503 exactly when a required dependency is not ok, "healthy" exactly
\* when all are.
THEOREM BodyAndCodeAgree == Spec => []AnswerAgrees
  BY AlwaysReadyInv, ReadyInvAgrees, PTL

\* A dependency is reported ok only when its probe said so, by its deadline or,
\* against the docs, at or after it by a probe that swallowed its cancellation,
\* however end and deadline fall together.
THEOREM OkIsSaid == Spec => []OkWasSaid
  BY AlwaysReadyInv, PTL DEF ReadyInv

\* All probes run against the one timeout, side by side: the endpoint is past it
\* only when a probe works on after its cancellation.
THEOREM OneTimeout == Spec => []AnsweredInTime
  BY AlwaysReadyInv, PTL DEF ReadyInv

-----------------------------------------------------------------------------
(* RequestContext: every trail has a request as its owner, and everything  *)
(* in the trail, and every context that has it, is of that request.        *)

Places == [id : Nat, trail : Nat]
Passes == [scope : Nat, token : Places]
Crumbs == [by : Nat, nth : Nat]

\* The variables' shapes; a trail that was not opened is empty, and a server
\* with an exception on its way out has left every pass.
Shapes ==
    /\ requests \in Nat /\ trails \in Nat
    /\ context \in [Tasks -> Places]
    /\ passes \in [Servers -> Seq(Passes)]
    /\ crumbs \in [1..MaxTrails -> Seq(Crumbs)]
    /\ tags \in [1..MaxTrails -> Nat]
    /\ added \in [1..MaxTrails -> Nat]
    /\ crash \in [Servers -> Nat] /\ starter \in [Children -> Nat]
    /\ \A s \in Servers : \A k \in 1..Len(passes[s]) :
         passes[s][k].token.id <= requests /\ passes[s][k].token.trail <= trails
    /\ \A n \in 1..MaxTrails : n > trails => crumbs[n] = <<>> /\ tags[n] = None
    /\ \A s \in Servers : crash[s] # None => passes[s] = <<>>

\* A context of request r: its id, and a trail that is r's.
IsOf(place, r, owner) ==
    /\ place.id = r
    /\ place.trail = None <=> r = None
    /\ place.trail # None => owner[place.trail] = r

\* The request a server served at depth k of its passes.
Depth(s, k) == IF k = 0 THEN None ELSE passes[s][k].scope

\* Every trail has a request as its owner: all that is in it is the owner's, and
\* a context with this trail, now or when a pass resets it, is of the owner.
Owned(owner) ==
    /\ \A t \in Tasks : IsOf(context[t], WorksFor(t), owner)
    /\ \A s \in Servers : \A k \in 1..Len(passes[s]) :
         passes[s][k].scope # None /\ IsOf(passes[s][k].token, Depth(s, k - 1), owner)
    /\ \A n \in 1..trails :
         /\ \A i \in 1..Len(crumbs[n]) : crumbs[n][i].by = owner[n]
         /\ tags[n] \in {None, owner[n]}

TrailKept ==
    \A n \in 1..MaxTrails :
        /\ Len(crumbs[n]) = IF added[n] > MaxCrumbs THEN MaxCrumbs ELSE added[n]
        /\ \A i \in 1..Len(crumbs[n]) : crumbs[n][i].nth = added[n] - Len(crumbs[n]) + i

CoreInv ==
    /\ ContextTypeOK
    /\ Shapes
    /\ TrailKept
    /\ \E owner \in [1..MaxTrails -> Nat] : Owned(owner)

LEMMA TaskKinds ==
    /\ Servers \subseteq Tasks /\ Children \subseteq Tasks
    /\ \A t \in Tasks : t \in Servers \/ (t \in Children /\ t \notin Servers)
    /\ \A c \in Children : c \notin Servers
  BY ContextAssumption DEF ContextAssumption, Tasks

LEMMA CoreInit == ContextInit => CoreInv
  <1> SUFFICES ASSUME ContextInit PROVE CoreInv
    OBVIOUS
  <1>c. MaxCrumbs \in Nat \ {0} /\ MaxRequests \in Nat /\ MaxTrails \in Nat
    BY ContextAssumption DEF ContextAssumption
  <1>1. ContextTypeOK
    BY <1>c DEF ContextInit, ContextTypeOK, Outside, None
  <1>2. Shapes
    <2>1. \A S : <<>> \in Seq(S)
      OBVIOUS
    <2>2. Outside \in Places
      BY DEF Outside, Places, None
    <2> QED
      BY <2>1, <2>2 DEF ContextInit, Shapes, None
  <1>3. TrailKept
    BY <1>c DEF ContextInit, TrailKept
  <1>4. [n \in 1..MaxTrails |-> 0] \in [1..MaxTrails -> Nat] /\ Owned([n \in 1..MaxTrails |-> 0])
    BY TaskKinds DEF ContextInit, Owned, IsOf, WorksFor, Serving, Outside, None
  <1> QED
    BY <1>1, <1>2, <1>3, <1>4 DEF CoreInv

\* The middleware is entered for request scope.
LEMMA PassKeeps ==
    ASSUME CoreInv, NEW s \in Servers, NEW scope \in Nat \ {0}, Pass(s, scope),
           requests' \in requests..MaxRequests, scope <= requests'
    PROVE  CoreInv'
  <1> DEFINE pass == [scope |-> scope, token |-> context[s]]
             place == [id |-> scope, trail |-> trails + 1]
  <1>1. /\ trails < MaxTrails /\ trails' = trails + 1 /\ crash[s] = None
        /\ passes' = [passes EXCEPT ![s] = Append(@, pass)]
        /\ context' = [context EXCEPT ![s] = place]
        /\ UNCHANGED <<crumbs, tags, crash, starter, added>>
    BY DEF Pass, Runs
  <1>c. MaxTrails \in Nat /\ MaxRequests \in Nat
    BY ContextAssumption DEF ContextAssumption
  <1>s. ContextTypeOK /\ Shapes /\ TrailKept
    BY DEF CoreInv
  <1>n. /\ requests \in Nat /\ trails \in Nat /\ requests' \in Nat /\ requests <= requests'
        /\ trails' \in 0..MaxTrails /\ trails + 1 \in 1..MaxTrails /\ s \in Tasks
    BY <1>1, <1>c, <1>s, TaskKinds DEF Shapes
  <1>p. /\ pass \in Passes /\ pass.scope = scope /\ pass.token = context[s]
        /\ context[s].id <= requests /\ context[s].trail <= trails
        /\ place \in Places /\ place.id = scope /\ place.trail = trails + 1
        /\ place \in [id : 0..requests', trail : 0..trails']
    BY <1>1, <1>n, <1>s DEF Passes, Places, Shapes, ContextTypeOK
  <1> HIDE DEF pass, place
  <1>q. /\ passes' \in [Servers -> Seq(Passes)]
        /\ \A u \in Servers : u # s => passes'[u] = passes[u]
        /\ passes'[s] = Append(passes[s], pass)
        /\ Len(passes'[s]) = Len(passes[s]) + 1 /\ Len(passes[s]) \in Nat
        /\ passes'[s][Len(passes[s]) + 1] = pass
        /\ \A k \in 1..Len(passes[s]) : passes'[s][k] = passes[s][k]
        /\ passes'[s] # <<>>
    <2>1. passes \in [Servers -> Seq(Passes)] /\ passes[s] \in Seq(Passes)
      BY <1>s DEF Shapes
    <2> HIDE DEF Passes
    <2> QED
      BY <1>1, <1>p, <2>1
  <1>k. \A u \in Servers : \A k \in 1..Len(passes'[u]) :
          \/ k \in 1..Len(passes[u]) /\ passes'[u][k] = passes[u][k]
          \/ u = s /\ k = Len(passes[s]) + 1 /\ passes'[u][k] = pass
    <2>1. \A k \in 1..(Len(passes[s]) + 1) : k \in 1..Len(passes[s]) \/ k = Len(passes[s]) + 1
      BY <1>q
    <2>2. \A k \in 1..Len(passes'[s]) :
            \/ k \in 1..Len(passes[s]) /\ passes'[s][k] = passes[s][k]
            \/ k = Len(passes[s]) + 1 /\ passes'[s][k] = pass
      BY <2>1, <1>q, Zenon
    <2> QED
      BY <2>2, <1>q, Zenon
  <1>2. ContextTypeOK'
    <2>1. [id : 0..requests, trail : 0..trails] \subseteq [id : 0..requests', trail : 0..trails']
      BY <1>1, <1>n
    <2>2. context' \in [Tasks -> [id : 0..requests', trail : 0..trails']]
      BY <1>1, <1>p, <1>s, <2>1 DEF ContextTypeOK
    <2>3. crash' \in [Servers -> 0..requests'] /\ starter' \in [Children -> 0..requests']
      BY <1>1, <1>n, <1>s DEF ContextTypeOK
    <2> QED
      BY <1>1, <1>n, <1>s, <2>2, <2>3 DEF ContextTypeOK
  <1>3. Shapes'
    <2>1. \A u \in Servers : \A k \in 1..Len(passes[u]) :
            passes[u][k].token.id <= requests' /\ passes[u][k].token.trail <= trails'
      <3> SUFFICES ASSUME NEW u \in Servers, NEW k \in 1..Len(passes[u])
                   PROVE  passes[u][k].token.id <= requests' /\ passes[u][k].token.trail <= trails'
        OBVIOUS
      <3>1. passes[u][k] \in Passes
        BY <1>s DEF Shapes
      <3>2. /\ passes[u][k].token.id \in Nat /\ passes[u][k].token.trail \in Nat
            /\ passes[u][k].token.id <= requests /\ passes[u][k].token.trail <= trails
        BY <3>1, <1>s DEF Shapes, Passes, Places
      <3> QED
        BY <3>2, <1>1, <1>n
    <2>2. pass.token.id <= requests' /\ pass.token.trail <= trails'
      <3>1. context[s].id \in Nat /\ context[s].trail \in Nat
        BY <1>n, <1>s DEF Shapes, Places
      <3> QED
        BY <3>1, <1>1, <1>n, <1>p
    <2>3. \A u \in Servers : \A k \in 1..Len(passes'[u]) :
            passes'[u][k].token.id <= requests' /\ passes'[u][k].token.trail <= trails'
      BY <1>k, <2>1, <2>2, Zenon
    <2>4. context' \in [Tasks -> Places]
      BY <1>1, <1>p, <1>s DEF Shapes
    <2>5. \A n \in 1..MaxTrails : n > trails' => crumbs'[n] = <<>> /\ tags'[n] = None
      BY <1>1, <1>n, <1>s DEF Shapes
    <2>6. \A u \in Servers : crash'[u] # None => passes'[u] = <<>>
      BY <1>1, <1>q, <1>s DEF Shapes
    <2> QED
      BY <1>1, <1>n, <1>q, <1>s, <2>3, <2>4, <2>5, <2>6 DEF Shapes
  <1>4. TrailKept'
    BY <1>1, <1>s DEF TrailKept
  <1>5. \E owner \in [1..MaxTrails -> Nat] : Owned(owner)'
    <2>1. PICK owner \in [1..MaxTrails -> Nat] : Owned(owner)
      BY DEF CoreInv
    <2>2. PICK next \in [1..MaxTrails -> Nat] :
            next[trails + 1] = scope /\ \A n \in 1..trails : next[n] = owner[n]
      <3> WITNESS [owner EXCEPT ![trails + 1] = scope] \in [1..MaxTrails -> Nat]
      <3> QED
        BY <1>n
    <2>3. \A p, r : IsOf(p, r, owner) /\ p.trail \in 0..trails => IsOf(p, r, next)
      BY <2>2, <1>n DEF IsOf, None
    <2>4. \A t \in Tasks : IsOf(context'[t], WorksFor(t)', next)
      <3> SUFFICES ASSUME NEW t \in Tasks PROVE IsOf(context'[t], WorksFor(t)', next)
        OBVIOUS
      <3>1. CASE t = s
        <4>1. WorksFor(t)' = scope
          BY <3>1, <1>q, <1>p DEF WorksFor, Serving, Last
        <4>2. context'[t] = place
          BY <3>1, <1>1, <1>s, <1>n DEF Shapes
        <4> QED
          BY <4>1, <4>2, <1>p, <1>n, <2>2 DEF IsOf, None
      <3>2. CASE t # s
        <4>1. context'[t] = context[t] /\ context[t].trail \in 0..trails
          BY <3>2, <1>1, <1>s DEF ContextTypeOK
        <4>2. WorksFor(t)' = WorksFor(t)
          BY <3>2, <1>1, <1>q DEF WorksFor, Serving
        <4> QED
          BY <4>1, <4>2, <2>1, <2>3 DEF Owned
      <3> QED
        BY <3>1, <3>2
    <2>5. \A u \in Servers : \A k \in 1..Len(passes'[u]) :
            passes'[u][k].scope # None /\ IsOf(passes'[u][k].token, Depth(u, k - 1)', next)
      <3> SUFFICES ASSUME NEW u \in Servers, NEW k \in 1..Len(passes'[u])
                   PROVE  passes'[u][k].scope # None /\ IsOf(passes'[u][k].token, Depth(u, k - 1)', next)
        OBVIOUS
      <3>1. CASE k \in 1..Len(passes[u]) /\ passes'[u][k] = passes[u][k]
        <4>1. passes[u][k] \in Passes
          <5>1. passes[u] \in Seq(Passes)
            BY <1>s DEF Shapes
          <5> QED
            BY <5>1, <3>1, ElementOfSeq
        <4>2. passes[u][k].token.trail \in 0..trails
          <5>1. passes[u][k].token.trail \in Nat
            BY <4>1 DEF Passes, Places
          <5>2. passes[u][k].token.trail <= trails
            BY <3>1, <1>s DEF Shapes
          <5> QED
            BY <5>1, <5>2, <1>n
        <4>3. Depth(u, k - 1)' = Depth(u, k - 1)
          <5>1. k - 1 = 0 \/ k - 1 \in 1..Len(passes[u])
            BY <3>1
          <5> QED
            BY <5>1, <1>q DEF Depth
        <4>4. passes[u][k].scope # None /\ IsOf(passes[u][k].token, Depth(u, k - 1), owner)
          BY <3>1, <2>1 DEF Owned
        <4>5. IsOf(passes[u][k].token, Depth(u, k - 1), next)
          BY <4>2, <4>4, <2>3, Zenon
        <4> QED
          BY <3>1, <4>3, <4>4, <4>5, Zenon
      <3>2. CASE u = s /\ k = Len(passes[s]) + 1 /\ passes'[u][k] = pass
        <4>1. Depth(u, k - 1)' = WorksFor(s)
          <5>1. CASE passes[s] = <<>>
            <6>1. k - 1 = 0
              BY <5>1, <3>2
            <6> QED
              BY <6>1, <5>1 DEF Depth, WorksFor, Serving
          <5>2. CASE passes[s] # <<>>
            <6>1. k - 1 = Len(passes[s]) /\ Len(passes[s]) \in 1..Len(passes[s]) /\ k - 1 # 0
              BY <5>2, <3>2, <1>s, EmptySeq DEF Shapes
            <6> QED
              BY <6>1, <5>2, <3>2, <1>q DEF Depth, WorksFor, Serving, Last
          <5> QED
            BY <5>1, <5>2
        <4>2. context[s].trail \in 0..trails
          BY <1>n, <1>s DEF ContextTypeOK
        <4>3. scope # None
          BY DEF None
        <4> QED
          BY <3>2, <4>1, <4>2, <4>3, <1>p, <1>n, <2>1, <2>3 DEF Owned
      <3> QED
        BY <1>k, <3>1, <3>2
    <2>6. \A n \in 1..trails' :
            /\ \A i \in 1..Len(crumbs'[n]) : crumbs'[n][i].by = next[n]
            /\ tags'[n] \in {None, next[n]}
      <3>1. \A n \in 1..trails' : n \in 1..trails \/ n = trails + 1
        BY <1>1, <1>n
      <3>2. crumbs[trails + 1] = <<>> /\ tags[trails + 1] = None
        BY <1>n, <1>s DEF Shapes
      <3> QED
        BY <1>1, <2>1, <2>2, <3>1, <3>2 DEF Owned
    <2>7. Owned(next)'
      BY <2>4, <2>5, <2>6 DEF Owned
    <2> QED
      BY <2>2, <2>7
  <1> QED
    BY <1>2, <1>3, <1>4, <1>5 DEF CoreInv

LEMMA FrontProperties ==
    ASSUME NEW S, NEW q \in Seq(S), q # <<>>
    PROVE  /\ Front(q) \in Seq(S) /\ Len(Front(q)) = Len(q) - 1 /\ Len(q) \in Nat \ {0}
           /\ \A k \in 1..(Len(q) - 1) : Front(q)[k] = q[k]
           /\ Front(q) = <<>> <=> Len(q) = 1
           /\ Len(q) # 1 => Last(Front(q)) = q[Len(q) - 1] /\ Len(q) - 1 \in 1..Len(q)
  <1> PICK n \in Nat : n = Len(q) - 1
    BY EmptySeq
  <1>1. \A i \in 1..n : q[i] \in S
    BY ElementOfSeq
  <1>2. /\ Front(q) \in Seq(S) /\ Len(Front(q)) = IF 1 <= n THEN n - 1 + 1 ELSE 0
        /\ \A i \in 1..(n - 1 + 1) : Front(q)[i] = q[1 + i - 1]
    BY <1>1, SubSeqProperties DEF Front
  <1>3. n - 1 + 1 = n /\ \A i \in 1..n : 1 + i - 1 = i
    OBVIOUS
  <1>4. Len(Front(q)) = n /\ \A i \in 1..n : Front(q)[i] = q[i]
    BY <1>2, <1>3
  <1>5. Front(q) = <<>> <=> n = 0
    BY <1>2, <1>4, EmptySeq
  <1>6. n # 0 => Last(Front(q)) = q[n] /\ n \in 1..Len(q)
    BY <1>4 DEF Last
  <1> QED
    BY <1>2, <1>4, <1>5, <1>6, EmptySeq

\* What is left of the passes when the last is over.
LEMMA RestProperties ==
    ASSUME Shapes, NEW s \in Servers, passes[s] # <<>>
    PROVE  /\ Len(passes[s]) \in Nat \ {0} /\ Len(passes[s]) \in 1..Len(passes[s])
           /\ Rest(s) \in Seq(Passes) /\ Len(Rest(s)) = Len(passes[s]) - 1
           /\ \A k \in 1..(Len(passes[s]) - 1) : Rest(s)[k] = passes[s][k] /\ k \in 1..Len(passes[s])
           /\ Serving(s) = Depth(s, Len(passes[s]))
           /\ (IF Rest(s) = <<>> THEN None ELSE Last(Rest(s)).scope) = Depth(s, Len(passes[s]) - 1)
           /\ Reset(s) = passes[s][Len(passes[s])].token /\ Reset(s) \in Places
  <1>1. passes[s] \in Seq(Passes) /\ Len(passes[s]) \in Nat \ {0}
    BY EmptySeq DEF Shapes
  <1>2. /\ Rest(s) \in Seq(Passes) /\ Len(Rest(s)) = Len(passes[s]) - 1
        /\ \A k \in 1..(Len(passes[s]) - 1) : Rest(s)[k] = passes[s][k]
        /\ Rest(s) = <<>> <=> Len(passes[s]) = 1
    BY <1>1, FrontProperties DEF Rest
  <1>3. \A k \in 1..(Len(passes[s]) - 1) : k \in 1..Len(passes[s])
    BY <1>1
  <1>7. (IF Rest(s) = <<>> THEN None ELSE Last(Rest(s)).scope) = Depth(s, Len(passes[s]) - 1)
    <2>1. CASE Len(passes[s]) = 1
      BY <2>1, <1>2 DEF Depth
    <2>2. CASE Len(passes[s]) # 1
      <3>1. /\ Last(Rest(s)) = passes[s][Len(passes[s]) - 1] /\ Rest(s) # <<>>
            /\ Len(passes[s]) - 1 # 0
        BY <2>2, <1>1, <1>2, FrontProperties DEF Rest
      <3> QED
        BY <3>1 DEF Depth
    <2> QED
      BY <2>1, <2>2
  <1>8. Serving(s) = Depth(s, Len(passes[s]))
    BY <1>1 DEF Serving, Depth, Last
  <1>9. Reset(s) = passes[s][Len(passes[s])].token /\ Reset(s) \in Places
    <2>1. Len(passes[s]) \in 1..Len(passes[s])
      BY <1>1
    <2>2. passes[s][Len(passes[s])] \in Passes
      BY <1>1, <2>1, ElementOfSeq
    <2> QED
      BY <2>2 DEF Reset, Last, Passes
  <1> QED
    BY <1>1, <1>2, <1>3, <1>7, <1>8, <1>9

LEMMA LeaveKeeps ==
    ASSUME CoreInv, NEW s \in Servers, Leave(s),
           \/ crash' = crash
           \/ crash' = [crash EXCEPT ![s] = IF Rest(s) = <<>> THEN Serving(s) ELSE None]
    PROVE  CoreInv'
  <1> DEFINE last == Len(passes[s])
  <1>s. ContextTypeOK /\ Shapes /\ TrailKept
    BY DEF CoreInv
  <1>1. /\ passes[s] # <<>> /\ crash[s] = None
        /\ passes' = [passes EXCEPT ![s] = Rest(s)]
        /\ context' = [context EXCEPT ![s] = Reset(s)]
        /\ UNCHANGED <<crumbs, tags, requests, trails, starter, added>>
    BY DEF Leave, Runs
  <1>r. /\ last \in Nat \ {0} /\ last \in 1..last
        /\ Rest(s) \in Seq(Passes) /\ Len(Rest(s)) = last - 1
        /\ \A k \in 1..(last - 1) : Rest(s)[k] = passes[s][k] /\ k \in 1..last
        /\ Serving(s) = Depth(s, last)
        /\ (IF Rest(s) = <<>> THEN None ELSE Last(Rest(s)).scope) = Depth(s, last - 1)
        /\ Reset(s) = passes[s][last].token /\ Reset(s) \in Places
    BY <1>1, <1>s, RestProperties
  <1> HIDE DEF last
  <1>p. /\ passes' \in [Servers -> Seq(Passes)] /\ passes'[s] = Rest(s)
        /\ \A u \in Servers : u # s => passes'[u] = passes[u]
        /\ s \in Tasks /\ context'[s] = Reset(s)
        /\ \A t \in Tasks : t # s => context'[t] = context[t]
    BY <1>1, <1>r, <1>s, TaskKinds DEF Shapes
  <1>k. \A u \in Servers : \A k \in 1..Len(passes'[u]) :
          k \in 1..Len(passes[u]) /\ passes'[u][k] = passes[u][k]
    BY <1>p, <1>r DEF last
  <1>t. Reset(s) \in [id : 0..requests, trail : 0..trails]
    <2>1. Reset(s).id <= requests /\ Reset(s).trail <= trails
      BY <1>r, <1>s DEF Shapes, last
    <2> QED
      BY <2>1, <1>r, <1>s DEF Places, Shapes
  <1>o. PICK owner \in [1..MaxTrails -> Nat] : Owned(owner)
    BY DEF CoreInv
  <1>v. Serving(s) \in 0..requests
    BY <1>o, <1>p, <1>s DEF Owned, IsOf, WorksFor, ContextTypeOK
  <1>c. /\ crash' \in [Servers -> 0..requests]
        /\ \A u \in Servers : u # s => crash'[u] = crash[u]
        /\ crash'[s] # None => Rest(s) = <<>>
    <2>1. crash \in [Servers -> 0..requests] /\ None \in 0..requests
      BY <1>s DEF ContextTypeOK, Shapes, None
    <2>2. (IF Rest(s) = <<>> THEN Serving(s) ELSE None) \in 0..requests
      BY <1>v, <2>1
    <2> QED
      BY <2>1, <2>2, <1>1
  <1>2. ContextTypeOK'
    <2>1. context' \in [Tasks -> [id : 0..requests, trail : 0..trails]]
      BY <1>1, <1>t, <1>s DEF ContextTypeOK
    <2> QED
      BY <1>1, <1>c, <1>s, <2>1 DEF ContextTypeOK
  <1>3. Shapes'
    <2>1. context' \in [Tasks -> Places]
      BY <1>1, <1>r, <1>s DEF Shapes
    <2>2. crash' \in [Servers -> Nat]
      <3>1. \A n \in 0..requests : n \in Nat
        BY <1>s DEF Shapes
      <3> QED
        BY <3>1, <1>c
    <2>3. \A u \in Servers : crash'[u] # None => passes'[u] = <<>>
      <3>1. \A u \in Servers : crash[u] # None => passes[u] = <<>>
        BY <1>s DEF Shapes
      <3> QED
        BY <3>1, <1>c, <1>p, Zenon
    <2> QED
      BY <1>1, <1>p, <1>k, <1>s, <2>1, <2>2, <2>3 DEF Shapes
  <1>4. TrailKept'
    BY <1>1, <1>s DEF TrailKept
  <1>5. Owned(owner)'
    <2>1. \A t \in Tasks : IsOf(context'[t], WorksFor(t)', owner)
      <3> SUFFICES ASSUME NEW t \in Tasks PROVE IsOf(context'[t], WorksFor(t)', owner)
        OBVIOUS
      <3>1. CASE t = s
        <4>1. WorksFor(t)' = Depth(s, last - 1)
          BY <3>1, <1>p, <1>r DEF WorksFor, Serving
        <4> QED
          BY <3>1, <4>1, <1>o, <1>p, <1>r DEF Owned, last
      <3>2. CASE t # s
        <4>1. WorksFor(t)' = WorksFor(t)
          BY <3>2, <1>1, <1>p DEF WorksFor, Serving
        <4> QED
          BY <3>2, <4>1, <1>o, <1>p DEF Owned
      <3> QED
        BY <3>1, <3>2
    <2>2. \A u \in Servers : \A k \in 1..Len(passes'[u]) :
            passes'[u][k].scope # None /\ IsOf(passes'[u][k].token, Depth(u, k - 1)', owner)
      <3> SUFFICES ASSUME NEW u \in Servers, NEW k \in 1..Len(passes'[u])
                   PROVE  passes'[u][k].scope # None /\ IsOf(passes'[u][k].token, Depth(u, k - 1)', owner)
        OBVIOUS
      <3>1. Depth(u, k - 1)' = Depth(u, k - 1)
        <4>1. k - 1 = 0 \/ k - 1 \in 1..Len(passes'[u])
          OBVIOUS
        <4> QED
          BY <4>1, <1>k DEF Depth
      <3>2. k \in 1..Len(passes[u]) /\ passes'[u][k] = passes[u][k]
        BY <1>k, Zenon
      <3>3. passes[u][k].scope # None /\ IsOf(passes[u][k].token, Depth(u, k - 1), owner)
        BY <3>2, <1>o DEF Owned
      <3> QED
        BY <3>1, <3>2, <3>3, Zenon
    <2> QED
      BY <2>1, <2>2, <1>1, <1>o DEF Owned
  <1> QED
    BY <1>2, <1>3, <1>4, <1>5 DEF CoreInv

\* The Exception handler has the exception.
LEMMA HandleKeeps ==
    ASSUME CoreInv, NEW s \in Servers, crash' = [crash EXCEPT ![s] = None],
           UNCHANGED <<context, passes, crumbs, tags, requests, trails, starter, added>>
    PROVE  CoreInv'
  <1>1. ContextTypeOK' /\ Shapes' /\ TrailKept'
    BY DEF CoreInv, ContextTypeOK, Shapes, TrailKept, None
  <1>2. PICK owner \in [1..MaxTrails -> Nat] : Owned(owner)
    BY DEF CoreInv
  <1>3. Owned(owner)'
    BY <1>2 DEF Owned, WorksFor, Serving, Depth
  <1> QED
    BY <1>1, <1>3 DEF CoreInv

LEMMA StartTaskKeeps ==
    ASSUME CoreInv, NEW s \in Servers, NEW c \in Children, StartTask(c, s)
    PROVE  CoreInv'
  <1>1. /\ starter' = [starter EXCEPT ![c] = Serving(s)]
        /\ context' = [context EXCEPT ![c] = context[s]]
        /\ UNCHANGED <<passes, crumbs, tags, crash, requests, trails, added>>
    BY DEF StartTask
  <1>s. ContextTypeOK /\ Shapes /\ TrailKept
    BY DEF CoreInv
  <1>o. PICK owner \in [1..MaxTrails -> Nat] : Owned(owner)
    BY DEF CoreInv
  <1>t. s \in Tasks /\ c \in Tasks /\ c \notin Servers
    BY TaskKinds
  <1>v. IsOf(context[s], Serving(s), owner) /\ Serving(s) \in 0..requests /\ Serving(s) \in Nat
    BY <1>o, <1>t, <1>s DEF Owned, IsOf, WorksFor, ContextTypeOK, Shapes
  <1>2. ContextTypeOK'
    BY <1>1, <1>t, <1>v, <1>s DEF ContextTypeOK
  <1>3. Shapes'
    BY <1>1, <1>t, <1>v, <1>s DEF Shapes
  <1>4. TrailKept'
    BY <1>1, <1>s DEF TrailKept
  <1>5. Owned(owner)'
    <2>1. \A t \in Tasks : IsOf(context'[t], WorksFor(t)', owner)
      <3> SUFFICES ASSUME NEW t \in Tasks PROVE IsOf(context'[t], WorksFor(t)', owner)
        OBVIOUS
      <3>1. CASE t = c
        <4>1. WorksFor(t)' = Serving(s) /\ context'[t] = context[s]
          BY <3>1, <1>1, <1>t, <1>s DEF WorksFor, Shapes
        <4> QED
          BY <4>1, <1>v
      <3>2. CASE t # c
        <4>1. WorksFor(t)' = WorksFor(t) /\ context'[t] = context[t]
          BY <3>2, <1>1, <1>t, <1>s, TaskKinds DEF WorksFor, Serving, Shapes
        <4> QED
          BY <4>1, <1>o DEF Owned
      <3> QED
        BY <3>1, <3>2
    <2>2. \A u \in Servers : \A k \in Nat : Depth(u, k)' = Depth(u, k)
      BY <1>1 DEF Depth
    <2> QED
      BY <2>1, <2>2, <1>1, <1>o DEF Owned, Depth
  <1> QED
    BY <1>2, <1>3, <1>4, <1>5 DEF CoreInv

LEMMA CutProperties ==
    ASSUME NEW S, NEW q \in Seq(S), NEW first \in 1..Len(q)
    PROVE  /\ SubSeq(q, first, Len(q)) \in Seq(S)
           /\ Len(SubSeq(q, first, Len(q))) = Len(q) - first + 1
           /\ \A i \in 1..(Len(q) - first + 1) : SubSeq(q, first, Len(q))[i] = q[first + i - 1]
  <1> PICK n \in Nat : n = Len(q)
    OBVIOUS
  <1>1. \A i \in first..n : i \in 1..Len(q)
    OBVIOUS
  <1>2. \A i \in first..n : q[i] \in S
    BY <1>1, ElementOfSeq
  <1>3. /\ SubSeq(q, first, n) \in Seq(S)
        /\ Len(SubSeq(q, first, n)) = IF first <= n THEN n - first + 1 ELSE 0
        /\ \A i \in 1..(n - first + 1) : SubSeq(q, first, n)[i] = q[first + i - 1]
    BY <1>2, SubSeqProperties
  <1> QED
    BY <1>3

\* The entries of a trail that are kept, when it has n.
Capped(n) == IF n > MaxCrumbs THEN MaxCrumbs ELSE n

\* A trail of which the oldest entries are cut.
LEMMA KeptProperties ==
    ASSUME NEW S, NEW q \in Seq(S), q # <<>>
    PROVE  /\ Kept(q) \in Seq(S) /\ Len(Kept(q)) = Capped(Len(q))
           /\ \A i \in 1..Capped(Len(q)) :
                /\ Len(q) - Capped(Len(q)) + i \in 1..Len(q)
                /\ Kept(q)[i] = q[Len(q) - Capped(Len(q)) + i]
  <1>c. MaxCrumbs \in Nat \ {0}
    BY ContextAssumption DEF ContextAssumption
  <1>n. Len(q) \in Nat \ {0}
    BY EmptySeq
  <1> DEFINE n == Len(q)
             m == Capped(n)
             first == n - m + 1
  <1>m. m \in Nat /\ first \in 1..n /\ n - first + 1 = m
    BY <1>c, <1>n DEF Capped
  <1>1. \A i \in 1..m : first + i - 1 = n - m + i /\ n - m + i \in 1..n
    BY <1>c, <1>n DEF Capped
  <1>2. Kept(q) = SubSeq(q, first, Len(q))
    <2>1. first = IF n > MaxCrumbs THEN n - MaxCrumbs + 1 ELSE 1
      BY <1>c, <1>n DEF Capped
    <2> HIDE DEF first
    <2> QED
      BY <2>1, Zenon DEF Kept
  <1> HIDE DEF m, first
  <1>3. /\ SubSeq(q, first, Len(q)) \in Seq(S)
        /\ Len(SubSeq(q, first, Len(q))) = Len(q) - first + 1
        /\ \A i \in 1..(Len(q) - first + 1) : SubSeq(q, first, Len(q))[i] = q[first + i - 1]
    BY <1>m, CutProperties
  <1>4. Kept(q) \in Seq(S) /\ Len(Kept(q)) = m /\ \A i \in 1..m : Kept(q)[i] = q[first + i - 1]
    BY <1>m, <1>2, <1>3, Zenon
  <1>5. \A i \in 1..m : n - m + i \in 1..n /\ Kept(q)[i] = q[n - m + i]
    BY <1>1, <1>4, Zenon
  <1> QED
    BY <1>4, <1>5, Zenon DEF m

\* The trail q of request r after a crumbs were added to it.
Latest(q, a, r) ==
    /\ q \in Seq(Crumbs)
    /\ Len(q) = Capped(a)
    /\ \A i \in 1..Len(q) : q[i].nth = a - Len(q) + i /\ q[i].by = r

LEMMA KeptIsLatest ==
    ASSUME NEW a \in Nat, NEW r \in Nat, NEW q, Latest(q, a, r),
           NEW crumb \in Crumbs, crumb.nth = a + 1, crumb.by = r
    PROVE  Latest(Kept(Append(q, crumb)), a + 1, r) /\ Capped(a + 1) <= MaxCrumbs
  <1>c. MaxCrumbs \in Nat \ {0}
    BY ContextAssumption DEF ContextAssumption
  <1>q. q \in Seq(Crumbs)
    BY DEF Latest
  <1> HIDE DEF Crumbs
  <1>l. PICK l \in Nat : l = Len(q) /\ l = Capped(a)
    BY <1>q DEF Latest
  <1>t. PICK trail \in Seq(Crumbs) : trail = Append(q, crumb)
    <2>1. Append(q, crumb) \in Seq(Crumbs)
      BY <1>q
    <2> QED
      BY <2>1
  <1>1. /\ Len(trail) = l + 1 /\ trail[l + 1] = crumb /\ trail # <<>>
        /\ \A i \in 1..l : trail[i] = q[i]
    <2>1. Len(trail) = l + 1 /\ trail[l + 1] = crumb /\ \A i \in 1..l : trail[i] = q[i]
      <3>1. /\ Len(Append(q, crumb)) = Len(q) + 1 /\ Append(q, crumb)[Len(q) + 1] = crumb
            /\ \A i \in 1..Len(q) : Append(q, crumb)[i] = q[i]
        BY <1>q
      <3> QED
        BY <3>1, <1>l, <1>t, Zenon
    <2> QED
      BY <2>1, EmptySeq
  <1>2. \A i \in 1..(l + 1) : trail[i].nth = a - l + i /\ trail[i].by = r
    <2>1. \A i \in 1..(l + 1) : i \in 1..l \/ i = l + 1
      OBVIOUS
    <2>2. a + 1 = a - l + (l + 1)
      OBVIOUS
    <2>3. \A i \in 1..l : q[i].nth = a - l + i /\ q[i].by = r
      BY <1>l DEF Latest
    <2> QED
      BY <1>1, <2>1, <2>2, <2>3
  <1> PICK n \in Nat \ {0} : n = l + 1
    OBVIOUS
  <1>m. PICK m \in Nat : m = Capped(n)
    BY <1>c DEF Capped
  <1>3. /\ Kept(trail) \in Seq(Crumbs) /\ Len(Kept(trail)) = m
        /\ \A i \in 1..m : n - m + i \in 1..n /\ Kept(trail)[i] = trail[n - m + i]
    BY <1>1, <1>m, KeptProperties
  <1>4. m <= MaxCrumbs /\ m = Capped(a + 1) /\ \A i \in 1..m : a - l + (n - m + i) = a + 1 - m + i
    BY <1>c, <1>l, <1>m DEF Capped
  <1>5. \A i \in 1..m : trail[n - m + i].nth = a - l + (n - m + i) /\ trail[n - m + i].by = r
    BY <1>2, <1>3
  <1>6. \A i \in 1..m : Kept(trail)[i].nth = a + 1 - m + i /\ Kept(trail)[i].by = r
    BY <1>3, <1>4, <1>5, Zenon
  <1> QED
    <2>1. PICK kept : kept = Kept(Append(q, crumb))
      OBVIOUS
    <2>2. /\ kept \in Seq(Crumbs) /\ Len(kept) = Capped(a + 1) /\ Len(kept) = m
          /\ \A i \in 1..m : kept[i].nth = a + 1 - m + i /\ kept[i].by = r
      BY <2>1, <1>t, <1>3, <1>4, <1>6, Zenon
    <2>3. \A i \in 1..Len(kept) : kept[i].nth = a + 1 - Len(kept) + i /\ kept[i].by = r
      BY <2>2, Zenon
    <2>4. Latest(kept, a + 1, r)
      BY <2>2, <2>3 DEF Latest
    <2> QED
      BY <2>1, <2>4, <1>4

LEMMA AddKeeps ==
    ASSUME CoreInv, NEW t \in Tasks, AddBreadcrumb(t)
    PROVE  CoreInv'
  <1>c. MaxCrumbs \in Nat \ {0} /\ MaxTrails \in Nat
    BY ContextAssumption DEF ContextAssumption
  <1>s. ContextTypeOK /\ Shapes /\ TrailKept
    BY DEF CoreInv
  <1>o. PICK owner \in [1..MaxTrails -> Nat] : Owned(owner)
    BY DEF CoreInv
  <1>n. PICK n \in 1..trails : n = context[t].trail /\ n # None /\ n \in 1..MaxTrails
    BY <1>c, <1>s DEF AddBreadcrumb, ContextTypeOK, None
  <1>w. WorksFor(t) = owner[n] /\ owner[n] \in Nat
    BY <1>n, <1>o DEF Owned, IsOf
  <1>a. PICK a \in Nat : a = added[n]
    BY <1>n, <1>s DEF Shapes
  <1>q. PICK q \in Seq(Crumbs) : q = crumbs[n]
    BY <1>n, <1>s DEF Shapes
  <1>r. PICK r \in Nat : r = owner[n]
    BY <1>w
  <1>m. PICK crumb \in Crumbs : crumb = [by |-> r, nth |-> a + 1] /\ crumb.by = r /\ crumb.nth = a + 1
    <2>1. [by |-> r, nth |-> a + 1] \in Crumbs
      BY DEF Crumbs
    <2> QED
      BY <2>1
  <1>z. PICK kept : kept = Kept(Append(q, crumb))
    OBVIOUS
  <1>1. /\ added' = [added EXCEPT ![n] = a + 1]
        /\ crumbs' = [crumbs EXCEPT ![n] = kept]
        /\ UNCHANGED <<context, passes, tags, crash, requests, trails, starter>>
    BY <1>n, <1>w, <1>a, <1>q, <1>r, <1>m, <1>z DEF AddBreadcrumb
  <1>k. Latest(kept, a + 1, r) /\ Len(kept) <= MaxCrumbs
    <2>1. Len(q) = Capped(a)
      BY <1>n, <1>a, <1>q, <1>s DEF TrailKept, Capped
    <2>2. \A i \in 1..Len(q) : q[i].nth = a - Len(q) + i
      BY <1>n, <1>a, <1>q, <1>s DEF TrailKept
    <2>3. \A i \in 1..Len(q) : q[i].by = r
      BY <1>n, <1>q, <1>r, <1>o DEF Owned
    <2>4. Latest(q, a, r)
      BY <2>1, <2>2, <2>3, Zenon DEF Latest
    <2>5. Latest(kept, a + 1, r) /\ Capped(a + 1) <= MaxCrumbs
      BY <2>4, <1>m, <1>z, KeptIsLatest
    <2> QED
      BY <2>5 DEF Latest
  <1>j. /\ kept \in Seq(Crumbs) /\ Len(kept) = Capped(a + 1)
        /\ \A i \in 1..Len(kept) : kept[i].nth = a + 1 - Len(kept) + i /\ kept[i].by = r
    BY <1>k DEF Latest
  <1>p. /\ crumbs' \in [1..MaxTrails -> Seq(Crumbs)] /\ crumbs'[n] = kept
        /\ \A i \in 1..MaxTrails : i # n => crumbs'[i] = crumbs[i] /\ added'[i] = added[i]
        /\ added'[n] = a + 1 /\ added' \in [1..MaxTrails -> Nat]
    <2> HIDE DEF Crumbs
    <2>1. crumbs \in [1..MaxTrails -> Seq(Crumbs)] /\ added \in [1..MaxTrails -> Nat] /\ a + 1 \in Nat
      BY <1>s DEF Shapes
    <2> QED
      BY <2>1, <1>1, <1>n, <1>j
  <1>2. ContextTypeOK'
    <2>1. \A i \in 1..MaxTrails : Len(crumbs'[i]) <= MaxCrumbs
      BY <1>k, <1>p, <1>s DEF ContextTypeOK
    <2> QED
      BY <2>1, <1>1, <1>s DEF ContextTypeOK
  <1>3. Shapes'
    <2>1. \A i \in 1..MaxTrails : i > trails => i # n
      BY <1>n, <1>s DEF Shapes
    <2>2. \A i \in 1..MaxTrails : i > trails => crumbs'[i] = <<>>
      BY <2>1, <1>p, <1>s DEF Shapes
    <2> QED
      BY <1>1, <1>p, <1>s, <2>2 DEF Shapes
  <1>4. TrailKept'
    <2>1. \A i \in 1..MaxTrails : i = n \/ (crumbs'[i] = crumbs[i] /\ added'[i] = added[i])
      BY <1>p
    <2>2. /\ Len(crumbs'[n]) = IF added'[n] > MaxCrumbs THEN MaxCrumbs ELSE added'[n]
          /\ \A i \in 1..Len(crumbs'[n]) : crumbs'[n][i].nth = added'[n] - Len(crumbs'[n]) + i
      <3>1. Len(crumbs'[n]) = Capped(added'[n])
        BY <1>p, <1>j, Zenon
      <3>2. \A i \in 1..Len(crumbs'[n]) : crumbs'[n][i].nth = added'[n] - Len(crumbs'[n]) + i
        <4> SUFFICES ASSUME NEW i \in 1..Len(crumbs'[n])
                     PROVE  crumbs'[n][i].nth = added'[n] - Len(crumbs'[n]) + i
          OBVIOUS
        <4>1. kept[i].nth = a + 1 - Len(kept) + i /\ crumbs'[n] = kept /\ added'[n] = a + 1
          BY <1>p, <1>j
        <4>2. Len(kept) \in Nat
          BY <1>j
        <4>3. a + 1 - Len(kept) + i = added'[n] - Len(crumbs'[n]) + i
          BY <4>1, <4>2
        <4>4. crumbs'[n][i].nth = kept[i].nth
          BY <4>1, Zenon
        <4> QED
          BY <4>1, <4>3, <4>4, Zenon
      <3> QED
        BY <3>1, <3>2, Zenon DEF Capped
    <2>3. \A i \in 1..MaxTrails :
            /\ Len(crumbs'[i]) = IF added'[i] > MaxCrumbs THEN MaxCrumbs ELSE added'[i]
            /\ \A j \in 1..Len(crumbs'[i]) : crumbs'[i][j].nth = added'[i] - Len(crumbs'[i]) + j
      BY <2>1, <2>2, <1>s DEF TrailKept
    <2> QED
      BY <2>3, <1>1 DEF TrailKept
  <1>5. Owned(owner)'
    <2>2. \A j \in 1..trails : j \in 1..MaxTrails
      BY <1>s, <1>c DEF ContextTypeOK
    <2>3. \A j \in 1..trails : \A i \in 1..Len(crumbs'[j]) : crumbs'[j][i].by = owner[j]
      <3>1. \A i \in 1..Len(crumbs'[n]) : crumbs'[n][i].by = owner[n]
        BY <1>j, <1>p, <1>r
      <3>2. \A j \in 1..trails : j = n \/ crumbs'[j] = crumbs[j]
        BY <2>2, <1>p
      <3> QED
        BY <3>1, <3>2, <1>o DEF Owned
    <2> QED
      BY <2>3, <1>1, <1>o DEF Owned, WorksFor, Serving, Depth
  <1> QED
    BY <1>2, <1>3, <1>4, <1>5 DEF CoreInv

LEMMA TagKeeps ==
    ASSUME CoreInv, NEW t \in Tasks, SetErrorTag(t)
    PROVE  CoreInv'
  <1>c. MaxTrails \in Nat
    BY ContextAssumption DEF ContextAssumption
  <1>s. ContextTypeOK /\ Shapes /\ TrailKept
    BY DEF CoreInv
  <1>o. PICK owner \in [1..MaxTrails -> Nat] : Owned(owner)
    BY DEF CoreInv
  <1>n. PICK n \in 1..trails : n = context[t].trail /\ n # None /\ n \in 1..MaxTrails
    BY <1>c, <1>s DEF SetErrorTag, ContextTypeOK, None
  <1>w. WorksFor(t) = owner[n] /\ owner[n] \in Nat
    BY <1>n, <1>o DEF Owned, IsOf
  <1>1. /\ tags' = [tags EXCEPT ![n] = owner[n]]
        /\ UNCHANGED <<context, passes, crumbs, crash, requests, trails, starter, added>>
    BY <1>n, <1>w DEF SetErrorTag
  <1>p. /\ tags' \in [1..MaxTrails -> Nat] /\ tags'[n] = owner[n]
        /\ \A i \in 1..MaxTrails : i # n => tags'[i] = tags[i]
    BY <1>1, <1>n, <1>w, <1>s DEF Shapes
  <1>2. ContextTypeOK' /\ TrailKept'
    BY <1>1, <1>s DEF ContextTypeOK, TrailKept
  <1>3. Shapes'
    <2>1. \A i \in 1..MaxTrails : i > trails => i # n
      BY <1>n, <1>s DEF Shapes
    <2>2. \A i \in 1..MaxTrails : i > trails => tags'[i] = None
      BY <2>1, <1>p, <1>s DEF Shapes
    <2> QED
      BY <1>1, <1>p, <1>s, <2>2 DEF Shapes
  <1>4. Owned(owner)'
    <2>1. \A j \in 1..trails : j \in 1..MaxTrails
      BY <1>c, <1>s DEF ContextTypeOK
    <2>2. \A j \in 1..trails : tags'[j] \in {None, owner[j]}
      BY <2>1, <1>p, <1>o DEF Owned
    <2> QED
      BY <2>2, <1>1, <1>o DEF Owned, WorksFor, Serving, Depth
  <1> QED
    BY <1>2, <1>3, <1>4 DEF CoreInv

\* An event says of one request what it says.
OfOne(event) ==
    /\ event.id = event.of
    /\ event.crumbs \subseteq {event.of}
    /\ event.tag \in {None, event.of}

\* The event a context gives is of the request it is of.
LEMMA EventIsOfOne ==
    ASSUME CoreInv, NEW t \in Tasks, NEW id, context[t].trail # None => id = WorksFor(t)
    PROVE  OfOne(EventOf(t, id, id))
  <1>s. ContextTypeOK /\ Shapes
    BY DEF CoreInv
  <1>o. PICK owner \in [1..MaxTrails -> Nat] : Owned(owner)
    BY DEF CoreInv
  <1>1. CASE context[t].trail = None
    BY <1>1 DEF EventOf, OfOne
  <1>2. CASE context[t].trail # None
    <2>1. PICK n \in 1..trails : n = context[t].trail /\ n \in 1..MaxTrails
      BY <1>2, <1>s, ContextAssumption DEF ContextTypeOK, None, ContextAssumption
    <2>2. owner[n] = id
      BY <1>2, <1>o, <2>1 DEF Owned, IsOf
    <2>3. DOMAIN crumbs[n] = 1..Len(crumbs[n])
      BY <2>1, <1>s DEF Shapes
    <2>4. tags[n] \in {None, id} /\ \A i \in DOMAIN crumbs[n] : crumbs[n][i].by = id
      BY <1>o, <2>1, <2>2, <2>3 DEF Owned
    <2>5. EventOf(t, id, id) = [id |-> id, of |-> id, crumbs |-> {crumbs[n][i].by : i \in DOMAIN crumbs[n]},
                                tag |-> tags[n]]
      BY <1>2, <2>1 DEF EventOf
    <2>6. {crumbs[n][i].by : i \in DOMAIN crumbs[n]} \subseteq {id}
      BY <2>4
    <2> QED
      BY <2>4, <2>5, <2>6 DEF OfOne
  <1> QED
    BY <1>1, <1>2

LEMMA WorksForItsId ==
    ASSUME CoreInv, NEW t \in Tasks
    PROVE  context[t].id = WorksFor(t)
  BY DEF CoreInv, Owned, IsOf

LEMMA HandledIsOfOne ==
    ASSUME CoreInv, NEW s \in Servers, crash[s] # None
    PROVE  OfOne(EventOf(s, HandlerId(s), crash[s]))
  <1>1. passes[s] = <<>> /\ s \in Tasks
    BY TaskKinds DEF CoreInv, Shapes
  <1>2. context[s].id = None /\ context[s].trail = None
    <2>1. WorksFor(s) = None
      BY <1>1 DEF WorksFor, Serving
    <2> QED
      BY <1>1, <2>1 DEF CoreInv, Owned, IsOf
  <1>3. HandlerId(s) = crash[s]
    BY <1>2 DEF HandlerId
  <1> QED
    BY <1>1, <1>2, <1>3, EventIsOfOne

LEMMA CoreNext == CoreInv /\ [ContextNext]_contextVars => CoreInv'
  <1> SUFFICES ASSUME CoreInv, [ContextNext]_contextVars PROVE CoreInv'
    OBVIOUS
  <1>s. ContextTypeOK /\ Shapes /\ MaxRequests \in Nat
    BY ContextAssumption DEF CoreInv, ContextAssumption
  <1>1. ASSUME NEW s \in Servers, Arrive(s) PROVE CoreInv'
    <2>1. requests' = requests + 1 /\ requests < MaxRequests /\ requests \in Nat /\ Pass(s, requests + 1)
      BY <1>1, <1>s DEF Arrive, Shapes
    <2>2. requests + 1 \in Nat \ {0} /\ requests' \in requests..MaxRequests /\ requests + 1 <= requests'
      BY <2>1, <1>s
    <2> QED
      BY <2>1, <2>2, PassKeeps
  <1>2. ASSUME NEW s \in Servers, PassAgain(s) PROVE CoreInv'
    <2>1. requests' = requests /\ requests \in 0..MaxRequests /\ Pass(s, Serving(s)) /\ passes[s] # <<>>
      BY <1>2, <1>s DEF PassAgain, ContextTypeOK
    <2>2. Serving(s) # None
      <3>1. Serving(s) = Depth(s, Len(passes[s])) /\ Len(passes[s]) \in 1..Len(passes[s]) /\ Len(passes[s]) # 0
        BY <2>1, <1>s, RestProperties
      <3> QED
        BY <3>1 DEF CoreInv, Owned, Depth
    <2>3. Serving(s) = context[s].id /\ s \in Tasks
      BY TaskKinds, WorksForItsId DEF WorksFor
    <2>4. Serving(s) \in 0..requests
      BY <2>3, <1>s DEF ContextTypeOK
    <2>5. Serving(s) \in Nat \ {0} /\ requests' \in requests..MaxRequests /\ Serving(s) <= requests'
      BY <2>1, <2>2, <2>4 DEF None
    <2> QED
      BY <2>1, <2>5, PassKeeps
  <1>3. ASSUME NEW s \in Servers, LeaveWithAnswer(s) PROVE CoreInv'
    BY <1>3, LeaveKeeps DEF LeaveWithAnswer
  <1>4. ASSUME NEW s \in Servers, LeaveWithError(s) PROVE CoreInv'
    <2>1. Leave(s)
      BY <1>4 DEF LeaveWithError
    <2>2. \/ crash' = crash
          \/ crash' = [crash EXCEPT ![s] = IF Rest(s) = <<>> THEN Serving(s) ELSE None]
      BY <1>4 DEF LeaveWithError
    <2> QED
      BY <2>1, <2>2, LeaveKeeps
  <1>5. ASSUME NEW s \in Servers, HandleError(s) PROVE CoreInv'
    BY <1>5, HandleKeeps DEF HandleError
  <1>6. ASSUME NEW s \in Servers, NEW c \in Children, StartTask(c, s) PROVE CoreInv'
    BY <1>6, StartTaskKeeps
  <1>7. ASSUME NEW t \in Tasks, AddBreadcrumb(t) PROVE CoreInv'
    BY <1>7, AddKeeps
  <1>8. ASSUME NEW t \in Tasks, SetErrorTag(t) PROVE CoreInv'
    BY <1>8, TagKeeps
  <1>9. CASE UNCHANGED <<context, passes, crumbs, tags, crash, requests, trails, starter, added>>
    <2>1. ContextTypeOK' /\ Shapes' /\ TrailKept'
      BY <1>9 DEF CoreInv, ContextTypeOK, Shapes, TrailKept
    <2>2. PICK owner \in [1..MaxTrails -> Nat] : Owned(owner)
      BY DEF CoreInv
    <2>3. Owned(owner)'
      BY <1>9, <2>2 DEF Owned, WorksFor, Serving, Depth
    <2> QED
      BY <2>1, <2>3 DEF CoreInv
  <1>10. ASSUME NEW t \in Tasks, Report(t) PROVE CoreInv'
    BY <1>9, <1>10 DEF Report
  <1>11. CASE UNCHANGED contextVars
    BY <1>9, <1>11 DEF contextVars
  <1> QED
    BY <1>1, <1>2, <1>3, <1>4, <1>5, <1>6, <1>7, <1>8, <1>10, <1>11 DEF ContextNext

LEMMA EventsNext ==
    CoreInv /\ EventsAreOfTheirRequest /\ [ContextNext]_contextVars => EventsAreOfTheirRequest'
  <1> SUFFICES ASSUME CoreInv, EventsAreOfTheirRequest, [ContextNext]_contextVars
               PROVE  EventsAreOfTheirRequest'
    OBVIOUS
  <1>1. ASSUME OfOne(events') PROVE EventsAreOfTheirRequest'
    BY <1>1 DEF OfOne, EventsAreOfTheirRequest
  <1>2. ASSUME events' = events PROVE EventsAreOfTheirRequest'
    BY <1>2 DEF EventsAreOfTheirRequest
  <1>3. ASSUME NEW s \in Servers, LeaveWithError(s) PROVE EventsAreOfTheirRequest'
    <2>1. s \in Tasks /\ context[s].id = Serving(s) /\ WorksFor(s) = Serving(s)
      BY TaskKinds, WorksForItsId DEF WorksFor
    <2>2. OfOne(EventOf(s, context[s].id, Serving(s)))
      BY <2>1, EventIsOfOne
    <2> QED
      BY <2>2, <1>1, <1>2, <1>3 DEF LeaveWithError
  <1>4. ASSUME NEW s \in Servers, HandleError(s) PROVE EventsAreOfTheirRequest'
    BY <1>1, <1>2, <1>4, HandledIsOfOne DEF HandleError
  <1>5. ASSUME NEW t \in Tasks, Report(t) PROVE EventsAreOfTheirRequest'
    <2>1. OfOne(EventOf(t, context[t].id, WorksFor(t)))
      BY WorksForItsId, EventIsOfOne
    <2> QED
      BY <2>1, <1>1, <1>5 DEF Report
  <1>6. ASSUME NEW s \in Servers, Arrive(s) \/ PassAgain(s) \/ LeaveWithAnswer(s)
        PROVE  EventsAreOfTheirRequest'
    BY <1>2, <1>6 DEF Arrive, PassAgain, Pass, LeaveWithAnswer
  <1>7. ASSUME NEW s \in Servers, NEW c \in Children, StartTask(c, s) PROVE EventsAreOfTheirRequest'
    BY <1>2, <1>7 DEF StartTask
  <1>8. ASSUME NEW t \in Tasks, AddBreadcrumb(t) \/ SetErrorTag(t) PROVE EventsAreOfTheirRequest'
    BY <1>2, <1>8 DEF AddBreadcrumb, SetErrorTag
  <1>9. CASE UNCHANGED contextVars
    BY <1>2, <1>9 DEF contextVars
  <1> QED
    BY <1>3, <1>4, <1>5, <1>6, <1>7, <1>8, <1>9 DEF ContextNext

LEMMA CoreHolds == ContextSpec => []CoreInv
  BY CoreInit, CoreNext, PTL DEF ContextSpec

\* A server between two requests is in the context it started with: the tokens
\* of the middleware's passes put back what each pass found, however often the
\* middleware is entered for a scope and however each pass ends.
THEOREM ServersComeBack == ContextSpec => []NothingLeftBehind
  <1>1. CoreInv => NothingLeftBehind
    <2> SUFFICES ASSUME CoreInv, NEW s \in Servers, passes[s] = <<>> PROVE context[s] = Outside
      BY DEF CoreInv, NothingLeftBehind
    <2>1. s \in Tasks /\ context[s].id = None /\ context[s].trail = None
      <3>1. s \in Tasks /\ WorksFor(s) = None
        BY TaskKinds DEF WorksFor, Serving
      <3> QED
        BY <3>1 DEF CoreInv, Owned, IsOf
    <2>2. context[s] \in Places
      BY <2>1 DEF CoreInv, Shapes
    <2> QED
      BY <2>1, <2>2 DEF Places, Outside
  <1> QED
    BY <1>1, CoreHolds, PTL

\* A trail is the last MaxCrumbs of the entries added to it, in order, whichever
\* tasks added them: each addition appends and cuts from the front.
THEOREM TrailsAreLatest == ContextSpec => []TrailIsLatest
  <1>1. CoreInv => TrailIsLatest
    <2> SUFFICES ASSUME CoreInv, NEW n \in 1..trails
                 PROVE  /\ Len(crumbs[n]) = IF added[n] > MaxCrumbs THEN MaxCrumbs ELSE added[n]
                        /\ \A i \in DOMAIN crumbs[n] : crumbs[n][i].nth = added[n] - Len(crumbs[n]) + i
      BY DEF TrailIsLatest
    <2>1. n \in 1..MaxTrails
      BY ContextAssumption DEF CoreInv, ContextTypeOK, ContextAssumption
    <2>2. DOMAIN crumbs[n] = 1..Len(crumbs[n])
      BY <2>1 DEF CoreInv, Shapes
    <2> QED
      BY <2>1, <2>2 DEF CoreInv, TrailKept
  <1> QED
    BY <1>1, CoreHolds, PTL

\* An event carries one request's id, crumbs and tag, that of the request whose
\* work failed: whether the middleware reports it, the Exception handler, or
\* code of the request or of a task that outlived it.
THEOREM EventsTellOfOne == ContextSpec => []EventsAreOfTheirRequest
  <1>1. ContextInit => EventsAreOfTheirRequest
    BY DEF ContextInit, EventsAreOfTheirRequest, NoEvent, None
  <1> QED
    BY <1>1, CoreHolds, EventsNext, PTL DEF ContextSpec

-----------------------------------------------------------------------------
(* LazyPg: who opened which connection when, and who found out its loss.   *)

Losses == drops + outages

\* PgTypeOK without the bound on made, and what TLC knows of the other variables.
PgShapes ==
    /\ made \in Nat /\ conn \in 0..made
    /\ closed \subseteq (1..made) \ live
    /\ live \subseteq 1..made
    /\ pc \in [Callers -> {"idle", "connect", "return"}]
    /\ holds \in [Callers -> 0..made]
    /\ drops \in 0..MaxDrops /\ outages \in 0..MaxOutages

\* The calls so far did not overlap: one caller is in get, which opens a
\* session only when the server has none.
InTurn ==
    /\ \A c, d \in Callers : pc[c] # "idle" /\ pc[d] # "idle" => c = d
    /\ live \subseteq {conn}
    /\ (\E c \in Callers : pc[c] = "connect") => live = {}

\* Connection n was opened by who[n] when when[n] sessions had been lost.  A
\* caller opens one connection between two losses: if the cached one is of no
\* use any more, or a caller was told so, there was a loss since.
OneEach(who, when) ==
    /\ \A n \in 1..made : when[n] <= Losses
    /\ \A m, n \in 1..made : who[m] = who[n] /\ when[m] = when[n] => m = n
    /\ conn \notin live => \A n \in 1..made : when[n] < Losses
    /\ \A c \in Callers : pc[c] = "connect" => \A n \in 1..made : who[n] = c => when[n] < Losses

Opened == \E who \in [1..made -> Callers], when \in [1..made -> Nat] : OneEach(who, when)

\* A caller that found out the loss of n is done with it: n is closed, it does
\* not work with n, and no get of its is about to return n.
FoundOut ==
    /\ failures \in [Callers -> [1..MaxConns -> 0..1]]
    /\ \A c \in Callers : \A n \in 1..MaxConns :
         failures[c][n] = 1 => n \in closed /\ holds[c] # n /\ (pc[c] = "return" => conn # n)

PgInv ==
    /\ PgShapes
    /\ overlapped \in BOOLEAN
    /\ overlapped \/ InTurn
    /\ Opened
    /\ FoundOut

LEMMA PgConstants ==
    /\ IsFiniteSet(Callers) /\ Cardinality(Callers) \in Nat
    /\ MaxDrops \in Nat /\ MaxOutages \in Nat /\ MaxConns \in Nat
  <1>1. /\ IsFiniteSet(Callers) /\ Cardinality(Callers) \in Nat
        /\ MaxDrops \in Nat /\ MaxOutages \in Nat
    BY LazyPgAssumption, FS_CardinalityType DEF LazyPgAssumption
  <1>2. \A m, n \in Nat : m * n \in Nat
    BY SMT
  <1> QED
    BY <1>1, <1>2 DEF MaxConns

\* Nobody opens two connections without a loss in between.
LEMMA MadeBounded == ASSUME PgShapes, Opened PROVE made <= MaxConns
  <1> PICK who \in [1..made -> Callers], when \in [1..made -> Nat] : OneEach(who, when)
    BY DEF Opened
  <1>1. /\ made \in Nat /\ Losses \in Nat /\ Losses <= MaxDrops + MaxOutages
        /\ Cardinality(Callers) \in Nat /\ MaxDrops + MaxOutages + 1 \in Nat
    BY PgConstants DEF PgShapes, Losses
  <1> DEFINE marks == Callers \X (0..Losses)
             mark == [n \in 1..made |-> <<who[n], when[n]>>]
  <1>2. mark \in Injection(1..made, marks)
    <2>1. mark \in [1..made -> marks]
      <3>1. \A n \in 1..made : when[n] \in 0..Losses
        BY <1>1 DEF OneEach
      <3> QED
        BY <3>1
    <2>2. \A m, n \in 1..made : mark[m] = mark[n] => m = n
      BY DEF OneEach
    <2> HIDE DEF mark, marks
    <2> QED
      BY <2>1, <2>2 DEF Injection, IsInjective
  <1>3. IsFiniteSet(0..Losses) /\ Cardinality(0..Losses) = Losses + 1
    BY <1>1, FS_Interval
  <1>4. IsFiniteSet(marks) /\ Cardinality(marks) = Cardinality(Callers) * (Losses + 1)
    BY <1>3, PgConstants, FS_Product
  <1> HIDE DEF marks, mark
  <1>5. Cardinality(1..made) <= Cardinality(marks)
    BY <1>2, <1>4, FS_Injection
  <1>6. Cardinality(1..made) = made
    BY <1>1, FS_Interval
  <1>7. \A k, m, n \in Nat : m <= n => k * m <= k * n
    BY SMT
  <1>8. Cardinality(Callers) * (Losses + 1) <= MaxConns
    <2>1. PICK k \in Nat : k = Cardinality(Callers)
      BY <1>1
    <2>2. PICK m \in Nat : m = Losses + 1
      BY <1>1
    <2>3. PICK n \in Nat : n = MaxDrops + MaxOutages + 1
      BY <1>1
    <2>4. m <= n
      BY <1>1, <2>2, <2>3, PgConstants
    <2>5. k * m <= k * n
      BY <2>4, <1>7, Zenon
    <2> QED
      BY <2>1, <2>2, <2>3, <2>5, Zenon DEF MaxConns
  <1>9. \A a, b, c, d : a = b /\ a <= c /\ c = d => b <= d
    OBVIOUS
  <1>10. made <= Cardinality(Callers) * (Losses + 1)
    BY <1>4, <1>5, <1>6, <1>9
  <1>11. Cardinality(Callers) * (Losses + 1) \in Nat
    BY <1>1, <1>7
  <1> QED
    BY <1>1, <1>8, <1>10, <1>11, PgConstants

\* The three properties' parts follow.
LEMMA PgInvImplies ==
    ASSUME PgInv PROVE OneSession /\ LossFoundOnce
  <1>1. made <= MaxConns /\ PgShapes
    BY MadeBounded DEF PgInv
  <1>2. PgTypeOK
    BY <1>1, PgConstants DEF PgShapes, PgTypeOK
  <1>3. \A n \in 1..made : n \in 1..MaxConns
    BY <1>1, PgConstants DEF PgShapes
  <1>4. LossFoundOnce
    <2>1. ASSUME NEW c \in Callers, NEW n \in 1..made PROVE failures[c][n] <= 1
      <3>1. failures[c] \in [1..MaxConns -> 0..1] /\ n \in 1..MaxConns
        BY <1>3 DEF PgInv, FoundOut
      <3>2. failures[c][n] \in 0..1
        BY <3>1
      <3> QED
        BY <3>2
    <2> QED
      BY <2>1 DEF LossFoundOnce
  <1> QED
    BY <1>2, <1>4 DEF PgInv, InTurn, OneSession

LEMMA PgInvInit == PgInit => PgInv
  <1> SUFFICES ASSUME PgInit PROVE PgInv
    OBVIOUS
  <1>1. PgShapes
    BY PgConstants DEF PgInit, PgShapes, NoConnection
  <1>2. InTurn
    BY DEF PgInit, InTurn
  <1>3. Opened
    <2>1. made = 0 /\ 1..0 = {}
      BY DEF PgInit
    <2>2. PICK who : who \in [{} -> Callers]
      <3>1. [n \in {} |-> n] \in [{} -> Callers]
        OBVIOUS
      <3> QED
        BY <3>1
    <2>3. PICK when : when \in [{} -> Nat]
      <3>1. [n \in {} |-> n] \in [{} -> Nat]
        OBVIOUS
      <3> QED
        BY <3>1
    <2>4. OneEach(who, when)
      BY <2>1 DEF OneEach
    <2> QED
      BY <2>1, <2>2, <2>3, <2>4 DEF Opened
  <1>4. FoundOut
    BY DEF FoundOut, PgInit
  <1> QED
    BY <1>1, <1>2, <1>3, <1>4 DEF PgInv, PgInit

\* A get finds a connection it may return, or sets out to open one.
LEMMA CheckKeeps ==
    ASSUME PgInv, NEW c \in Callers, GetCheck(c)
    PROVE  PgInv'
  <1>1. /\ pc[c] = "idle" /\ pc' = [pc EXCEPT ![c] = IF NeedsConnection THEN "connect" ELSE "return"]
        /\ UNCHANGED <<configured, conn, closed, made, live, up, drops, outages, holds, failures>>
    BY DEF GetCheck, Goto, client, server
  <1>s. PgShapes
    BY DEF PgInv
  <1>p. /\ pc' \in [Callers -> {"idle", "connect", "return"}] /\ pc'[c] # "idle"
        /\ \A d \in Callers : d # c => pc'[d] = pc[d]
        /\ pc'[c] = "connect" => conn \notin live
        /\ pc'[c] = "return" => conn \notin closed
    BY <1>1, <1>s DEF PgShapes, NeedsConnection, NoConnection
  <1>2. PgShapes'
    BY <1>1, <1>p, <1>s DEF PgShapes
  <1>3. overlapped' \in BOOLEAN /\ (overlapped' \/ InTurn')
    <2>1. overlapped' = (overlapped \/ \E d \in Callers \ {c} : pc[d] # "idle")
      BY DEF GetCheck
    <2>2. overlapped' \in BOOLEAN
      BY <2>1
    <2>3. ASSUME ~ overlapped' PROVE InTurn'
      <3>1. InTurn /\ \A d \in Callers : d # c => pc[d] = "idle"
        BY <2>1, <2>3 DEF PgInv
      <3>2. pc'[c] = "connect" => live = {}
        BY <3>1, <1>p DEF InTurn
      <3> QED
        BY <3>1, <3>2, <1>1, <1>p DEF InTurn
    <2> QED
      BY <2>2, <2>3
  <1>4. Opened'
    <2>1. PICK who \in [1..made -> Callers], when \in [1..made -> Nat] : OneEach(who, when)
      BY DEF PgInv, Opened
    <2>2. OneEach(who, when)'
      BY <2>1, <1>1, <1>p DEF OneEach, Losses
    <2> QED
      BY <2>2, <1>1 DEF Opened
  <1>5. FoundOut'
    BY <1>1, <1>p DEF PgInv, FoundOut, MaxConns
  <1> QED
    BY <1>1, <1>2, <1>3, <1>4, <1>5 DEF PgInv, MaxConns

\* A get without a DSN, or one that cannot connect, returns None; a get returns
\* the cached connection.
LEMMA ReturnKeeps ==
    ASSUME PgInv, NEW c \in Callers, GetDisabled(c) \/ ConnectFails(c) \/ GetReturn(c)
    PROVE  PgInv'
  <1>1. /\ pc' = [pc EXCEPT ![c] = "idle"]
        /\ \/ holds' = [holds EXCEPT ![c] = NoConnection]
           \/ pc[c] = "return" /\ holds' = [holds EXCEPT ![c] = conn]
        /\ UNCHANGED <<configured, conn, closed, made, live, up, drops, outages, failures, overlapped>>
    BY DEF GetDisabled, ConnectFails, GetReturn, Goto, Holds, client, server
  <1>s. PgShapes
    BY DEF PgInv
  <1>p. /\ pc' \in [Callers -> {"idle", "connect", "return"}] /\ pc'[c] = "idle"
        /\ \A d \in Callers : d # c => pc'[d] = pc[d] /\ holds'[d] = holds[d]
        /\ holds'[c] = NoConnection \/ (pc[c] = "return" /\ holds'[c] = conn)
        /\ holds' \in [Callers -> 0..made]
    BY <1>1, <1>s DEF PgShapes, NoConnection
  <1>2. PgShapes'
    BY <1>1, <1>p, <1>s DEF PgShapes
  <1>3. overlapped \/ InTurn'
    BY <1>1, <1>p DEF PgInv, InTurn
  <1>4. Opened'
    <2>1. PICK who \in [1..made -> Callers], when \in [1..made -> Nat] : OneEach(who, when)
      BY DEF PgInv, Opened
    <2>2. OneEach(who, when)'
      BY <2>1, <1>1, <1>p DEF OneEach, Losses
    <2> QED
      BY <2>2, <1>1 DEF Opened
  <1>5. FoundOut'
    BY <1>1, <1>p DEF PgInv, FoundOut, MaxConns, NoConnection
  <1> QED
    BY <1>1, <1>2, <1>3, <1>4, <1>5 DEF PgInv, MaxConns

\* A connection is opened, and is the cached one.
LEMMA ConnectKeeps ==
    ASSUME PgInv, NEW c \in Callers, Connect(c)
    PROVE  PgInv'
  <1>1. /\ pc[c] = "connect" /\ pc' = [pc EXCEPT ![c] = "return"]
        /\ made' = made + 1 /\ conn' = made + 1 /\ live' = live \cup {made + 1}
        /\ UNCHANGED <<configured, closed, up, drops, outages, holds, failures, overlapped>>
    BY DEF Connect, Goto
  <1>s. PgShapes
    BY DEF PgInv
  <1>p. /\ pc' \in [Callers -> {"idle", "connect", "return"}] /\ pc'[c] = "return"
        /\ \A d \in Callers : d # c => pc'[d] = pc[d]
    BY <1>1, <1>s DEF PgShapes
  <1>2. PgShapes'
    <2>1. made \in Nat /\ made + 1 \notin closed /\ 1..made \subseteq 1..(made + 1) /\ made + 1 \in 1..(made + 1)
      BY <1>s DEF PgShapes
    <2>2. holds \in [Callers -> 0..(made + 1)]
      <3>1. 0..made \subseteq 0..(made + 1)
        BY <1>s DEF PgShapes
      <3> QED
        BY <3>1, <1>s DEF PgShapes
    <2>3. /\ closed' \subseteq (1..made') \ live' /\ live' \subseteq 1..made'
      BY <2>1, <1>1, <1>s DEF PgShapes
    <2>4. conn' \in 0..made' /\ made' \in Nat
      BY <2>1, <1>1
    <2> QED
      BY <2>2, <2>3, <2>4, <1>1, <1>p, <1>s DEF PgShapes
  <1>3. overlapped \/ InTurn'
    <2> SUFFICES ASSUME ~ overlapped PROVE InTurn'
      OBVIOUS
    <2>1. InTurn /\ live = {}
      BY <1>1 DEF PgInv, InTurn
    <2>2. \A d \in Callers : pc'[d] # "idle" => d = c
      BY <2>1, <1>1, <1>p DEF InTurn
    <2> QED
      BY <2>1, <2>2, <1>1, <1>p DEF InTurn
  <1>4. Opened'
    <2>1. PICK who \in [1..made -> Callers], when \in [1..made -> Nat] : OneEach(who, when)
      BY DEF PgInv, Opened
    <2>n. PICK n \in Nat : n = made
      BY <1>s DEF PgShapes
    <2>m. PICK m \in Nat : m = Losses
      BY <1>s, PgConstants DEF PgShapes, Losses
    <2>2. PICK whoNow \in [1..(n + 1) -> Callers] :
            whoNow[n + 1] = c /\ \A k \in 1..n : whoNow[k] = who[k]
      <3> DEFINE f == [k \in 1..(n + 1) |-> IF k = n + 1 THEN c ELSE who[k]]
      <3>1. f \in [1..(n + 1) -> Callers]
        BY <2>n
      <3>2. f[n + 1] = c /\ \A k \in 1..n : f[k] = who[k]
        OBVIOUS
      <3> QED
        BY <3>1, <3>2
    <2>3. PICK whenNow \in [1..(n + 1) -> Nat] :
            whenNow[n + 1] = m /\ \A k \in 1..n : whenNow[k] = when[k]
      <3> DEFINE f == [k \in 1..(n + 1) |-> IF k = n + 1 THEN m ELSE when[k]]
      <3>1. f \in [1..(n + 1) -> Nat]
        BY <2>n
      <3>2. f[n + 1] = m /\ \A k \in 1..n : f[k] = when[k]
        OBVIOUS
      <3> QED
        BY <3>1, <3>2
    <2>4. /\ made' = n + 1 /\ conn' \in live' /\ Losses' = m
          /\ \A k \in 1..(n + 1) : k \in 1..n \/ k = n + 1
      BY <1>1, <2>n, <2>m DEF Losses
    <2>5. \A k \in 1..n : when[k] <= m /\ (who[k] = c => when[k] < m)
      BY <2>1, <2>n, <2>m, <1>1 DEF OneEach
    <2>6. \A k \in 1..(n + 1) : whenNow[k] <= m
      <3>1. m <= m
        OBVIOUS
      <3> QED
        BY <3>1, <2>3, <2>4, <2>5, Zenon
    <2>7. \A j, k \in 1..(n + 1) : whoNow[j] = whoNow[k] /\ whenNow[j] = whenNow[k] => j = k
      <3> SUFFICES ASSUME NEW j \in 1..(n + 1), NEW k \in 1..(n + 1),
                          whoNow[j] = whoNow[k] /\ whenNow[j] = whenNow[k]
                   PROVE  j = k
        OBVIOUS
      <3>1. CASE j \in 1..n /\ k \in 1..n
        BY <3>1, <2>1, <2>2, <2>3, <2>n DEF OneEach
      <3>2. \A i \in 1..n : ~ (whoNow[i] = c /\ whenNow[i] = m)
        BY <2>2, <2>3, <2>5
      <3> QED
        BY <3>1, <3>2, <2>2, <2>3, <2>4
    <2>8. \A d \in Callers : pc'[d] = "connect" => \A k \in 1..(n + 1) : whoNow[k] = d => whenNow[k] < m
      <3> SUFFICES ASSUME NEW d \in Callers, pc'[d] = "connect", NEW k \in 1..(n + 1), whoNow[k] = d
                   PROVE  whenNow[k] < m
        OBVIOUS
      <3>1. d # c /\ pc[d] = "connect"
        BY <1>p
      <3>2. k \in 1..n
        BY <3>1, <2>2, <2>4
      <3> QED
        BY <3>1, <3>2, <2>1, <2>2, <2>3, <2>n, <2>m DEF OneEach
    <2>9. OneEach(whoNow, whenNow)'
      BY <2>4, <2>6, <2>7, <2>8 DEF OneEach
    <2> QED
      BY <2>4, <2>9 DEF Opened
  <1>5. FoundOut'
    <2>1. made + 1 \notin closed
      BY <1>s DEF PgShapes
    <2> QED
      BY <2>1, <1>1 DEF PgInv, FoundOut, MaxConns
  <1> QED
    BY <1>1, <1>2, <1>3, <1>4, <1>5 DEF PgInv, MaxConns

\* An operation fails on a session that was lost, and the connection is closed.
LEMMA UseKeeps ==
    ASSUME PgInv, NEW c \in Callers, UseFails(c)
    PROVE  PgInv'
  <1>s. PgShapes /\ made <= MaxConns
    BY MadeBounded DEF PgInv
  <1>n. PICK n \in 1..made : n = holds[c] /\ n \notin live /\ n \in 1..MaxConns
    BY <1>s, PgConstants DEF UseFails, PgShapes, NoConnection
  <1>1. /\ pc[c] = "idle" /\ closed' = closed \cup {n}
        /\ failures' = [failures EXCEPT ![c][n] = @ + 1]
        /\ holds' = [holds EXCEPT ![c] = NoConnection]
        /\ UNCHANGED <<configured, conn, made, live, up, drops, outages, pc, overlapped>>
    BY <1>n DEF UseFails, Holds, server
  <1>h. /\ holds' \in [Callers -> 0..made] /\ holds'[c] = NoConnection
        /\ \A d \in Callers : d # c => holds'[d] = holds[d]
    BY <1>1, <1>s DEF PgShapes, NoConnection
  <1>2. PgShapes'
    BY <1>1, <1>h, <1>n, <1>s DEF PgShapes
  <1>3. overlapped \/ InTurn'
    BY <1>1 DEF PgInv, InTurn
  <1>4. Opened'
    <2>1. PICK who \in [1..made -> Callers], when \in [1..made -> Nat] : OneEach(who, when)
      BY DEF PgInv, Opened
    <2>2. OneEach(who, when)'
      BY <2>1, <1>1 DEF OneEach, Losses
    <2> QED
      BY <2>2, <1>1 DEF Opened
  <1>5. FoundOut'
    <2>1. /\ failures \in [Callers -> [1..MaxConns -> 0..1]]
          /\ failures[c] \in [1..MaxConns -> 0..1] /\ failures[c][n] = 0
      <3>1. /\ failures \in [Callers -> [1..MaxConns -> 0..1]]
            /\ failures[c] \in [1..MaxConns -> 0..1]
        BY DEF PgInv, FoundOut
      <3>2. failures[c][n] # 1
        BY <1>n DEF PgInv, FoundOut
      <3>3. failures[c][n] \in 0..1
        BY <3>1, <1>n
      <3> QED
        BY <3>1, <3>2, <3>3
    <2> DEFINE row == [failures[c] EXCEPT ![n] = 1]
    <2>r. /\ row \in [1..MaxConns -> 0..1] /\ row[n] = 1
          /\ \A k \in 1..MaxConns : k # n => row[k] = failures[c][k]
      BY <2>1, <1>n
    <2>f. failures' = [failures EXCEPT ![c] = row]
      BY <1>1, <2>1
    <2> HIDE DEF row
    <2>2. /\ failures' \in [Callers -> [1..MaxConns -> 0..1]]
          /\ failures'[c][n] = 1
          /\ \A d \in Callers : \A k \in 1..MaxConns :
               d # c \/ k # n => failures'[d][k] = failures[d][k]
      BY <2>1, <2>r, <2>f
    <2>3. ASSUME NEW d \in Callers, NEW k \in 1..MaxConns, failures'[d][k] = 1
          PROVE  k \in closed' /\ holds'[d] # k /\ (pc'[d] = "return" => conn' # k)
      <3>1. CASE d = c /\ k = n
        BY <3>1, <1>1, <1>h, <1>n DEF NoConnection
      <3>2. CASE d # c \/ k # n
        <4>1. k \in closed /\ holds[d] # k /\ (pc[d] = "return" => conn # k)
          BY <3>2, <2>2, <2>3 DEF PgInv, FoundOut
        <4> QED
          BY <4>1, <1>1, <1>h DEF NoConnection
      <3> QED
        BY <3>1, <3>2
    <2> QED
      BY <2>2, <2>3 DEF FoundOut, MaxConns
  <1> QED
    BY <1>1, <1>2, <1>3, <1>4, <1>5 DEF PgInv, MaxConns

\* The server loses sessions, which counts as one loss, or comes back.
LEMMA ServerKeeps ==
    ASSUME PgInv, (\E n \in 1..made : Drop(n)) \/ Outage \/ Restart
    PROVE  PgInv'
  <1>1. /\ UNCHANGED <<configured, conn, closed, made, pc, holds, failures, overlapped>>
        /\ live' \subseteq live
        /\ drops' \in 0..MaxDrops /\ outages' \in 0..MaxOutages
        /\ \/ Losses' = Losses + 1
           \/ Losses' = Losses /\ live' = live
    <2>1. /\ drops \in 0..MaxDrops /\ outages \in 0..MaxOutages
          /\ MaxDrops \in Nat /\ MaxOutages \in Nat
      BY PgConstants DEF PgInv, PgShapes
    <2>2. ASSUME NEW n \in 1..made, Drop(n)
          PROVE  /\ UNCHANGED <<configured, conn, closed, made, pc, holds, failures, overlapped>>
                 /\ live' \subseteq live
                 /\ drops' \in 0..MaxDrops /\ outages' \in 0..MaxOutages
                 /\ Losses' = Losses + 1
      BY <2>1, <2>2 DEF Drop, client, Losses
    <2>3. CASE Outage
      BY <2>1, <2>3 DEF Outage, client, Losses
    <2>4. CASE Restart
      BY <2>1, <2>4 DEF Restart, client, Losses
    <2> QED
      BY <2>2, <2>3, <2>4
  <1>s. PgShapes
    BY DEF PgInv
  <1>2. PgShapes'
    BY <1>1, <1>s DEF PgShapes
  <1>3. overlapped \/ InTurn'
    BY <1>1 DEF PgInv, InTurn
  <1>4. Opened'
    <2>1. PICK who \in [1..made -> Callers], when \in [1..made -> Nat] : OneEach(who, when)
      BY DEF PgInv, Opened
    <2>2. Losses \in Nat
      BY <1>s, PgConstants DEF PgShapes, Losses
    <2>3. CASE Losses' = Losses + 1
      <3>1. \A n \in 1..made : when[n] < Losses'
        BY <2>1, <2>2, <2>3 DEF OneEach
      <3>2. \A n \in 1..made : when[n] <= Losses'
        BY <2>2, <2>3, <3>1
      <3>3. OneEach(who, when)'
        BY <3>1, <3>2, <2>1, <1>1 DEF OneEach
      <3> QED
        BY <3>3, <1>1 DEF Opened
    <2>4. CASE Losses' = Losses /\ live' = live
      <3>1. OneEach(who, when)'
        BY <2>1, <2>4, <1>1 DEF OneEach
      <3> QED
        BY <3>1, <1>1 DEF Opened
    <2> QED
      BY <2>3, <2>4, <1>1
  <1>5. FoundOut'
    BY <1>1 DEF PgInv, FoundOut, MaxConns
  <1> QED
    BY <1>1, <1>2, <1>3, <1>4, <1>5 DEF PgInv, MaxConns

LEMMA PgInvNext == PgInv /\ [PgNext]_pgVars => PgInv'
  <1> SUFFICES ASSUME PgInv, [PgNext]_pgVars PROVE PgInv'
    OBVIOUS
  <1>1. ASSUME NEW c \in Callers, Get(c) PROVE PgInv'
    BY <1>1, CheckKeeps, ReturnKeeps, ConnectKeeps DEF Get
  <1>2. ASSUME NEW c \in Callers, UseFails(c) PROVE PgInv'
    BY <1>2, UseKeeps
  <1>3. CASE (\E n \in 1..made : Drop(n)) \/ Outage \/ Restart
    BY <1>3, ServerKeeps
  <1>4. CASE UNCHANGED pgVars
    <2>1. UNCHANGED <<conn, closed, made, live, drops, outages, pc, holds, failures, overlapped>>
      BY <1>4 DEF pgVars, client, server
    <2>2. PgShapes' /\ (overlapped \/ InTurn')
      BY <2>1 DEF PgInv, PgShapes, InTurn
    <2>3. Opened'
      <3>1. PICK who \in [1..made -> Callers], when \in [1..made -> Nat] : OneEach(who, when)
        BY DEF PgInv, Opened
      <3>2. OneEach(who, when)'
        BY <3>1, <2>1 DEF OneEach, Losses
      <3> QED
        BY <3>2, <2>1 DEF Opened
    <2>4. FoundOut'
      BY <2>1 DEF PgInv, FoundOut, MaxConns
    <2> QED
      BY <2>1, <2>2, <2>3, <2>4 DEF PgInv, MaxConns
  <1> QED
    BY <1>1, <1>2, <1>3, <1>4, Zenon DEF PgNext

LEMMA AlwaysPgInv == PgSpec => []PgInv
  BY PgInvInit, PgInvNext, PTL DEF PgSpec

\* Callers that take turns never leave a session behind them on the server: a
\* get opens a connection only after the cached one was closed, and one caller
\* opens one connection between two losses.
THEOREM OneSessionAtATime == PgSpec => []OneSession
  BY AlwaysPgInv, PgInvImplies, PTL

\* However many callers there are and however their gets overlap, a loss costs
\* each of them one failed operation: a caller that found a connection out is
\* never given it again.
THEOREM LossesAreFoundOnce == PgSpec => []LossFoundOnce
  BY AlwaysPgInv, PgInvImplies, PTL
=============================================================================
