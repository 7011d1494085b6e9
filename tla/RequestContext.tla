----------------------------- MODULE RequestContext -----------------------------
(***************************************************************************)
(* What a $exception event says of the request it belongs to: its id, its  *)
(* breadcrumbs and its tags.  RequestIdMiddleware opens all three for a    *)
(* request, in context variables, and puts back what was there when it     *)
(* leaves; a task the request starts copies the context and may outlive    *)
(* the request.                                                            *)
(*                                                                         *)
(* A server context serves one request after the other, as a transport     *)
(* that calls the application in its caller's context does.  Inside a      *)
(* request the middleware may be entered again for the same scope, when    *)
(* init_error_tracking was given the app twice.                            *)
(*                                                                         *)
(* A crumb and a tag carry the request whose work made them, which only    *)
(* the properties read.                                                    *)
(***************************************************************************)
EXTENDS Integers, Sequences, SequencesExt

CONSTANTS
    Servers,        \* contexts that serve requests
    Children,       \* tasks that requests start
    MaxCrumbs,      \* _MAX_BREADCRUMBS
    MaxRequests,    \* bound on the requests
    MaxTrails,      \* bound on the passes through the middleware
    MaxAdded,       \* bound on the breadcrumbs added to a trail
    MaxDepth        \* how often the application holds the middleware

ASSUME ContextAssumption ==
    /\ Servers \cap Children = {}
    /\ MaxCrumbs \in Nat \ {0}
    /\ MaxRequests \in Nat
    /\ MaxTrails \in Nat

VARIABLES
    context,    \* each context's request_id_var and _breadcrumbs_var/_error_tags_var
    passes,     \* each server's stack of middleware calls: scope and reset tokens
    crumbs,     \* the trails
    tags,       \* the tag dicts, opened with the trails: who set the one key
    crash,      \* each server's exception past the middleware, not reported, or None
    events,     \* the last $exception event sent, or NoEvent
    requests,   \* how many requests there were
    trails,     \* how many trails were opened
    starter,    \* history: the request each child works for
    added       \* history: how many crumbs were added to each trail

contextVars == <<context, passes, crumbs, tags, crash, events, requests, trails, starter, added>>

None == 0
NoEvent == [id |-> None, crumbs |-> {}, tag |-> None, of |-> None]
Outside == [id |-> None, trail |-> None]
Tasks == Servers \cup Children

ContextInit ==
    /\ context = [t \in Tasks |-> Outside]
    /\ passes = [s \in Servers |-> <<>>]
    /\ crumbs = [n \in 1..MaxTrails |-> <<>>]
    /\ tags = [n \in 1..MaxTrails |-> None]
    /\ crash = [s \in Servers |-> None]
    /\ events = NoEvent
    /\ requests = 0
    /\ trails = 0
    /\ starter = [c \in Children |-> None]
    /\ added = [n \in 1..MaxTrails |-> 0]

Serving(s) == IF passes[s] = <<>> THEN None ELSE Last(passes[s]).scope

\* The request for which a task does what it does.
WorksFor(t) == IF t \in Servers THEN Serving(t) ELSE starter[t]

\* A child runs once it was started; a server that has an exception on its way
\* out does nothing else.
Runs(t) == IF t \in Servers THEN crash[t] = None ELSE starter[t] # None

-----------------------------------------------------------------------------
(* RequestIdMiddleware.__call__                                            *)

\* The context variables are set to an id, a new trail and new tags.
Pass(s, scope) ==
    /\ Runs(s)
    /\ Len(passes[s]) < MaxDepth
    /\ trails < MaxTrails
    /\ trails' = trails + 1
    /\ passes' = [passes EXCEPT ![s] = Append(@, [scope |-> scope, token |-> context[s]])]
    /\ context' = [context EXCEPT ![s] = [id |-> scope, trail |-> trails + 1]]
    /\ UNCHANGED <<crumbs, tags, crash, events, starter, added>>

\* A request comes in.  (Its id is its own: one a client sends twice is not
\* told apart by anything here.)
Arrive(s) ==
    /\ requests < MaxRequests
    /\ passes[s] = <<>>
    /\ requests' = requests + 1
    /\ Pass(s, requests + 1)

\* The same request meets the middleware once more: the id is in the scope.
PassAgain(s) ==
    /\ passes[s] # <<>>
    /\ UNCHANGED requests
    /\ Pass(s, Serving(s))

\* The tokens' reset.  (Mutant: none; the next request sets its own anyway.)
NoReset(s) == context[s]
Reset(s) == Last(passes[s]).token

Rest(s) == Front(passes[s])

\* The event _event_properties and the tags make of a context.
EventOf(t, id, of) ==
    LET trail == context[t].trail
    IN  [id |-> id, of |-> of,
         crumbs |-> IF trail = None THEN {} ELSE {crumbs[trail][i].by : i \in DOMAIN crumbs[trail]},
         tag |-> IF trail = None THEN None ELSE tags[trail]]

Leave(s) ==
    /\ passes[s] # <<>>
    /\ Runs(s)
    /\ passes' = [passes EXCEPT ![s] = Rest(s)]
    /\ context' = [context EXCEPT ![s] = Reset(s)]
    /\ UNCHANGED <<crumbs, tags, requests, trails, starter, added>>

\* The application answers.
LeaveWithAnswer(s) ==
    /\ Leave(s)
    /\ UNCHANGED <<crash, events>>

\* The application raises, and the middleware reports from inside the context.
\* The client's gate decides; an exception it turns away goes on unmarked to
\* the Exception handler, outside every pass of this scope.
LeaveWithError(s) ==
    /\ Leave(s)
    /\ \/ /\ events' = EventOf(s, context[s].id, Serving(s))
          /\ UNCHANGED crash
       \/ /\ crash' = [crash EXCEPT ![s] = IF Rest(s) = <<>> THEN Serving(s) ELSE None]
          /\ UNCHANGED events

\* _unhandled_exception_handler: the id of the scope goes in with the call's
\* properties, and that of the context, if there is one, over it.
\* (Mutant: no id goes in with the call.)
NoHandlerId(s) == context[s].id
HandlerId(s) == IF context[s].id # None THEN context[s].id ELSE crash[s]

HandleError(s) ==
    /\ crash[s] # None
    /\ crash' = [crash EXCEPT ![s] = None]
    /\ events' = EventOf(s, HandlerId(s), crash[s]) \/ events' = events
    /\ UNCHANGED <<context, passes, crumbs, tags, requests, trails, starter, added>>

-----------------------------------------------------------------------------
(* What application code does, in a request or outside                     *)

\* A task is created, with a copy of its creator's context.
StartTask(c, s) ==
    /\ starter[c] = None
    /\ passes[s] # <<>> /\ Runs(s)
    /\ starter' = [starter EXCEPT ![c] = Serving(s)]
    /\ context' = [context EXCEPT ![c] = context[s]]
    /\ UNCHANGED <<passes, crumbs, tags, crash, events, requests, trails, added>>

\* Mutant: the first entries are kept.
KeptFirst(trail) == SubSeq(trail, 1, IF Len(trail) > MaxCrumbs THEN MaxCrumbs ELSE Len(trail))

\* del trail[:-_MAX_BREADCRUMBS]
Kept(trail) == SubSeq(trail, IF Len(trail) > MaxCrumbs THEN Len(trail) - MaxCrumbs + 1 ELSE 1, Len(trail))

\* Outside a request the crumb is dropped.
AddBreadcrumb(t) ==
    LET n == context[t].trail
    IN  /\ Runs(t)
        /\ n # None
        /\ added[n] < MaxAdded
        /\ added' = [added EXCEPT ![n] = @ + 1]
        /\ crumbs' = [crumbs EXCEPT ![n] = Kept(Append(@, [by |-> WorksFor(t), nth |-> added[n] + 1]))]
        /\ UNCHANGED <<context, passes, tags, crash, events, requests, trails, starter>>

\* set_error_tag with a key that is not reserved; outside a request it is dropped.
SetErrorTag(t) ==
    LET n == context[t].trail
    IN  /\ Runs(t)
        /\ n # None
        /\ tags' = [tags EXCEPT ![n] = WorksFor(t)]
        /\ UNCHANGED <<context, passes, crumbs, crash, events, requests, trails, starter, added>>

\* Code reports an error or logs one, and the gate lets it through.
Report(t) ==
    /\ Runs(t)
    /\ events' = EventOf(t, context[t].id, WorksFor(t))
    /\ UNCHANGED <<context, passes, crumbs, tags, crash, requests, trails, starter, added>>

-----------------------------------------------------------------------------
ContextNext ==
    \/ \E s \in Servers :
         \/ Arrive(s) \/ PassAgain(s)
         \/ LeaveWithAnswer(s) \/ LeaveWithError(s) \/ HandleError(s)
         \/ \E c \in Children : StartTask(c, s)
    \/ \E t \in Tasks : AddBreadcrumb(t) \/ SetErrorTag(t) \/ Report(t)

ContextSpec == ContextInit /\ [][ContextNext]_contextVars

-----------------------------------------------------------------------------
(* Properties                                                              *)

\* Every variable has its type; no context names a request or a trail that was
\* never opened, and no trail is longer than it may be.
ContextTypeOK ==
    /\ requests \in 0..MaxRequests /\ trails \in 0..MaxTrails
    /\ context \in [Tasks -> [id : 0..requests, trail : 0..trails]]
    /\ \A n \in 1..MaxTrails : Len(crumbs[n]) <= MaxCrumbs
    /\ crash \in [Servers -> 0..requests]
    /\ starter \in [Children -> 0..requests]

\* An event tells of one request only, the one whose work failed: its id, no
\* crumb and no tag of another request, whoever came and went in the same
\* server and whichever task of an earlier request is still at work.
EventsAreOfTheirRequest ==
    /\ events.id = events.of
    /\ events.crumbs \subseteq {events.of}
    /\ events.tag \in {None, events.of}

\* However a request's tasks take turns, its trail is the last entries, in the
\* order they were added.
TrailIsLatest ==
    \A n \in 1..trails :
        /\ Len(crumbs[n]) = IF added[n] > MaxCrumbs THEN MaxCrumbs ELSE added[n]
        /\ \A i \in DOMAIN crumbs[n] : crumbs[n][i].nth = added[n] - Len(crumbs[n]) + i

\* A server that serves nobody is back where it started, and nobody is in a
\* context that was never opened (ContextTypeOK).
NothingLeftBehind == ContextTypeOK /\ \A s \in Servers : passes[s] = <<>> => context[s] = Outside
=============================================================================
