---------------------------- MODULE PluginEvents ----------------------------
(***************************************************************************)
(* Events from a plugin to the observers of the host.  An operation that   *)
(* has an observer registers a route (client/mod.rs register_events); the  *)
(* provider's events travel on the ordinary control lane under that route  *)
(* (server/mod.rs ProtocolEventObserver); the client's reader finds the    *)
(* observer by route or else by sandbox (route) and queues the event for   *)
(* the task that runs observers.  Every store on the way is bounded; what  *)
(* overflows is meant to be told, as event_delivery_error.                 *)
(*                                                                         *)
(* All operations concern one sandbox, whose handle's observer is the      *)
(* fallback.  An event is its operation and its position.                  *)
(***************************************************************************)
EXTENDS Naturals, Sequences, FiniteSets

CONSTANTS
    EventOps,       \* operations that have an observer
    MaxEvents,      \* bound on the events one operation emits
    CachedHandles,  \* limits.cached_handles
    EventLane       \* room for events in the control lane and in the client's event queue

ASSUME EventsAssumption ==
    /\ CachedHandles \in Nat \ {0} /\ EventLane \in Nat \ {0}
    /\ MaxEvents \in Nat

VARIABLES
    eventOp,        \* each operation: "idle", "running" or "over"
    routes,         \* Client.event_routes
    fallback,       \* Client.event_contexts for the sandbox
    emitted,        \* how many events each operation emitted
    eventLane,      \* HOST_EVENT notifications in the plugin's ordinary lane
    notices,        \* "host/event_failed" notifications in its priority lane
    eventsFailed,   \* ServerState.events_failed
    undeliverable,  \* ServerState.delivery_failed was cancelled
    eventQueue,     \* Client.events
    forwarding,     \* the event the event task is giving to its observer
    eventTask,      \* it runs
    eventFailure,   \* Client.event_failure is set
    linkClosed,     \* Client.closed
    observed        \* events an observer received

eventVars == <<eventOp, routes, fallback, emitted, eventLane, notices, eventsFailed,
               undeliverable, eventQueue, forwarding, eventTask, eventFailure, linkClosed,
               observed>>

PluginEvent == EventOps \X (1..MaxEvents)
Queued == UNION {[1..n -> PluginEvent] : n \in 0..EventLane}
InQueue(q) == {q[i] : i \in 1..Len(q)}

EventsTypeOK ==
    /\ eventOp \in [EventOps -> {"idle", "running", "over"}]
    /\ routes \subseteq EventOps
    /\ fallback \in BOOLEAN
    /\ emitted \in [EventOps -> 0..MaxEvents]
    /\ eventLane \in Queued /\ eventQueue \in Queued
    /\ notices \in 0..1
    /\ forwarding \subseteq PluginEvent /\ Cardinality(forwarding) <= 1
    /\ {eventsFailed, undeliverable, eventTask, eventFailure, linkClosed} \subseteq BOOLEAN
    /\ observed \subseteq PluginEvent

EventsInit ==
    /\ eventOp = [o \in EventOps |-> "idle"] /\ emitted = [o \in EventOps |-> 0]
    /\ routes = {} /\ fallback = FALSE
    /\ eventLane = <<>> /\ eventQueue = <<>> /\ notices = 0
    /\ eventsFailed = FALSE /\ undeliverable = FALSE
    /\ forwarding = {} /\ eventTask = TRUE /\ eventFailure = FALSE
    /\ linkClosed = FALSE /\ observed = {}

hostEventVars == <<routes, fallback, eventQueue, forwarding, eventTask, eventFailure, linkClosed,
                   observed>>
pluginEventVars == <<eventLane, notices, eventsFailed, undeliverable>>

-----------------------------------------------------------------------------
\* register_events: a full cache forgets an arbitrary route first.
RegistersRoute(o) ==
    routes' \in IF Cardinality(routes) >= CachedHandles
                  THEN {(routes \ {r}) \cup {o} : r \in routes}
                  ELSE {routes \cup {o}}

\* An operation with an observer registers its route and is sent to the plugin.
OperationStarts(o) ==
    /\ eventOp[o] = "idle" /\ ~linkClosed
    /\ eventOp' = [eventOp EXCEPT ![o] = "running"]
    /\ RegistersRoute(o)
    /\ UNCHANGED <<emitted, pluginEventVars, fallback, eventQueue, forwarding, eventTask,
                   eventFailure, linkClosed, observed>>

\* The reply may overtake the operation's events.  A handle that comes with it is
\* remembered with its observer (wrap_handle, remember_event_context).
OperationReplies(o) ==
    /\ eventOp[o] = "running"
    /\ eventOp' = [eventOp EXCEPT ![o] = "over"]
    /\ fallback' \in {fallback, ~linkClosed}
    /\ UNCHANGED <<emitted, pluginEventVars, routes, eventQueue, forwarding, eventTask,
                   eventFailure, linkClosed, observed>>

\* The full handle cache forgets this sandbox's observer for another's.
FallbackEvicted ==
    /\ fallback /\ fallback' = FALSE
    /\ UNCHANGED <<eventOp, emitted, pluginEventVars, routes, eventQueue, forwarding, eventTask,
                   eventFailure, linkClosed, observed>>

-----------------------------------------------------------------------------
\* The full lane only swallows the event.
OverflowsQuietly ==
    /\ eventsFailed' = TRUE
    /\ UNCHANGED <<eventLane, notices, undeliverable>>

\* What ProtocolEventObserver does when the lane is full: the first overflow sends a notice
\* on the priority lane, and when other answers fill that one too the connection is ended.
Overflows ==
    /\ eventsFailed' = TRUE
    /\ \/ notices' = notices + 1 /\ UNCHANGED undeliverable
       \/ undeliverable' = TRUE /\ UNCHANGED notices
    /\ UNCHANGED eventLane

\* ProtocolEventObserver::observe, called by the provider while its operation runs.
observe(o) ==
    /\ eventOp[o] = "running" /\ emitted[o] < MaxEvents
    /\ emitted' = [emitted EXCEPT ![o] = @ + 1]
    /\ IF eventsFailed THEN UNCHANGED pluginEventVars
       ELSE IF Len(eventLane) < EventLane
         THEN /\ eventLane' = Append(eventLane, <<o, emitted[o] + 1>>)
              /\ UNCHANGED <<notices, eventsFailed, undeliverable>>
         ELSE Overflows
    /\ UNCHANGED <<eventOp, hostEventVars>>

-----------------------------------------------------------------------------
\* The client's reader takes a notice: the subscription is incomplete.
NoticeRouted ==
    /\ notices > 0 /\ notices' = notices - 1
    /\ eventFailure' = TRUE
    /\ UNCHANGED <<eventOp, emitted, eventLane, eventsFailed, undeliverable, routes, fallback,
                   eventQueue, forwarding, eventTask, linkClosed, observed>>

\* Client::route's lookup: by route id, or by the sandbox the event is about.
HasContext(e) == e[1] \in routes \/ fallback

RouteQuietly(e) ==
    IF HasContext(e) /\ ~eventFailure /\ eventTask /\ Len(eventQueue) < EventLane
      THEN eventQueue' = Append(eventQueue, e) /\ UNCHANGED eventFailure
      ELSE UNCHANGED <<eventQueue, eventFailure>>

\* The event is queued for its observer; an expired route, a full queue or an ended event
\* task fails the subscription, after which events are discarded.
RouteEvent(e) ==
    IF HasContext(e) /\ ~eventFailure /\ eventTask /\ Len(eventQueue) < EventLane
      THEN eventQueue' = Append(eventQueue, e) /\ UNCHANGED eventFailure
      ELSE eventFailure' = TRUE /\ UNCHANGED eventQueue

\* The client's reader takes an event.
EventRouted ==
    /\ eventLane # <<>>
    /\ eventLane' = Tail(eventLane)
    /\ RouteEvent(Head(eventLane))
    /\ UNCHANGED <<eventOp, emitted, notices, eventsFailed, undeliverable, routes, fallback,
                   forwarding, eventTask, linkClosed, observed>>

\* mark_closed: the plugin ended the connection, or it broke.
LinkEnds ==
    /\ ~linkClosed
    /\ linkClosed' = TRUE /\ routes' = {} /\ fallback' = FALSE
    /\ UNCHANGED <<eventOp, emitted, pluginEventVars, eventQueue, forwarding, eventTask,
                   eventFailure, observed>>

-----------------------------------------------------------------------------
\* The event task takes the next event, or ends once the subscription has failed.
EventTaskTakes ==
    /\ eventTask /\ forwarding = {} /\ eventQueue # <<>>
    /\ eventQueue' = Tail(eventQueue)
    /\ IF eventFailure
         THEN eventTask' = FALSE /\ UNCHANGED forwarding
         ELSE forwarding' = {Head(eventQueue)} /\ UNCHANGED eventTask
    /\ UNCHANGED <<eventOp, emitted, pluginEventVars, routes, fallback, eventFailure, linkClosed,
                   observed>>

\* The observer returns in time.
EventForwarded ==
    /\ forwarding # {}
    /\ observed' = observed \cup forwarding /\ forwarding' = {}
    /\ UNCHANGED <<eventOp, emitted, pluginEventVars, routes, fallback, eventQueue, eventTask,
                   eventFailure, linkClosed>>

\* The observer does not: the subscription fails and the task ends.
EventTimesOut ==
    /\ forwarding # {} /\ forwarding' = {}
    /\ eventFailure' = TRUE /\ eventTask' = FALSE
    /\ UNCHANGED <<eventOp, emitted, pluginEventVars, routes, fallback, eventQueue, linkClosed,
                   observed>>

-----------------------------------------------------------------------------
EventsNext ==
    \/ \E o \in EventOps : OperationStarts(o) \/ OperationReplies(o) \/ observe(o)
    \/ FallbackEvicted \/ NoticeRouted \/ EventRouted \/ LinkEnds
    \/ EventTaskTakes \/ EventForwarded \/ EventTimesOut

-----------------------------------------------------------------------------
AllEmitted == {e \in PluginEvent : e[2] <= emitted[e[1]]}
UnderWay == InQueue(eventLane) \cup InQueue(eventQueue) \cup forwarding

\* No event disappears silently: an event a provider emitted has been given to an observer,
\* is still on its way, or its loss is told (event_delivery_error is set, a notice that sets
\* it is on its way, or the whole connection is at an end).
EventsAreToldOrDelivered ==
    \/ AllEmitted \subseteq observed \cup UnderWay
    \/ eventFailure \/ notices > 0 \/ undeliverable \/ linkClosed
=============================================================================
