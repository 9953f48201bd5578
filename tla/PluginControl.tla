--------------------------- MODULE PluginControl ---------------------------
(***************************************************************************)
(* The control connection of the plugin protocol: the host's calls         *)
(* (client/mod.rs), the bounded lanes both sides write through             *)
(* (control.rs), and the plugin's request loop, request tasks and shutdown *)
(* (server/mod.rs).                                                        *)
(*                                                                         *)
(* A message counts one unit of its lane's byte budget and one slot of its *)
(* queue, so a lane is full at Lane messages.  The pipes hold nothing: a   *)
(* writer task's message is written when the other side reads it, and lost *)
(* with a side that dies.  What a provider's operation does is left out;   *)
(* only whether it ran is kept.  A call that repeats itself on Overloaded  *)
(* (cleanup_call, send_stop) is one call here.                             *)
(***************************************************************************)
EXTENDS Naturals, Sequences, FiniteSets

CONSTANTS
    NormalCalls,       \* calls of ordinary methods
    ReservedCalls,     \* calls of reserved methods that are repeated on Overloaded
    ShutdownCall,      \* the shutdown call
    ProviderRequests,  \* limits.provider_requests
    ReservedRequests,  \* limits.reserved_requests
    Lane               \* room in a lane

ASSUME LimitsAssumption ==
    /\ ProviderRequests \in Nat \ {0}
    /\ ReservedRequests \in Nat \ {0}
    /\ Lane \in Nat \ {0}

Calls == NormalCalls \cup ReservedCalls \cup {ShutdownCall}

\* methods::traits, the "reserved" column.
Reserved == ReservedCalls \cup {ShutdownCall}

NormalLane(c) == "normal"

\* A lane's priority class: a stop never waits behind ordinary traffic.
LaneOf(c) == IF c \in Reserved THEN "priority" ELSE "normal"

\* A reply: the operation's own answer, "limit" for one too large to send, or a refusal.
Bodies == {"answer", "overloaded", "limit"}

\* What a call returns with: a reply, or the transport's error.  A dropped call has none.
Outcomes == {"answered", "overloaded", "failed"}

OutcomeOf(body) == IF body = "overloaded" THEN body ELSE "answered"

VARIABLES
    callPhase,   \* "calling", "inserted", "checked", "waiting" or "returned"
    callOutcome, \* what it returned
    slot,        \* its oneshot channel: "empty" or what was sent
    pendingCalls,\* Client.pending
    hostLanes,   \* the host's ControlReceiver: two queues of calls
    marking,     \* mark_closed: "open", "swapped" or "drained"
    hostReads, hostWrites,  \* the client's reader and writer tasks run
    server,      \* "running", "closing", "joined", "ended" or "dead"
    task,        \* each request's task: "none", "dispatch" or "reply"
    taskBody,    \* the reply it delivers
    loopReply,   \* what the request loop is delivering itself, or NoReply
    pluginLanes, \* the plugin's ControlReceiver: two queues of replies
    deliveryFailed,
    ran          \* how often the provider's operation ran for a call

hostControl == <<callPhase, callOutcome, slot, pendingCalls, hostLanes, marking, hostReads,
                 hostWrites>>
pluginControl == <<server, task, taskBody, loopReply, pluginLanes, deliveryFailed, ran>>
controlVars == <<hostControl, pluginControl>>

NoReply == [call |-> ShutdownCall, body |-> "none"]
Replies == [call : Calls, body : Bodies]
Short(S) == UNION {[1..n -> S] : n \in 0..Lane}

ControlTypeOK ==
    /\ callPhase \in [Calls -> {"calling", "inserted", "checked", "waiting", "returned"}]
    /\ callOutcome \in [Calls -> Outcomes \cup {"none"}]
    /\ slot \in [Calls -> Outcomes \cup {"empty"}]
    /\ pendingCalls \subseteq Calls
    /\ \A l \in {"priority", "normal"} :
         hostLanes[l] \in Short(Calls) /\ pluginLanes[l] \in Short(Replies)
    /\ marking \in {"open", "swapped", "drained"}
    /\ hostReads \in BOOLEAN /\ hostWrites \in BOOLEAN
    /\ server \in {"running", "closing", "joined", "ended", "dead"}
    /\ task \in [Calls -> {"none", "dispatch", "reply"}]
    /\ taskBody \in [Calls -> Bodies \cup {"none"}]
    /\ loopReply \in Replies \cup {NoReply}
    /\ deliveryFailed \in BOOLEAN
    /\ ran \in [Calls -> 0..2]

NoLanes == [l \in {"priority", "normal"} |-> <<>>]

ControlInit ==
    /\ callPhase = [c \in Calls |-> "calling"]
    /\ callOutcome = [c \in Calls |-> "none"]
    /\ slot = [c \in Calls |-> "empty"]
    /\ pendingCalls = {}
    /\ hostLanes = NoLanes /\ pluginLanes = NoLanes
    /\ marking = "open" /\ hostReads = TRUE /\ hostWrites = TRUE
    /\ server = "running"
    /\ task = [c \in Calls |-> "none"]
    /\ taskBody = [c \in Calls |-> "none"]
    /\ loopReply = NoReply
    /\ deliveryFailed = FALSE
    /\ ran = [c \in Calls |-> 0]

Room(lanes, l) == Len(lanes[l]) < Lane
Queue(lanes, l, x) == [lanes EXCEPT ![l] = Append(@, x)]

\* ControlReceiver::recv takes the priority queue first.
NextLane(lanes) == IF lanes["priority"] # <<>> THEN "priority" ELSE "normal"

-----------------------------------------------------------------------------
(* The host's calls.                                                       *)

\* The call returns; its PendingCall guard forgets it and its permit is released.
CallReturns(c, o) ==
    /\ callPhase' = [callPhase EXCEPT ![c] = "returned"]
    /\ callOutcome' = [callOutcome EXCEPT ![c] = o]
    /\ pendingCalls' = pendingCalls \ {c}
    /\ slot' = [slot EXCEPT ![c] = "empty"]

\* cleanup_call and send_stop call again after Overloaded; any other caller gets it.
CallOverloaded(c) ==
    IF c \in ReservedCalls
    THEN /\ callPhase' = [callPhase EXCEPT ![c] = "calling"]
         /\ pendingCalls' = pendingCalls \ {c}
         /\ slot' = [slot EXCEPT ![c] = "empty"]
         /\ UNCHANGED callOutcome
    ELSE CallReturns(c, "overloaded")

\* Holders of a request permit on the host's side.
Admitted == {c \in Calls : callPhase[c] \in {"inserted", "checked", "waiting"}}

Permits(c) == IF c \in Reserved THEN ReservedRequests ELSE ProviderRequests

\* Takes the permit and registers the oneshot before it looks at "closed".
CallInserts(c) ==
    /\ callPhase[c] = "calling"
    /\ IF Cardinality({d \in Admitted : LaneOf(d) = LaneOf(c)}) < Permits(c)
       THEN /\ pendingCalls' = pendingCalls \cup {c}
            /\ callPhase' = [callPhase EXCEPT ![c] = "inserted"]
            /\ UNCHANGED <<callOutcome, slot>>
       ELSE CallOverloaded(c)
    /\ UNCHANGED <<hostLanes, marking, hostReads, hostWrites, pluginControl>>

\* Registering after the check loses a call to a drain in between.
CallChecksFirst(c) ==
    /\ callPhase[c] = "inserted"
    /\ IF marking # "open"
       THEN CallReturns(c, "failed")
       ELSE /\ callPhase' = [callPhase EXCEPT ![c] = "checked"]
            /\ pendingCalls' = pendingCalls \ {c}
            /\ UNCHANGED <<callOutcome, slot>>
    /\ UNCHANGED <<hostLanes, marking, hostReads, hostWrites, pluginControl>>

CallChecksClosed(c) ==
    /\ callPhase[c] = "inserted"
    /\ IF marking # "open"
       THEN CallReturns(c, "failed")
       ELSE /\ callPhase' = [callPhase EXCEPT ![c] = "checked"]
            /\ UNCHANGED <<callOutcome, slot, pendingCalls>>
    /\ UNCHANGED <<hostLanes, marking, hostReads, hostWrites, pluginControl>>

\* ControlSender::send: never waits.
CallSends(c) ==
    /\ callPhase[c] = "checked"
    /\ CASE ~hostWrites -> CallReturns(c, "failed") /\ UNCHANGED hostLanes
         [] hostWrites /\ ~Room(hostLanes, LaneOf(c)) -> CallOverloaded(c) /\ UNCHANGED hostLanes
         [] OTHER -> /\ hostLanes' = Queue(hostLanes, LaneOf(c), c)
                     /\ callPhase' = [callPhase EXCEPT ![c] = "waiting"]
                     /\ UNCHANGED <<callOutcome, slot, pendingCalls>>
    /\ UNCHANGED <<marking, hostReads, hostWrites, pluginControl>>

CallReceives(c) ==
    /\ callPhase[c] = "waiting"
    /\ slot[c] # "empty"
    /\ IF slot[c] = "overloaded" THEN CallOverloaded(c) ELSE CallReturns(c, slot[c])
    /\ UNCHANGED <<hostLanes, marking, hostReads, hostWrites, pluginControl>>

\* The caller's future is dropped while it waits.
CallDropped(c) ==
    /\ callPhase[c] = "waiting"
    /\ CallReturns(c, "none")
    /\ UNCHANGED <<hostLanes, marking, hostReads, hostWrites, pluginControl>>

PluginUp == server \notin {"ended", "dead"}

\* The first half of mark_closed: "closed" is set before anything is drained.
MarkSwaps == marking' = (IF marking = "open" THEN "swapped" ELSE marking)

\* A write fails or times out: the plugin is gone, has left its loop, or is held up in it.
HostWriterFails ==
    /\ hostWrites
    /\ hostLanes[NextLane(hostLanes)] # <<>>
    /\ server # "running" \/ loopReply # NoReply
    /\ hostWrites' = FALSE
    /\ MarkSwaps
    /\ UNCHANGED <<callPhase, callOutcome, slot, pendingCalls, hostLanes, hostReads,
                   pluginControl>>

\* The plugin's writer task sends a reply and Client::route hands it over; a call nobody
\* waits for any more is ignored.
ReplyRouted ==
    /\ hostReads /\ server \in {"running", "closing", "joined"}
    /\ LET l == NextLane(pluginLanes)
           r == Head(pluginLanes[l])
       IN /\ pluginLanes[l] # <<>>
          /\ pluginLanes' = [pluginLanes EXCEPT ![l] = Tail(@)]
          /\ pendingCalls' = pendingCalls \ {r.call}
          /\ slot' = IF r.call \in pendingCalls THEN [slot EXCEPT ![r.call] = OutcomeOf(r.body)] ELSE slot
    /\ UNCHANGED <<callPhase, callOutcome, hostLanes, marking, hostReads, hostWrites,
                   server, task, taskBody, loopReply, deliveryFailed, ran>>

HostReaderEnds ==
    /\ hostReads /\ ~PluginUp
    /\ hostReads' = FALSE
    /\ MarkSwaps
    /\ UNCHANGED <<callPhase, callOutcome, slot, pendingCalls, hostLanes, hostWrites,
                   pluginControl>>

\* The second half of mark_closed: every registered call gets the transport's error.
MarkDrains ==
    /\ marking = "swapped"
    /\ marking' = "drained"
    /\ slot' = [c \in Calls |-> IF c \in pendingCalls THEN "failed" ELSE slot[c]]
    /\ pendingCalls' = {}
    /\ UNCHANGED <<callPhase, callOutcome, hostLanes, hostReads, hostWrites,
                   pluginControl>>

-----------------------------------------------------------------------------
(* The plugin.                                                             *)

\* Holders of a request permit on the plugin's side.
InService(lane) == {c \in Calls : task[c] \in {"dispatch", "reply"} /\ LaneOf(c) = lane}

\* serve reads a request, admits it and gives it a task; a refusal it delivers itself.
ServerReads ==
    /\ server = "running" /\ loopReply = NoReply /\ ~deliveryFailed
    /\ hostWrites /\ hostLanes[NextLane(hostLanes)] # <<>>
    /\ hostLanes' = [hostLanes EXCEPT ![NextLane(hostLanes)] = Tail(@)]
    /\ LET c == Head(hostLanes[NextLane(hostLanes)]) IN
         CASE c = ShutdownCall -> /\ loopReply' = [call |-> c, body |-> "answer"]
                                  /\ UNCHANGED <<task, taskBody>>
           [] c # ShutdownCall /\ Cardinality(InService(LaneOf(c))) < Permits(c) ->
                  /\ task' = [task EXCEPT ![c] = "dispatch"]
                  /\ taskBody' = [taskBody EXCEPT ![c] = "none"]
                  /\ UNCHANGED loopReply
           [] OTHER -> /\ loopReply' = [call |-> c, body |-> "overloaded"]
                       /\ UNCHANGED <<task, taskBody>>
    /\ UNCHANGED <<callPhase, callOutcome, slot, pendingCalls, marking, hostReads, hostWrites,
                   server, pluginLanes, deliveryFailed, ran>>

\* After the shutdown reply the loop leaves without reading stdin again.
LoopDone(failed) ==
    /\ loopReply' = NoReply
    /\ server' = (IF loopReply.call = ShutdownCall THEN "closing" ELSE server)
    /\ deliveryFailed' = (deliveryFailed \/ (failed /\ loopReply.call # ShutdownCall))

LoopDelivers ==
    /\ server = "running" /\ loopReply # NoReply
    /\ Room(pluginLanes, "priority")
    /\ pluginLanes' = Queue(pluginLanes, "priority", loopReply)
    /\ LoopDone(FALSE)
    /\ UNCHANGED <<hostControl, task, taskBody, ran>>

LoopDeliveryTimesOut ==
    /\ server = "running" /\ loopReply # NoReply
    /\ ~Room(pluginLanes, "priority")
    /\ LoopDone(TRUE)
    /\ UNCHANGED <<hostControl, task, taskBody, pluginLanes, ran>>

Alive == server \in {"running", "closing"}

\* The provider's operation runs; its reply may be more than a control message holds.
Dispatched(c) ==
    /\ Alive /\ task[c] = "dispatch"
    /\ ran' = [ran EXCEPT ![c] = @ + 1]
    /\ task' = [task EXCEPT ![c] = "reply"]
    /\ \E b \in {"answer", "limit"} : taskBody' = [taskBody EXCEPT ![c] = b]
    /\ UNCHANGED <<hostControl, server, loopReply, pluginLanes, deliveryFailed>>

OpenRefusedAfterwards(c) ==
    /\ Alive /\ task[c] = "dispatch" /\ c \in NormalCalls
    /\ task' = [task EXCEPT ![c] = "reply"]
    /\ taskBody' = [taskBody EXCEPT ![c] = "overloaded"]
    /\ ran' = [ran EXCEPT ![c] = @ + 1]
    /\ UNCHANGED <<hostControl, server, loopReply, pluginLanes, deliveryFailed>>

\* open_channel finds no room among the pending opens, before the operation starts.
OpenRefused(c) ==
    /\ Alive /\ task[c] = "dispatch" /\ c \in NormalCalls
    /\ task' = [task EXCEPT ![c] = "reply"]
    /\ taskBody' = [taskBody EXCEPT ![c] = "overloaded"]
    /\ UNCHANGED <<hostControl, server, loopReply, pluginLanes, deliveryFailed,
                   ran>>

TaskOver(c) ==
    /\ task' = [task EXCEPT ![c] = "none"]
    /\ taskBody' = [taskBody EXCEPT ![c] = "none"]

TasksGone ==
    /\ task' = [c \in Calls |-> "none"]
    /\ taskBody' = [c \in Calls |-> "none"]

\* A reply too large for a message is replaced by a small error on the priority lane.
ReplyLane(c) == IF taskBody[c] = "limit" THEN "priority" ELSE LaneOf(c)

\* ControlSender::deliver waits for the lane; the permit is kept until the reply is queued.
ReplyDelivered(c) ==
    /\ Alive /\ task[c] = "reply"
    /\ Room(pluginLanes, ReplyLane(c))
    /\ pluginLanes' = Queue(pluginLanes, ReplyLane(c), [call |-> c, body |-> taskBody[c]])
    /\ TaskOver(c)
    /\ UNCHANGED <<hostControl, server, loopReply, deliveryFailed, ran>>

ReplyTimesOut(c) ==
    /\ Alive /\ task[c] = "reply"
    /\ ~Room(pluginLanes, ReplyLane(c))
    /\ TaskOver(c)
    /\ deliveryFailed' = TRUE
    /\ UNCHANGED <<hostControl, server, loopReply, pluginLanes, ran>>

\* The loop leaves on a failed delivery: the host cannot know what the plugin did.
ServerLoopLeaves ==
    /\ server = "running" /\ deliveryFailed /\ loopReply = NoReply
    /\ server' = "closing"
    /\ UNCHANGED <<hostControl, task, taskBody, loopReply, pluginLanes,
                   deliveryFailed, ran>>

\* shutdown joins the requests that are left, or aborts them at the deadline.
ServerJoins ==
    /\ server = "closing"
    /\ server' = "joined"
    /\ TasksGone
    /\ UNCHANGED <<hostControl, loopReply, pluginLanes, deliveryFailed, ran>>

\* The writer drains what is queued, then closes; or it is stopped at the deadline.
ServerEnds ==
    /\ server = "joined"
    /\ pluginLanes = NoLanes \/ ~hostReads
    /\ server' = "ended"
    /\ UNCHANGED <<hostControl, task, taskBody, loopReply, pluginLanes,
                   deliveryFailed, ran>>

\* The plugin's process dies.
PluginCrashes ==
    /\ server \notin {"ended", "dead"}
    /\ server' = "dead"
    /\ TasksGone
    /\ loopReply' = NoReply
    /\ pluginLanes' = NoLanes
    /\ UNCHANGED <<hostControl, deliveryFailed, ran>>

-----------------------------------------------------------------------------
CallSteps(c) == CallInserts(c) \/ CallChecksClosed(c) \/ CallSends(c) \/ CallReceives(c)

HostTasks == HostWriterFails \/ ReplyRouted \/ HostReaderEnds

ServerLoop == ServerReads \/ LoopDelivers \/ LoopDeliveryTimesOut \/ ServerLoopLeaves

ServerCloses == ServerJoins \/ ServerEnds

TaskReplies(c) == ReplyDelivered(c) \/ ReplyTimesOut(c)

ControlNext ==
    \/ \E c \in Calls : CallSteps(c) \/ CallDropped(c) \/ Dispatched(c)
                          \/ OpenRefused(c) \/ TaskReplies(c)
    \/ HostTasks \/ MarkDrains
    \/ ServerLoop \/ ServerCloses \/ PluginCrashes

-----------------------------------------------------------------------------
\* An operation is answered Overloaded only if it never ran, so the callers that repeat a
\* call on Overloaded (cleanup_call, send_stop) never repeat an effect.
OverloadedNeverRan ==
    \A c \in Calls :
      /\ ran[c] <= 1
      /\ slot[c] = "overloaded" \/ callOutcome[c] = "overloaded" => ran[c] = 0
=============================================================================
