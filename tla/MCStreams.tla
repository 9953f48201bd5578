------------------------------ MODULE MCStreams ------------------------------
(***************************************************************************)
(* What travels between a caller and its sandbox's commands and provider,  *)
(* one component at a time: `part` says which one a behaviour is about.    *)
(*   race       the stop race of an exec (DrainStops)                      *)
(*   control    control requests to a plugin (PluginControl)               *)
(*   files      file transfers through a plugin (PluginFiles)              *)
(*   events     the events of a plugin's operations (PluginEvents)         *)
(*   handles    the sandbox handles of a plugin's server (PluginHandles)   *)
(* They share no state; the composition shares their checks.               *)
(***************************************************************************)
EXTENDS DrainStops, PluginControl, PluginFiles, PluginEvents, PluginHandles

VARIABLE part

mcVars == <<part, vars, controlVars, fileVars, eventVars, handleCacheVars>>

\* The value of the variables of a component that is not the part.
Off == "off"

ControlOff ==
    /\ callPhase = Off /\ callOutcome = Off /\ slot = Off /\ pendingCalls = Off
    /\ hostLanes = Off /\ marking = Off /\ hostReads = Off /\ hostWrites = Off
    /\ server = Off /\ task = Off /\ taskBody = Off /\ loopReply = Off
    /\ pluginLanes = Off /\ deliveryFailed = Off /\ ran = Off

FilesOff ==
    /\ xKind = Off /\ xSize = Off /\ xDeclared = Off /\ xCall = Off /\ xReply = Off
    /\ xLink = Off /\ xPump = Off /\ xServe = Off /\ xFrames = Off /\ xSent = Off
    /\ xGot = Off /\ xStored = Off /\ xResult = Off

EventsOff ==
    /\ eventOp = Off /\ routes = Off /\ fallback = Off /\ emitted = Off
    /\ eventLane = Off /\ notices = Off /\ eventsFailed = Off /\ undeliverable = Off
    /\ eventQueue = Off /\ forwarding = Off /\ eventTask = Off /\ eventFailure = Off
    /\ linkClosed = Off /\ observed = Off

HandlesOff ==
    /\ boxState = Off /\ offers = Off /\ cachedBoxes = Off /\ hostHandles = Off
    /\ shown = Off /\ boxCall = Off /\ boxAt = Off /\ boxAnswer = Off /\ wasUp = Off
    /\ wasGone = Off

MCInit ==
    /\ part \in {"race", "control", "files", "events", "handles"}
    /\ Init /\ (part # "race" => ~spec.timeout /\ ~spec.grace)
    /\ IF part = "control" THEN ControlInit ELSE ControlOff
    /\ IF part = "files" THEN FilesInit ELSE FilesOff
    /\ IF part = "events" THEN EventsInit ELSE EventsOff
    /\ IF part = "handles" THEN HandlesInit ELSE HandlesOff

OfRace(A) ==
    part = "race" /\ A /\ UNCHANGED <<part, controlVars, fileVars, eventVars, handleCacheVars>>
OfPlugin(p, A, rest) == part = p /\ A /\ UNCHANGED <<part, vars, rest>>
OfControl(A) == OfPlugin("control", A, <<fileVars, eventVars, handleCacheVars>>)

MCNext ==
    \/ OfRace(Next)
    \/ OfControl(ControlNext)
    \/ OfPlugin("files", FilesNext, <<controlVars, eventVars, handleCacheVars>>)
    \/ OfPlugin("events", EventsNext, <<controlVars, fileVars, handleCacheVars>>)
    \/ OfPlugin("handles", HandlesNext, <<controlVars, fileVars, eventVars>>)

\* The race as in DrainStops.  For control requests: host calls and tasks are polled, a reply
\* a task has is delivered or times out, a reserved request is dispatched, and the plugin's
\* loop runs as long as the plugin does.  A provider owes no answer to an ordinary request and
\* the caller of shutdown may never call.
MCSpec ==
    /\ MCInit
    /\ [][MCNext]_mcVars
    /\ WF_vars(OfRace(Beside(GraceElapses)))
    /\ WF_vars(OfRace(Beside(LadderStep)))
    /\ WF_vars(OfRace(DrainTimer))
    /\ WF_vars(OfRace(SinkArm \/ TermArm \/ KillArm \/ TimeoutArm \/ Leave))
    /\ WF_vars(OfRace(StopEnds))
    /\ \A c \in Calls \ {ShutdownCall} : /\ WF_controlVars(OfControl(CallSteps(c)))
                                         /\ WF_controlVars(OfControl(TaskReplies(c)))
    /\ WF_controlVars(OfControl(callPhase[ShutdownCall] # "calling" /\ CallSteps(ShutdownCall)))
    /\ \A c \in Reserved : WF_controlVars(OfControl(Dispatched(c)))
    /\ WF_controlVars(OfControl(HostTasks))
    /\ WF_controlVars(OfControl(MarkDrains))
    /\ WF_controlVars(OfControl(ServerLoop))
    /\ WF_controlVars(OfControl(ServerCloses))

-----------------------------------------------------------------------------
\* A stop is answered.  One that must end in a kill resolves the exec's call, even if the
\* command ignores TERM, its output never closes and the sink never returns.  A stop, close or
\* cancel the host sends to a plugin is answered, or fails with the connection, though ordinary
\* requests fill their permits and lanes (control.rs, reserved lane); and once the plugin is
\* gone every call in progress returns (mark_closed), whichever step of its insertion, check
\* and send it had reached.  No call asked to stop stays pending for ever.
StopsAreAnswered ==
    []<>CASE part = "race" -> ~StopIsPending
          [] part = "control" -> /\ \A c \in ReservedCalls : callPhase[c] = "returned"
                                 /\ ~PluginUp => \A c \in NormalCalls : callPhase[c] = "returned"
          [] OTHER -> TRUE

\* An answer of the plugin means what it says: an Overloaded request never ran, so repeating
\* it repeats no effect, a transfer that reports success moved the whole file, and an answer
\* about a sandbox fits it whatever handles the server evicted.
AnswersMeanWhatTheySay ==
    CASE part = "race" -> TypeOK
      [] part = "control" -> ControlTypeOK /\ OverloadedNeverRan
      [] part = "files" -> FilesTypeOK /\ OkTransferIsWhole
      [] part = "handles" -> HandlesTypeOK /\ AnswersFitTheSandbox
      [] OTHER -> TRUE

\* The events of a plugin's operation reach its observer, or the observer is told that some
\* were dropped, however full the event lane and whatever the context cache evicted.
EventsAreTold == part = "events" => EventsTypeOK /\ EventsAreToldOrDelivered
=============================================================================
