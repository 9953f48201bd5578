----------------------------- MODULE MCProcesses -----------------------------
(***************************************************************************)
(* Processes of a sandbox and those who must end them, one component at a  *)
(* time: `part` says which one a behaviour is about.                       *)
(*   fence     sentinels and the groups they hold (HostFence)              *)
(*   stdio     a stdio process of the host provider (HostStdio)            *)
(*   exec      a command in a Docker container (DockerExec)                *)
(*   forward, terminal   port forwards and PTYs into one (DockerAccess)    *)
(*   nested, nested_stop   one-shots of nested Daytona (DaytonaNested)     *)
(*   service   a service derived from plain commands (DerivedServices)     *)
(*   supervisor  a plugin's process and its replacements (PluginSupervisor)*)
(*   sessions  stdio, PTY and log sessions of a plugin (PluginSessions)    *)
(*   catalog   the runtimes of the configured providers (Catalog)          *)
(* They share no process; the composition shares their checks.             *)
(***************************************************************************)
EXTENDS HostFence, HostStdio, DockerExec, DockerAccess, DaytonaNested, DerivedServices,
        PluginSupervisor, PluginSessions, Catalog

CONSTANTS p1, p2, p3

ThreePids == {p1, p2, p3}

VARIABLE part

commandParts == <<stdioProcVars, execVars, accessVars, nestedVars, serviceVars>>
pluginParts == <<supVars, sessionsVars, catVars>>
mcVars == <<part, vars, commandParts, pluginParts>>

\* The value of the variables of a component that is not the part.
Off == "off"

StdioOff ==
    /\ backend = Off /\ hardened = Off /\ process = Off /\ reaped = Off /\ away = Off
    /\ groupDead = Off /\ pinned = Off /\ supervisor = Off /\ termSent = Off
    /\ terminate = Off /\ told = Off /\ waitFailed = Off /\ asks = Off

ExecOff ==
    /\ wrapper = Off /\ watcher = Off /\ execLeader = Off /\ child = Off
    /\ stopFile = Off /\ pidFile = Off /\ status = Off /\ client = Off /\ asked = Off
    /\ daemonErrors = Off

AccessOff ==
    /\ probed = Off /\ forwards = Off /\ listener = Off /\ released = Off
    /\ opener = Off /\ answered = Off /\ stopping = Off /\ term = Off

NestedOff ==
    /\ outer = Off /\ generation = Off /\ keeper = Off /\ action = Off /\ inflight = Off
    /\ stage = Off /\ oneShot = Off /\ swept = Off /\ nestedStop = Off

ServicesOff ==
    /\ setsid = Off /\ reaps = Off /\ stubborn = Off /\ spawned = Off /\ pidRecord = Off
    /\ exitFile = Off /\ leader = Off /\ command = Off /\ termed = Off /\ stopAt = Off
    /\ polls = Off

SupOff ==
    /\ supLock = Off /\ liveGen = Off /\ servedGen = Off /\ supIdentity = Off
    /\ proc = Off /\ wire = Off /\ genInfo = Off /\ supAt = Off /\ hand = Off
    /\ got = Off /\ ranOn = Off /\ supResult = Off

SessionsOff ==
    /\ handle = Off /\ requests = Off /\ answers = Off /\ expected = Off
    /\ opening = Off /\ registry = Off /\ cancelled = Off /\ closingPty = Off
    /\ draining = Off /\ session = Off /\ plugin = Off /\ closeErrors = Off
    /\ closeFailed = Off /\ cutOff = Off

CatOff ==
    /\ closed = Off /\ entryLock = Off /\ active = Off /\ runtimes = Off /\ catOp = Off
    /\ shut = Off /\ sweeper = Off /\ catSwept = Off /\ result = Off /\ refusals = Off

MCInit ==
    /\ part \in {"fence", "stdio", "exec", "forward", "terminal", "nested", "nested_stop",
                 "service", "supervisor", "sessions", "catalog"}
    /\ Init /\ (part # "fence" => owner = p1)
    /\ IF part = "stdio" THEN HostStdioInit ELSE StdioOff
    /\ IF part = "exec" THEN ExecInit ELSE ExecOff
    /\ IF part \in {"forward", "terminal"} THEN AccessInit ELSE AccessOff
    /\ IF part \in {"nested", "nested_stop"} THEN NestedInit ELSE NestedOff
    /\ IF part = "service" THEN ServicesInit ELSE ServicesOff
    /\ IF part = "supervisor" THEN SupInit ELSE SupOff
    /\ IF part = "sessions" THEN SessionsInit ELSE SessionsOff
    /\ IF part = "catalog" THEN CatInit ELSE CatOff

OfFence(A) == part = "fence" /\ A /\ UNCHANGED <<part, commandParts, pluginParts>>
OfStdio(A) == /\ part = "stdio" /\ A
              /\ UNCHANGED <<part, vars, execVars, accessVars, nestedVars, serviceVars, pluginParts>>
OfExec(A) == /\ part = "exec" /\ A
             /\ UNCHANGED <<part, vars, stdioProcVars, accessVars, nestedVars, serviceVars,
                            pluginParts>>
OfAccess(p, A) == /\ part = p /\ A
                  /\ UNCHANGED <<part, vars, stdioProcVars, execVars, nestedVars, serviceVars,
                                 pluginParts>>
OfNested(p, A) == /\ part = p /\ A
                  /\ UNCHANGED <<part, vars, stdioProcVars, execVars, accessVars, serviceVars,
                                 pluginParts>>
OfService(A) == /\ part = "service" /\ A
                /\ UNCHANGED <<part, vars, stdioProcVars, execVars, accessVars, nestedVars,
                               pluginParts>>
OfPlugin(p, A, rest) == part = p /\ A /\ UNCHANGED <<part, vars, commandParts, rest>>

MCNext ==
    \/ OfFence(Next)
    \/ OfStdio(HostStdioNext)
    \/ OfExec(ExecNext)
    \/ OfAccess("forward", ForwardNext) \/ OfAccess("terminal", TerminalNext)
    \/ OfNested("nested", NestedNext) \/ OfNested("nested_stop", StopFileNext)
    \/ OfService(ServicesNext)
    \/ OfPlugin("supervisor", SupNext, <<sessionsVars, catVars>>)
    \/ OfPlugin("sessions", SessionsNext, <<supVars, catVars>>)
    \/ OfPlugin("catalog", CatNext, <<supVars, sessionsVars>>)
    \/ part # "fence" /\ UNCHANGED mcVars     \* the others may come to rest

\* The sentinels run; the supervisor task of a stdio process and its callers are polled; the
\* wrapper, the watcher and the requests of a Docker command get on; a cancelled forward is
\* polled and a terminal's kill script runs; the task of a one-shot and the daemon get on.
\* Only one part ever acts, so weak fairness of a step of each part, taken together, is weak
\* fairness of each of them.
Turn(i) ==
    \/ i \in Groups /\ OfFence(Sentinel(i))
    \/ i \in StdioCallers /\ OfStdio(AskReturns(i))
    \/ i \in Listeners /\ OfAccess("forward", Relayed(i))
    \/ i = 1 /\ (OfExec(WrapperStep) \/ OfNested("nested", TaskStep))
    \/ i = 2 /\ (OfExec(WatcherStep) \/ OfNested("nested", DaemonActs))
    \/ i = 3 /\ (OfExec(RequestStep) \/ OfStdio(SupervisorStep) \/ OfAccess("terminal", KillShell))

MCSpec ==
    /\ MCInit
    /\ [][MCNext]_mcVars
    /\ \A i \in 1..3 : WF_mcVars(Turn(i))
    /\ \A l \in Listeners : WF_mcVars(OfAccess("forward", ServeEnds(l)))

-----------------------------------------------------------------------------
\* What is told to end ends.  A kill, and a terminate of a stdio handle, ends a Docker command
\* even if it lands while the wrapper starts or its watcher looks elsewhere; terminate of a
\* host stdio process returns; a released forward and a closed terminal end; the task of a
\* one-shot whose caller is gone ends.  No such debt stays open for ever.
StopsEndWork ==
    []<>~CASE part = "exec" -> StopIsOwed
           [] part = "stdio" -> TerminateIsOwed
           [] part = "forward" -> ReleaseIsOwed
           [] part = "terminal" -> CloseIsOwed
           [] part = "nested" -> AbandonedIsOwed
           [] OTHER -> FALSE

\* Whoever must end a process can still reach it, and what was reported over is over: a
\* running Docker command is watched, a terminated stdio process and a stopped service are
\* gone, no forward listens without an owner, a nested container stays behind an answer only
\* when its create was given up on, and then never runs, and a kill is not taken back.
WorkIsReachable ==
    CASE part = "stdio" -> HostStdioTypeOK /\ TerminatedIsGone
      [] part = "exec" -> ExecTypeOK /\ RunningIsWatched
      [] part \in {"forward", "terminal"} -> AccessTypeOK /\ NoStrayListener /\ GivenAddressServes
      [] part \in {"nested", "nested_stop"} ->
           NestedTypeOK /\ OwnedWorkIsCleaned /\ KilledStaysKilled
      [] part = "service" -> ServicesTypeOK /\ StoppedServiceIsOver
      [] OTHER -> TRUE

\* One process per plugin and none that nobody owns: after a crash one new process is launched
\* for all the callers that meet the dead one, a call stays with the account it was meant for,
\* and the catalog closes every runtime it activated.
ProcessesAreOwned ==
    CASE part = "supervisor" -> SupTypeOK /\ OnePluginProcess /\ SupervisedCallsStayHome
      [] part = "catalog" -> CatTypeOK /\ NoStrayRuntime
      [] OTHER -> TRUE

\* The sessions of a plugin (stdio, PTY, log stream) live within the I/O budget, also those that
\* start while the connection closes; a session is over once its end was reported; and when the
\* plugin has shut down what still lives was registered behind close_sessions' drain, failed to
\* close, or was cut off at the deadline.
SessionsAreAccounted ==
    part = "sessions" =>
        SessionsTypeOK /\ SessionsWithinBudget /\ ShutdownEndsSessions /\ OverIsOver
=============================================================================
