-------------------------- MODULE PluginSupervisor --------------------------
(***************************************************************************)
(* PluginSupervisor (supervisor.rs): callers that share one plugin process *)
(* and replace it when its transport closes.  current() runs under a lock  *)
(* that is held across the retirement of the dead generation and the whole *)
(* launch of its replacement: resolving and checking the binary            *)
(* (discovery.rs), spawning it, the initialize handshake and the health    *)
(* probe (client/provider.rs).  A caller may be dropped at any await.      *)
(*                                                                         *)
(* Generations are told apart by the launch that made them, 1..MaxLaunches *)
(* (a bound of the model); their numbers are what the code gives them.     *)
(* The first generation, which `launch' starts before there is a           *)
(* supervisor to share, is launched by the caller Founder.                 *)
(***************************************************************************)
EXTENDS Naturals, FiniteSets

CONSTANTS
    Founder,      \* the task that runs PluginSupervisor::launch
    Users,        \* tasks that call provider operations
    Closer,       \* the task that calls PluginSupervisor::shutdown
    ServiceUsers, \* those of them that ask for a snapshot or volume operation
    Pinned, Dev,  \* PluginConfig: a sha256 is given, the plugin is marked dev
    MaxLaunches   \* bound on the processes ever spawned

ASSUME SupervisorAssumption == MaxLaunches \in Nat \ {0} /\ Pinned \in BOOLEAN /\ Dev \in BOOLEAN

SupTasks == Users \cup {Founder, Closer}
Launches == 1..MaxLaunches
NoTask == "no task"

ASSUME NoTaskAssumption == NoTask \notin SupTasks

\* The account a plugin's health probe reports.
Accounts == {"home", "other"}

\* What the plugin's path may hold when it is launched: it can change between launches.
Binaries == {"missing", "pinned", "other"}

VARIABLES
    supLock,      \* the holder of PluginSupervisor.generations
    liveGen,      \* Generations.live: a launch, or 0
    servedGen,    \* Generations.served
    supIdentity,  \* PluginSupervisor.identity, "none" before the first launch
    proc,         \* each launch's process: "none", "up" or "gone"
    wire,         \* its client's transport: "open" or "closed"
    genInfo,      \* its number, account and whether it serves snapshots and volumes
    supAt,        \* where each task is
    hand,         \* the launch it is retiring or starting
    got,          \* the generation current() gave it
    ranOn,        \* the launches its operation was sent to
    supResult     \* what it returned

supVars == <<supLock, liveGen, servedGen, supIdentity, proc, wire,
             genInfo, supAt, hand, got, ranOn, supResult>>

Results == {"none", "ok", "failed", "refused", "identity_changed", "unsupported", "dropped"}

SupTypeOK ==
    /\ supLock \in SupTasks \cup {NoTask}
    /\ liveGen \in 0..MaxLaunches
    /\ servedGen \in 0..MaxLaunches
    /\ supIdentity \in Accounts \cup {"none"}
    /\ proc \in [Launches -> {"none", "up", "gone"}]
    /\ wire \in [Launches -> {"open", "closed"}]
    /\ genInfo \in [Launches -> [number : 0..MaxLaunches, account : Accounts, services : BOOLEAN]]
    /\ supAt \in [SupTasks -> {"idle", "locking", "retiring", "launching", "connecting",
                               "calling", "awaiting", "closing", "returned"}]
    /\ hand \in [SupTasks -> 0..MaxLaunches]
    /\ got \in [SupTasks -> 0..MaxLaunches]
    /\ ranOn \in [SupTasks -> SUBSET Launches]
    /\ supResult \in [SupTasks -> Results]

SupInit ==
    /\ supLock = Founder /\ liveGen = 0 /\ servedGen = 0 /\ supIdentity = "none"
    /\ proc = [i \in Launches |-> "none"] /\ wire = [i \in Launches |-> "closed"]
    /\ genInfo = [i \in Launches |-> [number |-> 0, account |-> "home", services |-> FALSE]]
    /\ supAt = [t \in SupTasks |-> IF t = Founder THEN "launching" ELSE "idle"]
    /\ hand = [t \in SupTasks |-> 0] /\ got = [t \in SupTasks |-> 0]
    /\ ranOn = [t \in SupTasks |-> {}] /\ supResult = [t \in SupTasks |-> "none"]

-----------------------------------------------------------------------------
GoesTo(t, place) == supAt' = [supAt EXCEPT ![t] = place]
Ends(t, result) == GoesTo(t, "returned") /\ supResult' = [supResult EXCEPT ![t] = result]
Unlocks(t) == supLock' = IF supLock = t THEN NoTask ELSE supLock

\* A process is killed, or exits when it is told to shut down; its transport closes with it.
Gone(i) == proc' = [proc EXCEPT ![i] = "gone"] /\ wire' = [wire EXCEPT ![i] = "closed"]

-----------------------------------------------------------------------------
\* discovery.rs: which binaries a launch accepts.

\* resolve_plugin_binary: the configured path, or the first executable on the search path.
Resolved(binary) == binary # "missing"

\* enforce_checksum: a pinned checksum must match; without one only a dev plugin may run.
ChecksumAccepts(binary) == IF Pinned THEN binary = "pinned" ELSE Dev

LaunchAccepted(binary) == Resolved(binary) /\ ChecksumAccepts(binary)

-----------------------------------------------------------------------------
\* A forwarded operation starts by asking for the current generation.
Asks_current(t) ==
    /\ t # Founder /\ supAt[t] = "idle" /\ supIdentity # "none"
    /\ GoesTo(t, "locking")
    /\ UNCHANGED <<supLock, liveGen, servedGen, supIdentity, proc, wire,
                   genInfo, hand, got, ranOn, supResult>>

\* is_closed of the live generation.
LiveIsOpen == liveGen # 0 /\ wire[liveGen] = "open"

\* current() finds the live generation open and returns it.
FindsLive(t) ==
    /\ t \in Users /\ supAt[t] = "locking" /\ supLock = NoTask /\ LiveIsOpen
    /\ got' = [got EXCEPT ![t] = liveGen]
    /\ GoesTo(t, "calling")
    /\ UNCHANGED <<supLock, liveGen, servedGen, supIdentity, proc, wire,
                   genInfo, hand, ranOn, supResult>>

LeavesTheDead(t) ==
    /\ t \in Users /\ supAt[t] = "locking" /\ supLock = NoTask /\ ~LiveIsOpen
    /\ supLock' = t /\ liveGen' = 0
    /\ GoesTo(t, "launching")
    /\ UNCHANGED <<servedGen, supIdentity, proc, wire, genInfo,
                   hand, got, ranOn, supResult>>

\* current() takes the closed generation out, to shut it down before its replacement starts.
TakesClosed(t) ==
    /\ t \in Users /\ supAt[t] = "locking" /\ supLock = NoTask /\ ~LiveIsOpen
    /\ supLock' = t /\ liveGen' = 0
    /\ hand' = [hand EXCEPT ![t] = liveGen]
    /\ GoesTo(t, IF liveGen = 0 THEN "launching" ELSE "retiring")
    /\ UNCHANGED <<servedGen, supIdentity, proc, wire, genInfo,
                   got, ranOn, supResult>>

\* PluginProvider::shutdown of what the task took, whose outcome current() ignores.
Retires(t) ==
    /\ supAt[t] = "retiring"
    /\ Gone(hand[t]) /\ hand' = [hand EXCEPT ![t] = 0]
    /\ GoesTo(t, "launching")
    /\ UNCHANGED <<supLock, liveGen, servedGen, supIdentity, genInfo,
                   got, ranOn, supResult>>

\* launch_plugin refuses the binary, or the operating system cannot start it.
LaunchFails(t) ==
    /\ supAt[t] = "launching"
    /\ Ends(t, "refused") /\ Unlocks(t)
    /\ UNCHANGED <<liveGen, servedGen, supIdentity, proc, wire, genInfo,
                   hand, got, ranOn>>

\* spawn_with_limits starts the process and the client that talks to it.
Spawns(t) ==
    /\ supAt[t] = "launching" /\ \E binary \in Binaries : LaunchAccepted(binary)
    /\ \E i \in Launches, account \in Accounts, services \in BOOLEAN :
         /\ proc[i] = "none" /\ \A j \in 1..(i - 1) : proc[j] # "none"
         /\ proc' = [proc EXCEPT ![i] = "up"] /\ wire' = [wire EXCEPT ![i] = "open"]
         /\ genInfo' = [genInfo EXCEPT ![i] = [number |-> servedGen + 1, account |-> account,
                                               services |-> services]]
         /\ hand' = [hand EXCEPT ![t] = i]
    /\ GoesTo(t, "connecting")
    /\ UNCHANGED <<supLock, liveGen, servedGen, supIdentity, got,
                   ranOn, supResult>>

\* The handshake fails (the child is dropped, which kills it), or the probe fails or is
\* refused (the provider is shut down).
ProbeFails(t) ==
    /\ supAt[t] = "connecting"
    /\ Gone(hand[t]) /\ hand' = [hand EXCEPT ![t] = 0]
    /\ Ends(t, "refused") /\ Unlocks(t)
    /\ UNCHANGED <<liveGen, servedGen, supIdentity, genInfo, got,
                   ranOn>>

AnyAccount(i) == FALSE

\* identity_changed: a replacement must report the account of the first generation.
IdentityChanged(i) == supIdentity # "none" /\ genInfo[i].account # supIdentity

\* current() shuts a replacement of another account down; `served' does not advance.
RefusesIdentity(t) ==
    /\ supAt[t] = "connecting" /\ wire[hand[t]] = "open" /\ IdentityChanged(hand[t])
    /\ Gone(hand[t]) /\ hand' = [hand EXCEPT ![t] = 0]
    /\ Ends(t, "identity_changed") /\ Unlocks(t)
    /\ UNCHANGED <<liveGen, servedGen, supIdentity, genInfo, got,
                   ranOn>>

\* The probe answers: the generation becomes the live one and the lock is released.  The
\* first one decides the supervisor's identity.
Installs(t) ==
    /\ supAt[t] = "connecting" /\ wire[hand[t]] = "open" /\ ~IdentityChanged(hand[t])
    /\ liveGen' = hand[t] /\ servedGen' = genInfo[hand[t]].number
    /\ supIdentity' = IF supIdentity = "none" THEN genInfo[hand[t]].account ELSE supIdentity
    /\ hand' = [hand EXCEPT ![t] = 0]
    /\ Unlocks(t)
    /\ IF t = Founder
         THEN Ends(t, "ok") /\ UNCHANGED got
         ELSE GoesTo(t, "calling") /\ got' = [got EXCEPT ![t] = hand[t]] /\ UNCHANGED supResult
    /\ UNCHANGED <<proc, wire, genInfo, ranOn>>

-----------------------------------------------------------------------------
\* snapshot_service and volume_service: the generation at hand must serve them.
Serves(t) == t \notin ServiceUsers \/ genInfo[got[t]].services

ServiceRefused(t) ==
    /\ supAt[t] = "calling" /\ ~Serves(t)
    /\ Ends(t, "unsupported")
    /\ UNCHANGED <<supLock, liveGen, servedGen, supIdentity, proc, wire,
                   genInfo, hand, got, ranOn>>

\* The operation is sent to the generation the caller was given, or finds it closed.
OperationSent(t) ==
    /\ supAt[t] = "calling" /\ Serves(t)
    /\ IF wire[got[t]] = "open"
         THEN /\ ranOn' = [ranOn EXCEPT ![t] = @ \cup {got[t]}]
              /\ GoesTo(t, "awaiting") /\ UNCHANGED supResult
         ELSE Ends(t, "failed") /\ UNCHANGED ranOn
    /\ UNCHANGED <<supLock, liveGen, servedGen, supIdentity, proc, wire,
                   genInfo, hand, got>>

AsksAgain(t) ==
    /\ supAt[t] = "awaiting" /\ wire[got[t]] = "closed"
    /\ GoesTo(t, "locking")
    /\ UNCHANGED <<supLock, liveGen, servedGen, supIdentity, proc, wire,
                   genInfo, hand, got, ranOn, supResult>>

\* The transport closes under the operation: the caller gets the error, and nothing repeats
\* the operation on the replacement.
OperationFails(t) ==
    /\ supAt[t] = "awaiting" /\ wire[got[t]] = "closed"
    /\ Ends(t, "failed")
    /\ UNCHANGED <<supLock, liveGen, servedGen, supIdentity, proc, wire,
                   genInfo, hand, got, ranOn>>

OperationAnswered(t) ==
    /\ supAt[t] = "awaiting" /\ wire[got[t]] = "open" /\ proc[got[t]] = "up"
    /\ Ends(t, "ok")
    /\ UNCHANGED <<supLock, liveGen, servedGen, supIdentity, proc, wire,
                   genInfo, hand, got, ranOn>>

\* PluginSupervisor::shutdown takes the live generation and shuts it down under the lock.
SupShutdownTakes ==
    /\ supAt[Closer] = "locking" /\ supLock = NoTask
    /\ IF liveGen = 0
         THEN Ends(Closer, "ok") /\ UNCHANGED <<supLock, hand>>
         ELSE /\ supLock' = Closer /\ hand' = [hand EXCEPT ![Closer] = liveGen]
              /\ GoesTo(Closer, "closing") /\ UNCHANGED supResult
    /\ liveGen' = 0
    /\ UNCHANGED <<servedGen, supIdentity, proc, wire, genInfo,
                   got, ranOn>>

\* PluginProvider::shutdown: the plugin exits within the deadline, or it is killed and the
\* error is returned.
SupShutdownEnds ==
    /\ supAt[Closer] = "closing"
    /\ Gone(hand[Closer]) /\ hand' = [hand EXCEPT ![Closer] = 0]
    /\ \E result \in {"ok", "failed"} : Ends(Closer, result)
    /\ Unlocks(Closer)
    /\ UNCHANGED <<liveGen, servedGen, supIdentity, genInfo, got,
                   ranOn>>

\* A task is dropped at an await.  The child it holds (a spawn in progress, a shutdown in
\* progress) is killed when it is dropped; the lock's guard goes with it.
TaskDropped(t) ==
    /\ supAt[t] \notin {"idle", "returned"}
    /\ Ends(t, "dropped") /\ Unlocks(t)
    /\ IF hand[t] # 0 THEN Gone(hand[t]) ELSE UNCHANGED <<proc, wire>>
    /\ hand' = [hand EXCEPT ![t] = 0]
    /\ UNCHANGED <<liveGen, servedGen, supIdentity, genInfo, got,
                   ranOn>>

-----------------------------------------------------------------------------
\* A plugin process dies, and the client's reader sees its pipe close.
PluginDies(i) ==
    /\ proc[i] = "up"
    /\ proc' = [proc EXCEPT ![i] = "gone"]
    /\ UNCHANGED <<supLock, liveGen, servedGen, supIdentity, wire, genInfo,
                   supAt, hand, got, ranOn, supResult>>

\* mark_closed: the pipe broke, or the plugin sent what the host cannot read while it lives.
WireCloses(i) ==
    /\ wire[i] = "open"
    /\ wire' = [wire EXCEPT ![i] = "closed"]
    /\ UNCHANGED <<supLock, liveGen, servedGen, supIdentity, proc, genInfo,
                   supAt, hand, got, ranOn, supResult>>


-----------------------------------------------------------------------------
\* The steps of a task that keeps being polled, apart from waiting for an answer.
SupTaskStep(t) ==
    \/ FindsLive(t) \/ TakesClosed(t) \/ Retires(t) \/ LaunchFails(t) \/ Spawns(t)
    \/ ProbeFails(t) \/ RefusesIdentity(t) \/ Installs(t)
    \/ ServiceRefused(t) \/ OperationSent(t) \/ OperationFails(t)
    \/ t = Closer /\ (SupShutdownTakes \/ SupShutdownEnds)

SupNext ==
    \/ \E t \in SupTasks : Asks_current(t) \/ SupTaskStep(t) \/ OperationAnswered(t) \/ TaskDropped(t)
    \/ \E i \in Launches : PluginDies(i) \/ WireCloses(i)

-----------------------------------------------------------------------------
\* However callers, drops, deaths and the shutdown interleave, at most one plugin process is
\* alive: the dead generation's process is ended before its replacement is spawned, and a
\* process in a dropped task's hands goes with the task (supervisor.rs current()).
OnePluginProcess == Cardinality({i \in Launches : proc[i] = "up"}) <= 1

\* An operation is sent to one generation only, never again to a replacement, and only to a
\* generation of the account the supervisor started with that serves what is asked; and no
\* two generations that were ever served carry the same number.
SupervisedCallsStayHome ==
    \A t \in SupTasks :
      /\ Cardinality(ranOn[t]) <= 1
      /\ \A i \in ranOn[t] : /\ genInfo[i].account = supIdentity
                             /\ t \in ServiceUsers => genInfo[i].services
                             /\ \A u \in SupTasks : \A j \in ranOn[u] :
                                  genInfo[i].number = genInfo[j].number => i = j

=============================================================================
