--------------------------- MODULE DockerSandbox ---------------------------
(***************************************************************************)
(* One Docker sandbox at the daemon, and the calls that create, start,     *)
(* stop, pause and delete it and run a one-shot container beside it        *)
(* (sandbox-driver-docker: create.rs, sidecars.rs, container.rs,           *)
(* sandbox.rs, provider.rs, one_shot.rs).                                  *)
(*                                                                         *)
(* Every step of a call is one request to the daemon.  A request can fail  *)
(* (at most MaxFaults times) and a call's future can be dropped before any *)
(* request (at most MaxDrops times): nothing then cleans up behind it.     *)
(* Ids reach other callers when create ends, so calls overlap each other   *)
(* but not a create.                                                       *)
(***************************************************************************)
EXTENDS Integers

CONSTANTS
    Sidecars,   \* the services a plan may ask for
    Watched,    \* those of them with a health check
    Callers,    \* concurrent callers
    MaxFaults,  \* bound on failing requests
    MaxDrops    \* bound on dropped calls

ASSUME SidecarsAssumption == Watched \subseteq Sidecars
ASSUME DockerBoundsAssumption == MaxFaults \in Nat /\ MaxDrops \in Nat

VARIABLES
    plan,    \* the spec the primary was created from
    box,     \* the primary container
    nets,    \* the networks the primary is attached to
    net,     \* whether the sidecar network exists
    side,    \* the sidecar containers
    shot,    \* the one-shot container
    call,    \* each caller's call
    faults,  \* requests that failed so far
    drops,   \* calls dropped so far
    during,  \* the stops and deletes under way when `shot` was created
    doomed   \* whether a sweep has begun to take the services away

daemon == <<box, nets, net, side, shot>>
others == <<box, nets, net, side>>
dockerVars == <<plan, daemon, call, faults, drops, during, doomed>>

\* A SandboxSpec, by what the plan keeps of it.  The provider's default network
\* and AllowAll are planned alike.
SandboxSpecs == [network : {"allow", "block", "list"}, host : BOOLEAN, services : BOOLEAN]

BoxStates == {"absent", "created", "running", "paused", "exited"}
ServiceStates == {"absent", "created", "up", "healthy", "unhealthy", "exited"}
ShotStates == {"absent", "created", "running", "exited"}

CallOps == {"none", "create", "start", "stop", "delete", "pause", "resume", "one_shot"}
CreateSteps == {"image", "primary", "network", "service", "boot", "health",
                "detach", "connect", "launch", "verify", "remove"}
SweepSteps == {"sweep", "sweep_each", "sweep_attached", "sweep_detach", "sweep_net"}
LifecycleSteps == {"inspect", "set_list", "set_each", "await", "unpause", "boot_box",
                   "shots", "shots_each", "halt", "freeze", "erase"}
ShotSteps == {"shot_image", "shot_create", "shot_attach", "shot_start", "shot_run",
              "shot_remove"}
EndSteps == {"done", "failed"}

\* `left`: containers a loop has still to visit; `seen`: the primary as
\* inspected; `aim`: what follows a sweep.
CallRecords ==
    [op : CallOps, at : CreateSteps \cup SweepSteps \cup LifecycleSteps \cup ShotSteps \cup EndSteps,
     left : SUBSET Sidecars, seen : BoxStates, aim : {"none", "abandon", "remove", "erase"}]

DockerTypeOK ==
    /\ plan \in SandboxSpecs
    /\ box \in BoxStates
    /\ nets \subseteq {"none", "bridge", "host", "services"}
    /\ net \in BOOLEAN
    /\ side \in [Sidecars -> ServiceStates]
    /\ shot \in ShotStates
    /\ call \in [Callers -> CallRecords]
    /\ faults \in 0..MaxFaults
    /\ drops \in 0..MaxDrops
    /\ during \subseteq Callers
    /\ doomed \in BOOLEAN

Fresh(op, at) == [op |-> op, at |-> at, left |-> {}, seen |-> "absent", aim |-> "none"]
Ended(outcome) == Fresh("none", outcome)

DockerInit ==
    /\ plan = [network |-> "allow", host |-> FALSE, services |-> FALSE]
    /\ box = "absent"
    /\ nets = {}
    /\ net = FALSE
    /\ side = [s \in Sidecars |-> "absent"]
    /\ shot = "absent"
    /\ call = [c \in Callers |-> Ended("done")]
    /\ faults = 0
    /\ drops = 0
    /\ during = {}
    /\ doomed = FALSE

-----------------------------------------------------------------------------
(* The plan.                                                                *)

\* `supported`: none of the creation fields the provider refuses (kind, source,
\* volumes, disk, GPU, timers, ephemeral, public, region) is set.
Plannable(p, named, supported) ==
    /\ supported
    /\ p.host => p.network = "allow" /\ ~p.services
    /\ p.network # "list"
    /\ p.services => named

\* The network the primary is created on.  With services it starts isolated.
NetworkMode(p) ==
    CASE p.services -> "none"
      [] p.host -> "host"
      [] p.network = "block" -> "none"
      [] OTHER -> "bridge"

-----------------------------------------------------------------------------
(* Control of a call.                                                       *)

Quiet(c) == call[c].at \in EndSteps
At(c, step) == call[c].at = step

Proceed(c, k) ==
    /\ call' = [call EXCEPT ![c] = k]
    /\ UNCHANGED <<plan, faults, drops, during, doomed>>
To(c, step) == [call[c] EXCEPT !.at = step]
Visit(c, step, todo) == [call[c] EXCEPT !.at = step, !.left = todo]

\* CreatedContainer::abandon: services first, the labelled primary last.
Abandon(k) ==
    IF plan.services
    THEN [k EXCEPT !.at = "sweep", !.aim = "remove"]
    ELSE [k EXCEPT !.at = "remove"]

\* A plan for abandon that removes the primary though its sweep failed.
ErrorForgetsPrimary(k) ==
    CASE k.op = "create" /\ k.at \in {"service", "boot", "health"}
           -> [k EXCEPT !.at = "sweep", !.aim = "abandon"]
      [] k.op = "create" /\ k.at \in {"network", "detach", "connect", "launch", "verify"}
           -> Abandon(k)
      [] k.at \in SweepSteps /\ k.aim = "abandon" -> Abandon(k)
      [] k.at \in SweepSteps /\ k.aim = "remove" -> [k EXCEPT !.at = "remove"]
      [] k.at \in {"shot_attach", "shot_start", "shot_run"} -> [k EXCEPT !.at = "shot_remove"]
      [] OTHER -> Ended("failed")

\* A delete that reports success whatever the last request answered.
ErrorHidesRemoval(k) ==
    IF k.at = "erase" THEN Ended("done") ELSE ErrorForgetsPrimary(k)

\* What a call does when the request it is at fails.
OnError(k) ==
    CASE k.op = "create" /\ k.at \in {"service", "boot", "health"}
           -> [k EXCEPT !.at = "sweep", !.aim = "abandon"]
      [] k.op = "create" /\ k.at \in {"network", "detach", "connect", "launch", "verify"}
           -> Abandon(k)
      [] k.at \in SweepSteps /\ k.aim = "abandon" -> Abandon(k)
      [] k.at \in {"shot_attach", "shot_start", "shot_run"} -> [k EXCEPT !.at = "shot_remove"]
      [] OTHER -> Ended("failed")

Errs(c) == Proceed(c, OnError(call[c])) /\ UNCHANGED daemon

Fault(c) ==
    /\ ~Quiet(c)
    /\ faults < MaxFaults
    /\ faults' = faults + 1
    /\ call' = [call EXCEPT ![c] = OnError(@)]
    /\ UNCHANGED <<plan, daemon, drops, during, doomed>>

Drop(c) ==
    /\ ~Quiet(c)
    /\ drops < MaxDrops
    /\ drops' = drops + 1
    /\ call' = [call EXCEPT ![c] = Ended("failed")]
    /\ UNCHANGED <<plan, daemon, faults, during, doomed>>

-----------------------------------------------------------------------------
(* create: ContainerPlan::plan, then the guarded launch.                    *)

BeginCreate(c) ==
    /\ box = "absent"
    /\ \A d \in Callers : Quiet(d)
    /\ \E p \in SandboxSpecs, named, supported \in BOOLEAN :
         IF Plannable(p, named, supported)
         THEN plan' = p /\ call' = [call EXCEPT ![c] = Fresh("create", "image")]
         ELSE plan' = plan /\ call' = [call EXCEPT ![c] = Ended("failed")]
    /\ doomed' = FALSE
    /\ UNCHANGED <<daemon, faults, drops, during>>

\* Present, pulled, or neither: a failing pull is a Fault.
EnsureImage(c) ==
    /\ At(c, "image")
    /\ Proceed(c, To(c, "primary"))
    /\ UNCHANGED daemon

CreatePrimary(c) ==
    /\ At(c, "primary")
    /\ box' = "created"
    /\ nets' = {NetworkMode(plan)}
    /\ \/ Proceed(c, To(c, IF plan.services THEN "network" ELSE "launch"))
       \/ /\ faults < MaxFaults                 \* created, but the answer is lost
          /\ faults' = faults + 1
          /\ call' = [call EXCEPT ![c] = Ended("failed")]
          /\ UNCHANGED <<plan, drops, during, doomed>>
    /\ UNCHANGED <<net, side, shot>>

CreateNetwork(c) ==
    /\ At(c, "network")
    /\ IF net
       THEN Errs(c)
       ELSE /\ net' = TRUE
            /\ Proceed(c, Visit(c, "service", Sidecars))
            /\ UNCHANGED <<box, nets, side, shot>>

\* start_all: image, create, start, one sidecar after the other.
CreateService(c) ==
    /\ At(c, "service")
    /\ \E s \in call[c].left :
         IF side[s] # "absent" \/ ~net
         THEN Errs(c)
         ELSE /\ side' = [side EXCEPT ![s] = "created"]
              /\ Proceed(c, To(c, "boot"))
              /\ UNCHANGED <<box, nets, net, shot>>

BootService(c) ==
    /\ At(c, "boot")
    /\ \E s \in call[c].left :
         /\ side[s] = "created"
         /\ side' = [side EXCEPT ![s] = "up"]
         /\ Proceed(c, LET left == call[c].left \ {s}
                       IN IF left = {} THEN Visit(c, "health", Watched)
                                       ELSE Visit(c, "service", left))
    /\ UNCHANGED <<box, nets, net, shot>>

\* await_health, for the sidecars with a check.  The deadline is a Fault.
HealthVerdict(c, next) ==
    \/ /\ call[c].left = {}
       /\ Proceed(c, next)
       /\ UNCHANGED daemon
    \/ \E s \in call[c].left :
         /\ side[s] = "healthy" \/ (s \notin Watched /\ side[s] # "absent")
         /\ Proceed(c, Visit(c, call[c].at, call[c].left \ {s}))
         /\ UNCHANGED daemon
    \/ \E s \in call[c].left :
         /\ side[s] = "absent" \/ (s \in Watched /\ side[s] \in {"unhealthy", "exited"})
         /\ Errs(c)

AwaitHealth(c) == At(c, "health") /\ HealthVerdict(c, To(c, "detach"))

LeaveNone(c) ==
    /\ At(c, "detach")
    /\ IF box = "absent"
       THEN Errs(c)
       ELSE /\ nets' = nets \ {"none"}
            /\ Proceed(c, To(c, "connect"))
            /\ UNCHANGED <<box, net, side, shot>>

Connect(c) ==
    /\ At(c, "connect")
    /\ IF box = "absent" \/ ~net
       THEN Errs(c)
       ELSE /\ nets' = nets \cup {"services"}
            /\ Proceed(c, To(c, "launch"))
            /\ UNCHANGED <<box, net, side, shot>>

Launch(c) ==
    /\ At(c, "launch")
    /\ IF box = "absent"
       THEN Errs(c)
       ELSE /\ box' = "running"
            /\ Proceed(c, To(c, "verify"))
            /\ UNCHANGED <<nets, net, side, shot>>

VerifyRunning(c) ==
    /\ At(c, "verify")
    /\ IF box = "running" THEN Proceed(c, Ended("done")) /\ UNCHANGED daemon ELSE Errs(c)

RemoveFailed(c) ==
    /\ At(c, "remove")
    /\ box' = "absent"
    /\ nets' = {}
    /\ Proceed(c, Ended("failed"))
    /\ UNCHANGED <<net, side, shot>>

-----------------------------------------------------------------------------
(* sidecars::sweep, for realize (without the sandbox), abandon and delete.  *)

Labelled == {s \in Sidecars : side[s] # "absent"}

SweepDone(c) ==
    CASE call[c].aim = "abandon" -> Abandon(call[c])
      [] call[c].aim = "remove" -> To(c, "remove")
      [] call[c].aim = "erase" -> To(c, "erase")

SweepList(c) ==
    /\ At(c, "sweep")
    /\ doomed' = TRUE
    /\ call' = [call EXCEPT ![c] = Visit(c, "sweep_each", Labelled)]
    /\ UNCHANGED <<plan, daemon, faults, drops, during>>

SweepEach(c) ==
    /\ At(c, "sweep_each")
    /\ \/ \E s \in call[c].left :
            /\ side' = [side EXCEPT ![s] = "absent"]
            /\ Proceed(c, Visit(c, "sweep_each", call[c].left \ {s}))
            /\ UNCHANGED <<box, nets, net, shot>>
       \/ /\ call[c].left = {}
          /\ Proceed(c, To(c, IF call[c].aim = "abandon" THEN "sweep_net" ELSE "sweep_attached"))
          /\ UNCHANGED daemon

SweepAttached(c) ==
    /\ At(c, "sweep_attached")
    /\ Proceed(c, IF ~net THEN SweepDone(c)
                  ELSE To(c, IF "services" \in nets THEN "sweep_detach" ELSE "sweep_net"))
    /\ UNCHANGED daemon

SweepDetach(c) ==
    /\ At(c, "sweep_detach")
    /\ nets' = nets \ {"services"}
    /\ Proceed(c, To(c, "sweep_net"))
    /\ UNCHANGED <<box, net, side, shot>>

\* The daemon refuses to remove a network that is in use.
SweepNetwork(c) ==
    /\ At(c, "sweep_net")
    /\ IF net /\ (Labelled # {} \/ "services" \in nets)
       THEN Errs(c)
       ELSE /\ net' = FALSE
            /\ Proceed(c, SweepDone(c))
            /\ UNCHANGED <<box, nets, side, shot>>

-----------------------------------------------------------------------------
(* start, stop, pause, resume and delete.                                   *)

\* A stop that leaves the sandbox's one-shot containers alone.
FirstStepKeepsShots(op) ==
    CASE op = "start" -> {"inspect"}
      [] op = "delete" -> {"inspect", "shots"}
      [] op = "stop" -> {"halt"}
      [] op = "pause" -> {"freeze"}
      [] op = "resume" -> {"unpause"}
      [] op = "one_shot" -> {"shot_image"}

\* The provider's delete inspects the container; the handle's goes straight to remove_sandbox.
FirstStep(op) ==
    CASE op = "start" -> {"inspect"}
      [] op = "delete" -> {"inspect", "shots"}
      [] op = "stop" -> {"shots"}
      [] op = "pause" -> {"freeze"}
      [] op = "resume" -> {"unpause"}
      [] op = "one_shot" -> {"shot_image"}

OneShotRuns == \E c \in Callers : call[c].op = "one_shot" /\ ~Quiet(c)

\* One one-shot at a time: they do not interact.
BeginCall(c, op) ==
    /\ Quiet(c)
    /\ box # "absent"
    /\ \A d \in Callers : call[d].op = "create" => Quiet(d)
    /\ op = "one_shot" => shot = "absent" /\ ~OneShotRuns
    /\ \E first \in FirstStep(op) : Proceed(c, Fresh(op, first))
    /\ UNCHANGED daemon

\* A start that trusts the label alone.
NeverIncomplete == FALSE

\* The primary is labelled with a sidecar network it never joined.
Incomplete == plan.services /\ "services" \notin nets

Inspect(c) ==
    /\ At(c, "inspect")
    /\ CASE call[c].op = "delete" ->
              /\ Proceed(c, IF box = "absent" THEN Ended("done") ELSE To(c, "shots"))
              /\ UNCHANGED daemon
         [] call[c].op = "start" /\ (box = "absent" \/ Incomplete) -> Errs(c)
         [] call[c].op = "start" /\ box # "absent" /\ ~Incomplete ->
              /\ Proceed(c, [call[c] EXCEPT !.seen = box,
                                            !.at = IF plan.services THEN "set_list" ELSE "await"])
              /\ UNCHANGED daemon

\* set_running: start or stop every labelled sidecar, then wait for checks.
ListServices(c) ==
    /\ At(c, "set_list")
    /\ Proceed(c, Visit(c, "set_each", Labelled))
    /\ UNCHANGED daemon

SetService(c) ==
    /\ At(c, "set_each")
    /\ \/ /\ call[c].left = {}
          /\ IF call[c].op = "start"
             THEN Proceed(c, Visit(c, "await", Labelled))
             ELSE Proceed(c, Ended("done"))
          /\ UNCHANGED daemon
       \/ \E s \in call[c].left :
            IF call[c].op = "start" /\ side[s] = "absent"
            THEN Errs(c)
            ELSE /\ side' = [side EXCEPT ![s] =
                       IF side[s] = "absent" THEN "absent"
                       ELSE IF call[c].op = "stop" THEN "exited"
                       ELSE IF side[s] \in {"created", "exited"} THEN "up" ELSE @]
                 /\ Proceed(c, Visit(c, "set_each", call[c].left \ {s}))
                 /\ UNCHANGED <<box, nets, net, shot>>

\* Paused: unpause.  Not running: sweep old one-shots, then start.
AwaitServices(c) ==
    /\ At(c, "await")
    /\ HealthVerdict(c, To(c, CASE call[c].seen = "paused" -> "unpause"
                                [] call[c].seen = "running" -> "boot_box"
                                [] OTHER -> "shots"))

StartBox(c) ==
    /\ At(c, "boot_box")
    /\ IF box = "absent"
       THEN Errs(c)
       ELSE /\ box' = IF box \in {"created", "exited"} THEN "running" ELSE box
            /\ Proceed(c, Ended("done"))
            /\ UNCHANGED <<nets, net, side, shot>>

Unpause(c) ==
    /\ At(c, "unpause")
    /\ IF box # "paused"
       THEN Errs(c)
       ELSE /\ box' = "running"
            /\ Proceed(c, Ended("done"))
            /\ UNCHANGED <<nets, net, side, shot>>

Pause(c) ==
    /\ At(c, "freeze")
    /\ IF box # "running"
       THEN Errs(c)
       ELSE /\ box' = "paused"
            /\ Proceed(c, Ended("done"))
            /\ UNCHANGED <<nets, net, side, shot>>

StopBox(c) ==
    /\ At(c, "halt")
    /\ box' = IF box \in {"running", "paused"} THEN "exited" ELSE box
    /\ Proceed(c, IF plan.services THEN To(c, "set_list") ELSE Ended("done"))
    /\ UNCHANGED <<nets, net, side, shot>>

\* one_shot::sweep, and what follows it in each call.
AfterShots(c) ==
    CASE call[c].op = "start" -> To(c, "boot_box")
      [] call[c].op = "stop" -> To(c, "halt")
      [] call[c].op = "delete" ->
           IF plan.services THEN [call[c] EXCEPT !.at = "sweep", !.aim = "erase"]
                            ELSE To(c, "erase")

ListShots(c) ==
    /\ At(c, "shots")
    /\ Proceed(c, IF shot = "absent" THEN AfterShots(c) ELSE To(c, "shots_each"))
    /\ UNCHANGED daemon

RemoveShots(c) ==
    /\ At(c, "shots_each")
    /\ shot' = "absent"
    /\ during' = {}
    /\ call' = [call EXCEPT ![c] = AfterShots(c)]
    /\ UNCHANGED <<plan, faults, drops, doomed, others>>

Erase(c) ==
    /\ At(c, "erase")
    /\ box' = "absent"
    /\ nets' = {}
    /\ Proceed(c, Ended("done"))
    /\ UNCHANGED <<net, side, shot>>

-----------------------------------------------------------------------------
(* OneShot::run.  Its stop race is DrainStops; here a run ends because the  *)
(* container ended, was swept, or was killed for the caller.                *)

PrepareShot(c) ==
    /\ At(c, "shot_image")
    /\ \/ Proceed(c, To(c, "shot_create"))
       \/ Proceed(c, Ended("done"))        \* stopped while preparing
    /\ UNCHANGED daemon

\* The container joins the primary's network, so the primary must exist.
CreateShot(c) ==
    /\ At(c, "shot_create")
    /\ IF box = "absent"
       THEN Errs(c)
       ELSE /\ shot' = "created"
            /\ during' = {d \in Callers : call[d].op \in {"stop", "delete"}}
            /\ call' = [call EXCEPT ![c] = To(c, "shot_attach")]
            /\ UNCHANGED <<plan, faults, drops, doomed, others>>

AttachShot(c) ==
    /\ At(c, "shot_attach")
    /\ IF shot = "absent"
       THEN Errs(c)
       ELSE Proceed(c, To(c, "shot_start")) /\ UNCHANGED daemon

StartShot(c) ==
    /\ At(c, "shot_start")
    /\ IF shot = "absent" \/ box # "running"
       THEN Errs(c)
       ELSE /\ shot' = "running"
            /\ Proceed(c, To(c, "shot_run"))
            /\ UNCHANGED others

RunShot(c) ==
    /\ At(c, "shot_run")
    /\ shot' = IF shot = "running" THEN "exited" ELSE shot
    /\ Proceed(c, To(c, "shot_remove"))
    /\ UNCHANGED others

RemoveShot(c) ==
    /\ At(c, "shot_remove")
    /\ shot' = "absent"
    /\ during' = {}
    /\ call' = [call EXCEPT ![c] = Ended("done")]
    /\ UNCHANGED <<plan, faults, drops, doomed, others>>

-----------------------------------------------------------------------------
(* The containers by themselves.                                            *)

ContainerMoves ==
    /\ \/ /\ box = "running"
          /\ box' = "exited"
          /\ UNCHANGED <<side, shot>>
       \/ \E s \in Sidecars :
            /\ \/ /\ side[s] = "up" /\ s \in Watched
                  /\ \E h \in {"healthy", "unhealthy"} : side' = [side EXCEPT ![s] = h]
               \/ /\ side[s] \in {"up", "healthy", "unhealthy"}
                  /\ side' = [side EXCEPT ![s] = "exited"]
            /\ UNCHANGED <<box, shot>>
       \/ /\ shot = "running"
          /\ shot' = "exited"
          /\ UNCHANGED <<box, side>>
    /\ UNCHANGED <<plan, nets, net, call, faults, drops, during, doomed>>

CreateStep(c) ==
    \/ EnsureImage(c) \/ CreatePrimary(c) \/ CreateNetwork(c) \/ CreateService(c)
    \/ BootService(c) \/ AwaitHealth(c) \/ LeaveNone(c) \/ Connect(c) \/ Launch(c)
    \/ VerifyRunning(c) \/ RemoveFailed(c)

SweepStep(c) ==
    SweepList(c) \/ SweepEach(c) \/ SweepAttached(c) \/ SweepDetach(c) \/ SweepNetwork(c)

LifecycleStep(c) ==
    \/ Inspect(c) \/ ListServices(c) \/ SetService(c) \/ AwaitServices(c) \/ StartBox(c)
    \/ Unpause(c) \/ Pause(c) \/ StopBox(c) \/ ListShots(c) \/ RemoveShots(c) \/ Erase(c)

ShotStep(c) ==
    \/ PrepareShot(c) \/ CreateShot(c) \/ AttachShot(c) \/ StartShot(c) \/ RunShot(c)
    \/ RemoveShot(c)

DockerNext ==
    \/ \E c \in Callers :
         \/ BeginCreate(c)
         \/ \E op \in CallOps \ {"none", "create"} : BeginCall(c, op)
         \/ CreateStep(c) \/ SweepStep(c) \/ LifecycleStep(c) \/ ShotStep(c)
         \/ Fault(c) \/ Drop(c)
    \/ ContainerMoves

-----------------------------------------------------------------------------
(* Properties.                                                              *)

\* The sidecar network and the sidecars are only ever found through the label
\* of the primary container.  Whatever fails or is dropped, and whoever else is
\* deleting, they never outlive it: create makes the primary first, abandon and
\* remove_sandbox take it last and keep it when a sweep failed.
DependentsHavePrimary == box = "absent" => ~net /\ Labelled = {}

\* A sandbox that asked for services runs only with all of them there and on
\* their network, also when a create was dropped half way and the sandbox is
\* started later.  (Once a sweep took services away this is not so.)
RunningHasServices ==
    box = "running" /\ plan.services /\ ~doomed
      => /\ "services" \in nets
         /\ Labelled = Sidecars

\* A call ends well in this step.
Succeeds(c, op) == call[c].op = op /\ ~Quiet(c) /\ call'[c].at = "done"

\* When a stop succeeds, every one-shot container that is older than the stop
\* is gone, also one whose caller went away.
StopSweepsOneShots ==
    \A c \in Callers : Succeeds(c, "stop") => shot' = "absent" \/ c \in during

\* When a delete succeeds nothing is left at the daemon, unless a one-shot was
\* created while a delete ran: no later delete finds that one either.
DeleteLeavesNothing ==
    \A c \in Callers :
        Succeeds(c, "delete") => /\ box' = "absent" /\ ~net' /\ Labelled' = {}
                                 /\ shot' = "absent" \/ during # {}
=============================================================================
