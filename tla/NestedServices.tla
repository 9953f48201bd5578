--------------------------- MODULE NestedServices ---------------------------
(***************************************************************************)
(* The workspace container and its services on the Docker daemon inside a  *)
(* Daytona VM (sandbox-driver-daytona: nested/mod.rs).  create builds them *)
(* in a fixed order through one handle; every call of a facet, through any *)
(* handle of the same VM, first runs ensure_ready, which brings up what    *)
(* create built after the VM came back.  Each handle serializes its own    *)
(* passes with a lock and remembers the generation it made ready; handles  *)
(* share nothing but the daemon.                                           *)
(*                                                                         *)
(* A pass is the list of the steps it still has to take, each one command  *)
(* on the VM.  A command fails when the VM or its daemon is down, and any  *)
(* command may fail.                                                       *)
(***************************************************************************)
EXTENDS Naturals, SequencesExt

CONSTANTS
    NestedHandles,  \* handles of the sandbox; one of them creates it
    Creator,        \* the handle create builds
    Services,       \* the services a create may ask for, in order
    Checked,        \* those of them with a health check
    MaxBoots        \* bound on starts of the VM

ASSUME NestedAssumption ==
    /\ Creator \in NestedHandles
    /\ Services \in Seq(ToSet(Services)) /\ "primary" \notin ToSet(Services)
    /\ MaxBoots \in Nat \ {0}

VARIABLES
    target,     \* DockerExecutionTarget
    wanted,     \* config.options.sidecars
    machine,    \* the VM: running, how often it booted, its daemon
    primaryBox,  \* the primary container: created, its network, the boot it was last started in
    network,    \* whether the services' network exists
    service,    \* each service's container
    logins,     \* registry logins on the VM's disk, by image
    nestedHandle,     \* each handle: its Generation, the pass it runs and the generation it began in;
                      \* whether one ended it has yet to note, and the last one it was told of
    created     \* create: "no", "running", "ok", "failed" or "dropped"

nestedServiceVars == <<target, wanted, machine, primaryBox, network, service, logins, nestedHandle, created>>
innerVars == <<primaryBox, network, service, logins>>

Primary == "primary"
Never == 0                      \* not started in any boot; boots count from 1

\* The commands of a pass.
Commands ==
    [do : {"boot", "clean", "sweep", "inspect", "login", "pull", "logout", "create", "network",
           "disconnect", "connect", "start", "directory"}, on : {Primary}]
    \cup [do : {"login", "pull", "logout", "create", "start", "health"}, on : ToSet(Services)]

NestedServicesTypeOK ==
    /\ target \in {"Container", "VirtualMachine"}
    /\ wanted \in {<<>>, Services}
    /\ machine \in [up : BOOLEAN, boot : 1..MaxBoots, docker : BOOLEAN]
    /\ primaryBox \in [made : BOOLEAN, net : {"none", "off", "bridge", "services"},
                       ran : 0..MaxBoots]
    /\ network \in BOOLEAN
    /\ service \in [ToSet(Services) -> [made : BOOLEAN, ran : 0..MaxBoots,
                                        health : {"starting", "healthy", "unhealthy"}]]
    /\ logins \subseteq ToSet(Services) \cup {Primary}
    /\ nestedHandle \in [NestedHandles ->
         [state : {"Fresh", "Ready", "Restarted"}, pass : {"idle", "create", "ready"},
          steps : Seq(Commands), began : 0..MaxBoots, ended : BOOLEAN, told : 0..MaxBoots]]
    /\ created \in {"no", "running", "ok", "failed", "dropped"}

NestedServicesInit ==
    /\ target \in {"Container", "VirtualMachine"}
    /\ wanted \in IF target = "Container" THEN {<<>>, Services} ELSE {<<>>}   \* nested::validate
    /\ machine = [up |-> TRUE, boot |-> 1, docker |-> FALSE]
    /\ primaryBox = [made |-> FALSE, net |-> "none", ran |-> Never]
    /\ network = FALSE
    /\ service = [s \in ToSet(Services) |-> [made |-> FALSE, ran |-> Never, health |-> "starting"]]
    /\ logins = {}
    /\ nestedHandle = [h \in NestedHandles |-> [state |-> "Fresh", pass |-> "idle", steps |-> <<>>,
                                          began |-> 0, ended |-> FALSE, told |-> 0]]
    /\ created = "no"

-----------------------------------------------------------------------------
Cmd(do, on) == [do |-> do, on |-> on]
OnEach(do, list) == [i \in 1..Len(list) |-> Cmd(do, list[i])]

\* DockerCli::pull, of an image that is not there yet.
pull(on) == <<Cmd("login", on), Cmd("pull", on), Cmd("logout", on)>>

\* A service: its image, its container on the network, its start.
AddService(s) == pull(s) \o <<Cmd("create", s), Cmd("start", s)>>
\* One service after the other, five commands each.
ServicesAdded ==
    [i \in 1..(5 * Len(wanted)) |-> AddService(wanted[(i + 4) \div 5])[1 + ((i + 4) % 5)]]

\* A wait for each; the one for a service without a health check is over at once.
HealthOf(list) == OnEach("health", list)

\* The services exist, run and are healthy before the primary joins their network.
ServiceSteps ==
    <<Cmd("network", Primary)>> \o ServicesAdded \o HealthOf(wanted)
    \o <<Cmd("disconnect", Primary), Cmd("connect", Primary)>>

\* NestedDocker::create, after the lock.
NestedCreateSteps ==
    <<Cmd("boot", Primary), Cmd("clean", Primary)>> \o pull(Primary)
    \o <<Cmd("create", Primary)>>
    \o (IF Len(wanted) > 0 THEN ServiceSteps ELSE <<>>)
    \o <<Cmd("start", Primary), Cmd("directory", Primary)>>

\* ensure_ready, up to what the inspection of the primary adds.
ReadySteps(sweep) ==
    <<Cmd("boot", Primary)>>
    \o (IF sweep THEN <<Cmd("clean", Primary), Cmd("sweep", Primary)>> ELSE <<>>)
    \o (IF target = "Container" THEN <<Cmd("inspect", Primary)>> ELSE <<>>)

\* recover_container_target, after the inspection; restart_services lists what is there, in
\* the daemon's order.
Found == SetToSeqs({s \in ToSet(wanted) : service[s].made})
RecoverSteps(found) ==
    (IF Len(wanted) > 0 THEN OnEach("start", found) \o HealthOf(found) ELSE <<>>)
    \o <<Cmd("start", Primary), Cmd("directory", Primary)>>

-----------------------------------------------------------------------------
\* The VM's generation: the boot it runs, or the next one once it stopped.
VmGeneration == IF machine.up THEN machine.boot ELSE machine.boot + 1

Begins(h, pass, steps) ==
    nestedHandle' = [nestedHandle EXCEPT ![h].pass = pass, ![h].steps = steps, ![h].began = VmGeneration]

\* finish_create: a handle is built and create runs through it, once.
create ==
    /\ created = "no" /\ nestedHandle[Creator].pass = "idle"
    /\ IF target = "Container"
       THEN created' = "running" /\ Begins(Creator, "create", NestedCreateSteps)
       ELSE created' = "ok" /\ UNCHANGED nestedHandle
    /\ UNCHANGED <<target, wanted, machine, innerVars>>

\* Any facet's call, or start: ready already, or a pass under the handle's lock.
ensure_ready(h) ==
    /\ h # Creator \/ created \in {"ok", "failed", "dropped"}
    /\ nestedHandle[h].pass = "idle" /\ nestedHandle[h].state # "Ready" /\ ~nestedHandle[h].ended
    /\ Begins(h, "ready", ReadySteps(nestedHandle[h].state = "Restarted"))
    /\ UNCHANGED <<target, wanted, machine, innerVars, created>>

NextCmd(h) == Head(nestedHandle[h].steps)
Busy(h) == nestedHandle[h].pass # "idle" /\ nestedHandle[h].steps # <<>>
Advance(h) == nestedHandle' = [nestedHandle EXCEPT ![h].steps = Tail(@)]

\* What a step needs and does.
Reachable(c) == machine.up /\ (c.do \in {"boot", "clean", "logout"} \/ machine.docker)

\* await_health: no health check, or healthy.
await_health(s) == s \notin Checked \/ service[s].health = "healthy"

Started(c) ==
    IF c.on = Primary
    THEN /\ primaryBox.made
         /\ primaryBox' = [primaryBox EXCEPT !.ran = machine.boot] /\ UNCHANGED service
    ELSE /\ service[c.on].made
         /\ service' = [service EXCEPT ![c.on].ran = machine.boot,
                           ![c.on].health = IF service[c.on].ran = machine.boot THEN @ ELSE "starting"]
         /\ UNCHANGED primaryBox

\* docker create and docker network create refuse a name that exists.
primary_args ==
    /\ ~primaryBox.made
    /\ primaryBox' = [made |-> TRUE, net |-> IF Len(wanted) > 0 THEN "none" ELSE "bridge",
                     ran |-> Never]
sidecar_args(s) ==
    /\ network /\ ~service[s].made
    /\ service' = [service EXCEPT ![s] = [made |-> TRUE, ran |-> Never, health |-> "starting"]]

TakesStep(c) ==
    CASE c.do = "create" /\ c.on = Primary -> primary_args /\ UNCHANGED <<network, service, logins>>
      [] c.do = "create" /\ c.on # Primary -> sidecar_args(c.on)
                                              /\ UNCHANGED <<primaryBox, network, logins>>
      [] c.do = "network" -> ~network /\ network' = TRUE
                             /\ UNCHANGED <<primaryBox, service, logins>>
      [] c.do = "start" -> Started(c) /\ UNCHANGED <<network, logins>>
      [] c.do = "health" -> await_health(c.on) /\ UNCHANGED innerVars
      [] c.do = "disconnect" -> primaryBox' = [primaryBox EXCEPT !.net = "off"]
                                /\ UNCHANGED <<network, service, logins>>
      [] c.do = "connect" -> primaryBox' = [primaryBox EXCEPT !.net = "services"]
                             /\ UNCHANGED <<network, service, logins>>
      [] c.do = "login" -> logins' = logins \cup {c.on} /\ UNCHANGED <<primaryBox, network, service>>
      [] c.do = "logout" -> logins' = logins \ {c.on} /\ UNCHANGED <<primaryBox, network, service>>
      [] c.do = "clean" -> logins' = {} /\ UNCHANGED <<primaryBox, network, service>>
      [] c.do = "directory" -> primaryBox.ran = machine.boot /\ UNCHANGED innerVars
      [] c.do \in {"boot", "pull", "sweep"} -> UNCHANGED innerVars

StepTaken(h) ==
    /\ Busy(h) /\ Reachable(NextCmd(h)) /\ NextCmd(h).do # "inspect"
    /\ TakesStep(NextCmd(h))
    /\ machine' = IF NextCmd(h).do = "boot" THEN [machine EXCEPT !.docker = TRUE] ELSE machine
    /\ Advance(h)
    /\ UNCHANGED <<target, wanted, created>>

\* The image is there: nothing to pull.
image_present(h) ==
    /\ Busy(h) /\ NextCmd(h).do = "login" /\ Reachable(NextCmd(h))
    /\ nestedHandle' = [nestedHandle EXCEPT ![h].steps = SubSeq(@, 4, Len(@))]
    /\ UNCHANGED <<target, wanted, machine, innerVars, created>>

\* The primary's labels ask for the network it is not on: the allocation did not complete.
recover_container_target(h) ==
    /\ Busy(h) /\ Reachable(NextCmd(h)) /\ NextCmd(h).do = "inspect"
    /\ primaryBox.made /\ (Len(wanted) = 0 \/ primaryBox.net = "services")
    /\ \E found \in Found :
         nestedHandle' = [nestedHandle EXCEPT ![h].steps = RecoverSteps(found)]
    /\ UNCHANGED <<target, wanted, machine, innerVars, created>>

\* A step fails and the pass with it; a pull takes its login back where it can.
PassFails(h) ==
    /\ Busy(h)
    /\ nestedHandle' = [nestedHandle EXCEPT ![h].pass = "idle", ![h].steps = <<>>]
    /\ logins' = IF NextCmd(h).do \in {"login", "pull"} /\ machine.up
                 THEN logins \ {NextCmd(h).on} ELSE logins
    /\ created' = IF nestedHandle[h].pass = "create" THEN "failed" ELSE created
    /\ UNCHANGED <<target, wanted, machine, primaryBox, network, service>>

\* The last step: the generation is ready.
PassEnds(h) ==
    /\ nestedHandle[h].pass # "idle" /\ nestedHandle[h].steps = <<>>
    /\ nestedHandle' = [nestedHandle EXCEPT ![h].pass = "idle", ![h].state = "Ready"]
    /\ created' = IF nestedHandle[h].pass = "create" THEN "ok" ELSE created
    /\ UNCHANGED <<target, wanted, machine, innerVars>>

\* The caller drops the call: the lock goes; a pull's owned task still cleans up.
PassDropped(h) ==
    /\ nestedHandle[h].pass # "idle"
    /\ nestedHandle' = [nestedHandle EXCEPT ![h].pass = "idle", ![h].steps = <<>>]
    /\ created' = IF nestedHandle[h].pass = "create" THEN "dropped" ELSE created
    /\ UNCHANGED <<target, wanted, machine, innerVars>>

Pulling(i) == \E h \in NestedHandles :
    Busy(h) /\ NextCmd(h).on = i /\ NextCmd(h).do \in {"pull", "logout"}
OwnedCleanup ==
    /\ machine.up
    /\ \E i \in logins : ~Pulling(i) /\ logins' = logins \ {i}
    /\ UNCHANGED <<target, wanted, machine, primaryBox, network, service, nestedHandle, created>>

-----------------------------------------------------------------------------
\* A service's own health, as the daemon sees it.
HealthReported(s) ==
    /\ machine.up /\ machine.docker /\ service[s].ran = machine.boot
    /\ service[s].health = "starting"
    /\ service' = [service EXCEPT ![s].health = IF s \in Checked THEN "healthy" ELSE @]
                  \/ service' = [service EXCEPT ![s].health = "unhealthy"]
    /\ UNCHANGED <<target, wanted, machine, primaryBox, network, logins, nestedHandle, created>>

\* stop through a handle, or the service's auto-stop: containers end with the VM.
VmStops ==
    /\ machine.up /\ machine.boot < MaxBoots
    /\ machine' = [machine EXCEPT !.up = FALSE, !.docker = FALSE]
    /\ \E ends \in {{}} \cup {{h} : h \in NestedHandles} :
         nestedHandle' = [h \in NestedHandles |->
             IF h \in ends THEN [nestedHandle[h] EXCEPT !.ended = TRUE, !.told = machine.boot + 1]
             ELSE nestedHandle[h]]
    /\ UNCHANGED <<target, wanted, innerVars, created>>

\* start_with_docker through a handle.
VmStarts(h) ==
    /\ ~machine.up
    /\ machine' = [machine EXCEPT !.up = TRUE, !.boot = @ + 1]
    /\ nestedHandle' = [nestedHandle EXCEPT ![h].ended = TRUE, ![h].told = machine.boot + 1]
    /\ UNCHANGED <<target, wanted, innerVars, created>>

\* A changed form of stopped: the handle stays Ready over the end it was told of.
StoppedKeepsReady(h) ==
    /\ nestedHandle[h].ended /\ nestedHandle[h].pass = "idle"
    /\ nestedHandle' = [nestedHandle EXCEPT ![h].ended = FALSE]
    /\ UNCHANGED <<target, wanted, machine, innerVars, created>>

\* vm_generation_ended, under the handle's lock.
stopped(h) ==
    /\ nestedHandle[h].ended /\ nestedHandle[h].pass = "idle"
    /\ nestedHandle' = [nestedHandle EXCEPT ![h].state = "Restarted", ![h].ended = FALSE]
    /\ UNCHANGED <<target, wanted, machine, innerVars, created>>

NestedServicesNext ==
    \/ create \/ OwnedCleanup \/ VmStops
    \/ \E s \in ToSet(wanted) : HealthReported(s)
    \/ \E h \in NestedHandles :
         \/ ensure_ready(h) \/ StepTaken(h) \/ image_present(h) \/ recover_container_target(h)
         \/ PassFails(h) \/ PassEnds(h) \/ PassDropped(h) \/ VmStarts(h) \/ stopped(h)

-----------------------------------------------------------------------------
\* Started in generation n or a later one, and, in n itself, past its health check's start.
UpSince(n, s) ==
    /\ service[s].made /\ service[s].ran >= n
    /\ s \in Checked => service[s].ran > n \/ service[s].health # "starting"

\* What Ready stands for, of any handle, however stale: the sandbox is whole, its primary on
\* the services' network, and everything was brought up in the generation the handle's pass
\* began in or a later one, the checked services reported on; and that generation is none the
\* handle itself was told had ended, once it noted so.  A create cut short, restarts between
\* the steps of a pass and other handles' passes leave it so.  It is not the VM's present
\* generation when another handle, or auto-stop, restarted the VM: this handle was not told.
ReadyHasServices ==
    \A h \in NestedHandles : LET k == nestedHandle[h] IN
      target = "Container" /\ k.state = "Ready" =>
        /\ primaryBox.made /\ primaryBox.ran >= k.began
        /\ Len(wanted) > 0 => primaryBox.net = "services"
        /\ \A s \in ToSet(wanted) : UpSince(k.began, s)
        /\ ~k.ended => k.began >= k.told

\* A create that succeeded left no registry login on the VM.
CreateLeavesNoLogin == created = "ok" => logins = {}
=============================================================================
