---------------------------- MODULE DaytonaNested ----------------------------
(***************************************************************************)
(* The Docker daemon inside a Daytona VM, as one handle uses it: readiness *)
(* by generation, one-shot actions and builds as owned operations, and the *)
(* stop file of a nested command (sandbox-driver-daytona: nested/mod.rs,   *)
(* nested/operation.rs, nested/one_shot.rs, nested/exec.rs).               *)
(*                                                                         *)
(* One caller runs a one-shot and may drop it or ask to kill it; another   *)
(* starts and stops the VM through the same handle.  A command sent to the *)
(* daemon takes effect some time before its answer, or, when the call gave *)
(* up on the answer at its own timeout, some time after.                   *)
(***************************************************************************)
EXTENDS Integers

CONSTANTS MaxRestarts   \* bound on VM generations

ASSUME RestartsAssumption == MaxRestarts \in Nat

VARIABLES
    outer,      \* the VM: whether it runs, how often it started, its daemon
    generation, \* Generation, and who holds its lock
    keeper,     \* the caller of start and stop
    action,     \* the action's container at the daemon
    inflight,   \* commands the VM has not carried out yet
    stage,      \* the staged build context on the VM's disk
    oneShot,    \* the one-shot call and its owned task
    swept,      \* whether a sweep took away work of the current generation
    nestedStop    \* the stop file of a nested command and the requests for it

nestedVars == <<outer, generation, keeper, action, inflight, stage, oneShot, swept, nestedStop>>
shotVars == <<action, inflight, stage, oneShot, swept>>

ReadySteps == {"lock", "boot", "clean", "sweep", "services", "mark"}
TaskSteps == {"stage", "copy", "build", "unstage",
              "create", "created", "start", "run", "remove"}
OneShotSteps == {"idle", "ready", "image", "done"} \cup TaskSteps

NestedTypeOK ==
    /\ outer \in [up : BOOLEAN, epoch : 0..MaxRestarts, docker : BOOLEAN]
    /\ generation \in [state : {"Fresh", "Ready", "Restarted"},
                       holder : {"none", "keeper", "one_shot"}, sweep : BOOLEAN,
                       at : ReadySteps \cup {"idle"}]
    /\ keeper \in {"idle", "start", "stop", "ended", "ended_start", "ready"}
    /\ action \in {"none", "created", "running", "exited"}
    /\ inflight \subseteq {"create", "start", "stage"}
    /\ stage \in BOOLEAN
    /\ oneShot \in [at : OneShotSteps, owned : BOOLEAN, abandoned : BOOLEAN, kill : BOOLEAN,
                    killed : BOOLEAN, clean : BOOLEAN, epoch : 0..MaxRestarts,
                    result : {"ok", "error", "unconfirmed"}]
    /\ swept \in BOOLEAN
    /\ nestedStop \in [mode : {"none", "term", "kill"}, term : {"idle", "sent", "done"},
                     kill : {"idle", "sent", "done"}]

NoShot == [at |-> "idle", owned |-> FALSE, abandoned |-> FALSE, kill |-> FALSE,
           killed |-> FALSE, clean |-> TRUE, epoch |-> 0, result |-> "ok"]

NestedInit ==
    /\ outer = [up |-> TRUE, epoch |-> 0, docker |-> FALSE]
    /\ generation = [state |-> "Fresh", holder |-> "none", sweep |-> FALSE, at |-> "idle"]
    /\ keeper = "idle"
    /\ action = "none"
    /\ inflight = {}
    /\ stage = FALSE
    /\ oneShot = NoShot
    /\ swept = FALSE
    /\ nestedStop = [mode |-> "none", term |-> "idle", kill |-> "idle"]

(***************************************************************************)
(* Readiness.  Whoever holds the lock walks the steps.                     *)
(***************************************************************************)
ensure_ready(who) ==
    /\ generation.holder = "none"
    /\ \/ who = "one_shot" /\ oneShot.at = "ready"
       \/ who = "keeper" /\ keeper = "ready"
    /\ IF generation.state = "Ready"
       THEN /\ oneShot' = IF who = "one_shot" THEN [oneShot EXCEPT !.at = "image"] ELSE oneShot
            /\ keeper' = IF who = "keeper" THEN "idle" ELSE keeper
            /\ UNCHANGED generation
       ELSE /\ generation' = [generation EXCEPT !.holder = who, !.at = "boot",
                                                !.sweep = generation.state = "Restarted"]
            /\ UNCHANGED <<oneShot, keeper>>
    /\ UNCHANGED <<outer, action, inflight, stage, swept, nestedStop>>

ReadyAt(step) == generation.holder # "none" /\ generation.at = step

\* A readiness pass ends: with the mark, or with an error of one of its steps.
LeaveReady(mark) ==
    /\ generation' = [generation EXCEPT !.holder = "none", !.at = "idle",
                                        !.state = IF mark THEN "Ready" ELSE @]
    /\ keeper' = IF generation.holder = "keeper" THEN "idle" ELSE keeper
    /\ oneShot' = IF generation.holder = "one_shot"
                  THEN [oneShot EXCEPT !.at = IF mark THEN "image" ELSE "done"] ELSE oneShot

bootstrap ==
    /\ ReadyAt("boot")
    /\ IF outer.up
       THEN /\ outer' = [outer EXCEPT !.docker = TRUE]
            /\ generation' = [generation EXCEPT !.at = IF @ = "boot" /\ generation.sweep
                                                       THEN "clean" ELSE "services"]
            /\ UNCHANGED <<keeper, oneShot>>
       ELSE LeaveReady(FALSE) /\ UNCHANGED outer
    /\ UNCHANGED <<action, inflight, stage, swept, nestedStop>>

Current == oneShot.owned /\ oneShot.epoch = outer.epoch

clean_stale_preparation ==
    /\ ReadyAt("clean")
    /\ IF outer.up
       THEN /\ stage' = FALSE
            /\ swept' = (swept \/ (stage /\ Current))
            /\ generation' = [generation EXCEPT !.at = "sweep"]
            /\ UNCHANGED <<keeper, oneShot>>
       ELSE LeaveReady(FALSE) /\ UNCHANGED <<stage, swept>>
    /\ UNCHANGED <<outer, action, inflight, nestedStop>>

\* recover_vm_target, and the first half of recover_container_target.
recover_target ==
    /\ ReadyAt("sweep")
    /\ IF outer.up
       THEN /\ action' = "none"
            /\ swept' = (swept \/ (action # "none" /\ Current))
            /\ generation' = [generation EXCEPT !.at = "services"]
            /\ UNCHANGED <<keeper, oneShot>>
       ELSE LeaveReady(FALSE) /\ UNCHANGED <<action, swept>>
    /\ UNCHANGED <<outer, inflight, stage, nestedStop>>

\* Services, the primary container and its runtime directory come up, or not.
restart_services ==
    /\ ReadyAt("services")
    /\ \/ outer.up /\ LeaveReady(TRUE)
       \/ LeaveReady(FALSE)
    /\ UNCHANGED <<outer, action, inflight, stage, swept, nestedStop>>

(***************************************************************************)
(* Start and stop of the VM.                                               *)
(***************************************************************************)
KeeperBegins ==
    /\ keeper = "idle"
    /\ keeper' \in {"start", "stop"}
    /\ UNCHANGED <<outer, generation, shotVars, nestedStop>>

\* The VM halts: its containers and its daemon with it, its disk stays.
Halted ==
    /\ outer' = [outer EXCEPT !.up = FALSE, !.docker = FALSE]
    /\ action' = IF action = "running" THEN "exited" ELSE action
    /\ inflight' = {}

StartVm ==
    /\ keeper = "start"
    /\ \/ /\ outer.up
          /\ UNCHANGED outer
       \/ /\ ~outer.up
          /\ outer.epoch < MaxRestarts
          /\ outer' = [outer EXCEPT !.up = TRUE, !.epoch = @ + 1]
    /\ keeper' = "ended_start"
    /\ UNCHANGED <<generation, shotVars, nestedStop>>

StopVm ==
    /\ keeper = "stop"
    /\ Halted
    /\ keeper' = "ended"
    /\ UNCHANGED <<generation, stage, oneShot, swept, nestedStop>>

\* The auto-stop timer, or a stop through another handle.
VmStopsItself ==
    /\ outer.up
    /\ Halted
    /\ UNCHANGED <<generation, keeper, stage, oneShot, swept, nestedStop>>

stopped ==
    /\ keeper \in {"ended", "ended_start"}
    /\ generation.holder = "none"
    /\ generation' = [generation EXCEPT !.state = "Restarted"]
    /\ keeper' = IF keeper = "ended" THEN "idle" ELSE "ready"
    /\ UNCHANGED <<outer, shotVars, nestedStop>>

(***************************************************************************)
(* A one-shot action: a build, then the action's container.                *)
(***************************************************************************)
\* Names are drawn anew: the next one-shot is followed once nothing of the last is left.
OneShotBegins ==
    /\ oneShot.at \in {"idle", "done"} /\ oneShot.clean
    /\ inflight = {} /\ action = "none" /\ ~stage
    /\ oneShot' = [NoShot EXCEPT !.at = "ready"]
    /\ UNCHANGED <<outer, generation, keeper, action, inflight, stage, swept, nestedStop>>

BuildSteps == {"stage", "copy", "build", "unstage"}

\* Abandonment that cancels the task's token and kills nothing.
AbandonOnly(abandoned) ==
    IF oneShot.owned
    THEN /\ oneShot' = [oneShot EXCEPT !.abandoned = TRUE]
         /\ UNCHANGED generation
    ELSE /\ oneShot' = [oneShot EXCEPT !.at = "done"]
         /\ generation' = IF generation.holder = "one_shot"
                          THEN [generation EXCEPT !.holder = "none", !.at = "idle"]
                          ELSE generation

\* The caller drops its future or fires its kill token.  An owned task lives
\* on with its token cancelled; a readiness pass dies with its lock.
OneShotStops(abandoned) ==
    IF oneShot.owned
    THEN /\ oneShot' = [oneShot EXCEPT !.abandoned = abandoned \/ oneShot.at \in BuildSteps,
                                       !.kill = TRUE]
         /\ UNCHANGED generation
    ELSE /\ oneShot' = [oneShot EXCEPT !.at = "done"]
         /\ generation' = IF generation.holder = "one_shot"
                          THEN [generation EXCEPT !.holder = "none", !.at = "idle"]
                          ELSE generation

CallerStops ==
    /\ oneShot.at \notin {"idle", "done"} /\ ~oneShot.kill
    /\ \E abandoned \in BOOLEAN : OneShotStops(abandoned)
    /\ UNCHANGED <<outer, keeper, action, inflight, stage, swept, nestedStop>>

ShotTo(at) == oneShot' = [oneShot EXCEPT !.at = at]

\* A registry image, an image built before, or a build in an owned task.
prepare_action_image ==
    /\ oneShot.at = "image"
    /\ \/ outer.up /\ oneShot' = [oneShot EXCEPT !.at = "stage", !.owned = TRUE,
                                                 !.epoch = outer.epoch]
       \/ outer.up /\ oneShot' = [oneShot EXCEPT !.at = "create", !.owned = TRUE,
                                                 !.epoch = outer.epoch]
       \/ ShotTo("done")
    /\ UNCHANGED <<outer, generation, keeper, action, inflight, stage, swept, nestedStop>>

\* A step of the task fails: the operation's error, and its clean-up next.
ShotFails(to) == oneShot' = [oneShot EXCEPT !.at = to, !.result = "error"]

\* A command ran into its own timeout or lost its transport: the task goes on
\* to its clean-up with the error, while the VM may still carry it out.
GivesUp(command, to) ==
    /\ inflight' = inflight \cup {command}
    /\ oneShot' = [oneShot EXCEPT !.at = to, !.result = "unconfirmed"]

Build ==
    /\ \/ oneShot.at = "stage" /\ outer.up /\ stage' = TRUE /\ ShotTo("copy")
          /\ UNCHANGED inflight
       \/ oneShot.at = "copy" /\ outer.up /\ stage /\ ~oneShot.abandoned
          /\ ShotTo("build") /\ UNCHANGED <<stage, inflight>>
       \/ oneShot.at = "build" /\ outer.up /\ ~oneShot.abandoned
          /\ ShotTo("unstage") /\ UNCHANGED <<stage, inflight>>
       \/ oneShot.at \in {"stage", "copy", "build"}
          /\ ShotFails("unstage") /\ UNCHANGED <<stage, inflight>>
       \/ oneShot.at \in {"stage", "copy"} /\ outer.up
          /\ GivesUp("stage", "unstage") /\ UNCHANGED stage
    /\ UNCHANGED <<outer, generation, keeper, action, swept, nestedStop>>

\* run_owned's cleanup of the build: a failed one is the operation's error.
\* The action is created behind a build that succeeded and was not stopped.
Unstage ==
    /\ oneShot.at = "unstage"
    /\ LET goOn == oneShot.result = "ok" /\ ~oneShot.kill IN
       \/ /\ outer.up
          /\ stage' = FALSE
          /\ oneShot' = [oneShot EXCEPT !.at = IF goOn THEN "create" ELSE "done", !.owned = goOn]
       \/ /\ UNCHANGED stage
          /\ oneShot' = [oneShot EXCEPT !.at = "done", !.owned = FALSE, !.clean = FALSE]
    /\ UNCHANGED <<outer, generation, keeper, action, inflight, swept, nestedStop>>

CreateAction ==
    /\ oneShot.at = "create"
    /\ inflight' = inflight \cup {"create"}
    /\ ShotTo("created")
    /\ UNCHANGED <<outer, generation, keeper, action, stage, swept, nestedStop>>

\* Dropping the owner aborts its task at once.
AnswerOrAbort ==
    /\ oneShot.at = "created"
    /\ "create" \notin inflight \/ oneShot.abandoned
    /\ UNCHANGED inflight
    /\ ShotTo(IF oneShot.kill \/ action = "none" THEN "remove" ELSE "start")
    /\ UNCHANGED <<outer, generation, keeper, action, stage, swept, nestedStop>>

\* The answer to the create: stopped meanwhile, failed, or go; or START_TIMEOUT
\* passes, or the transport fails, with the create still at the daemon.
CreateAnswered ==
    /\ oneShot.at = "created"
    /\ \/ "create" \notin inflight /\ action = "none" /\ ShotFails("remove") /\ UNCHANGED inflight
       \/ "create" \notin inflight /\ action # "none" /\ UNCHANGED inflight
          /\ ShotTo(IF oneShot.kill THEN "remove" ELSE "start")
       \/ "create" \in inflight /\ GivesUp("create", "remove")
    /\ UNCHANGED <<outer, generation, keeper, action, stage, swept, nestedStop>>

StartAction ==
    /\ oneShot.at = "start"
    /\ inflight' = inflight \cup {"start"}
    /\ ShotTo("run")
    /\ UNCHANGED <<outer, generation, keeper, action, stage, swept, nestedStop>>

\* A kill that takes a container which is not running for a finished one.
SignalLeavesCreated ==
    /\ oneShot.at = "run" /\ oneShot.kill /\ ~oneShot.killed /\ outer.up
    /\ action' = IF action = "running" THEN "exited" ELSE action
    /\ oneShot' = [oneShot EXCEPT !.killed = TRUE]
    /\ UNCHANGED <<outer, generation, keeper, inflight, stage, swept, nestedStop>>

signal_action ==
    /\ oneShot.at = "run" /\ oneShot.kill /\ ~oneShot.killed /\ outer.up
    /\ action' = IF action = "running" THEN "exited" ELSE "none"
    /\ oneShot' = [oneShot EXCEPT !.killed = TRUE]
    /\ UNCHANGED <<outer, generation, keeper, inflight, stage, swept, nestedStop>>

\* The kill itself fails: the race ends with its error.
SignalFails ==
    /\ oneShot.at = "run" /\ oneShot.kill /\ ~oneShot.killed
    /\ ShotFails("remove")
    /\ UNCHANGED <<outer, generation, keeper, action, inflight, stage, swept, nestedStop>>

\* The attached start ends with the container,
ActionEnds ==
    /\ oneShot.at = "run"
    /\ "start" \notin inflight
    /\ action # "running" \/ oneShot.killed
    /\ ShotTo("remove")
    /\ UNCHANGED <<outer, generation, keeper, action, inflight, stage, swept, nestedStop>>

\* or its transport breaks, whether or not the daemon has seen the start.
AttachBreaks ==
    /\ oneShot.at = "run"
    /\ ShotFails("remove")
    /\ UNCHANGED <<outer, generation, keeper, action, inflight, stage, swept, nestedStop>>

\* `docker rm --force`, for which a container not there yet is removed; or it
\* fails, or CLEANUP_TIMEOUT passes.
RemoveAction ==
    /\ oneShot.at = "remove"
    /\ \/ /\ outer.up
          /\ action' = "none"
          /\ oneShot' = [oneShot EXCEPT !.at = "done", !.owned = FALSE]
       \/ /\ UNCHANGED action
          /\ oneShot' = [oneShot EXCEPT !.at = "done", !.owned = FALSE, !.clean = FALSE]
    /\ UNCHANGED <<outer, generation, keeper, inflight, stage, swept, nestedStop>>

\* The VM carries out what it was sent: a copy that was given up may make the
\* stage again.  Without a VM a command fails.
DaemonActs ==
    /\ \/ /\ "create" \in inflight
          /\ inflight' = inflight \ {"create"}
          /\ action' \in IF outer.up THEN {"created", action} ELSE {action}
          /\ UNCHANGED stage
       \/ /\ "start" \in inflight
          /\ inflight' = inflight \ {"start"}
          /\ action' = IF outer.up /\ action = "created" THEN "running" ELSE action
          /\ UNCHANGED stage
       \/ /\ "stage" \in inflight
          /\ inflight' = inflight \ {"stage"}
          /\ stage' \in IF outer.up THEN {stage, TRUE} ELSE {stage}
          /\ UNCHANGED action
    /\ UNCHANGED <<outer, generation, keeper, oneShot, swept, nestedStop>>

ActionExits ==
    /\ action = "running"
    /\ action' = "exited"
    /\ UNCHANGED <<outer, generation, keeper, inflight, stage, oneShot, swept, nestedStop>>

(***************************************************************************)
(* The stop file of a nested command: TERM links, KILL renames over.       *)
(***************************************************************************)
StopRequested ==
    /\ \/ nestedStop.term = "idle" /\ nestedStop' = [nestedStop EXCEPT !.term = "sent"]
       \/ nestedStop.kill = "idle" /\ nestedStop' = [nestedStop EXCEPT !.kill = "sent"]
    /\ UNCHANGED <<outer, generation, keeper, shotVars>>

TermRenames ==
    /\ nestedStop.term = "sent"
    /\ nestedStop' = [nestedStop EXCEPT !.mode = "term", !.term = "done"]
    /\ UNCHANGED <<outer, generation, keeper, shotVars>>

TermLinks ==
    /\ nestedStop.term = "sent"
    /\ nestedStop' = [nestedStop EXCEPT !.mode = IF @ = "none" THEN "term" ELSE @, !.term = "done"]
    /\ UNCHANGED <<outer, generation, keeper, shotVars>>

KillRenames ==
    /\ nestedStop.kill = "sent"
    /\ nestedStop' = [nestedStop EXCEPT !.mode = "kill", !.kill = "done"]
    /\ UNCHANGED <<outer, generation, keeper, shotVars>>

ReadyStep ==
    \/ ensure_ready("one_shot") \/ ensure_ready("keeper")
    \/ bootstrap \/ clean_stale_preparation \/ recover_target \/ restart_services
TaskStep ==
    \/ Build \/ Unstage \/ CreateAction \/ CreateAnswered \/ StartAction
    \/ signal_action \/ SignalFails \/ ActionEnds \/ RemoveAction

NestedNext ==
    \/ ReadyStep
    \/ KeeperBegins \/ StartVm \/ StopVm \/ VmStopsItself \/ stopped
    \/ OneShotBegins \/ CallerStops \/ prepare_action_image \/ TaskStep \/ DaemonActs
    \/ AttachBreaks \/ ActionExits
StopFileNext == StopRequested \/ TermLinks \/ KillRenames

(***************************************************************************)
(* Properties.                                                             *)
(***************************************************************************)
\* An owned operation outlives its caller and cleans up: dropping or killing it
\* never lets go of a command the daemon accepted, so once it has ended, and
\* its clean-up did not fail, no container, no staged context and no command
\* that could still make one is left, whoever dropped what and when
\* (run_owned).  The exception is a create or copy the operation itself gave
\* up on at its timeout or transport error (Action::run), which its error
\* tells of: that container may appear behind the clean-up, but never runs.
OwnedWorkIsCleaned ==
    oneShot.at = "done" /\ oneShot.clean =>
      /\ action \in {"none", "created"}
      /\ oneShot.result # "unconfirmed" =>
           action = "none" /\ ~stage /\ inflight \cap {"create", "stage"} = {}

\* Once a kill was answered the action does not run, also when its start
\* reaches the daemon after the kill (signal_action removes a container that
\* is not running), and a late TERM never takes back the KILL in a nested
\* command's stop file (stop_script).
KilledStaysKilled ==
    /\ oneShot.killed => action # "running"
    /\ nestedStop.kill = "done" => nestedStop.mode = "kill"

\* An operation whose caller went away owes its end: its task is not aborted, and the daemon
\* answers or the VM is gone (OwnedOperation's drop).
AbandonedIsOwed == oneShot.abandoned /\ oneShot.owned
=============================================================================
