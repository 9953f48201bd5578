--------------------------- MODULE DaytonaSandbox ---------------------------
(***************************************************************************)
(* One Daytona sandbox, snapshot and volume, and the calls that create,    *)
(* start, stop, delete and change them (sandbox-driver-daytona:            *)
(* provider.rs, sandbox.rs, cleanup.rs, snapshots.rs, volumes.rs, sdk.rs). *)
(*                                                                         *)
(* The service moves through states of its own and refuses a request while *)
(* a change is in progress.  A request can be refused for another reason,  *)
(* or be carried out and its answer lost, MaxApiErrors times in all.  Every*)
(* budget of the code may run out wherever the code looks at its clock.    *)
(***************************************************************************)
EXTENDS Integers

CONSTANTS
    ApiClients,       \* concurrent callers
    MaxApiErrors   \* bound on refused requests and lost answers

ASSUME ApiErrorsAssumption == MaxApiErrors \in Nat

VARIABLES
    vm,         \* the sandbox, as the service reports it
    child,      \* a fork of it
    image,      \* the snapshot, and whether its data was ever written
    volume,     \* a volume
    request,    \* each caller's call
    apiErrors,  \* requests refused and answers lost so far
    revived     \* whether an undelete ever succeeded

daytonaVars == <<vm, child, image, volume, request, apiErrors, revived>>

\* The service's sandbox states; `gone` is one it no longer knows.
VmStates == {"absent", "creating", "starting", "started", "snapshotting", "stopping", "stopped",
             "pausing", "paused", "archiving", "archived", "destroying", "destroyed", "error",
             "gone"}

map_state(s) ==
    CASE s = "creating" -> "Creating"
      [] s = "starting" -> "Starting"
      [] s \in {"started", "snapshotting"} -> "Running"
      [] s = "stopping" -> "Stopping"
      [] s = "stopped" -> "Stopped"
      [] s = "pausing" -> "Pausing"
      [] s = "paused" -> "Paused"
      [] s = "archiving" -> "Archiving"
      [] s = "archived" -> "Archived"
      [] s = "destroying" -> "Deleting"
      [] s \in {"destroyed", "gone", "absent"} -> "Deleted"
      [] s = "error" -> "Error"

is_stable(state) == state \in {"Running", "Stopped", "Paused", "Archived", "Deleted", "Error"}

IsNotFound == vm \in {"absent", "gone"}
InProgress == vm \in {"creating", "starting", "snapshotting", "stopping", "pausing", "archiving",
                      "destroying"}

map_snapshot_state(s) ==
    CASE s \in {"building", "snapshotting"} -> "Building"
      [] s = "active" -> "Active"
      [] s \in {"inactive", "deactivating"} -> "Inactive"
      [] s \in {"error", "build_failed"} -> "Error"
      [] s = "removing" -> "Deleting"

map_volume_state(s) ==
    CASE s = "creating" -> "Creating"
      [] s = "ready" -> "Ready"
      [] s = "deleting" -> "Deleting"
      [] s = "deleted" -> "Deleted"
      [] s = "error" -> "Error"

\* A snapshot of a sandbox is `pending` until its record appears.
ImageStates == {"absent", "pending", "building", "snapshotting", "active", "inactive", "deactivating",
                "build_failed", "removing"}
Visible == image.state \notin {"absent", "pending"}

VolumeStates == {"absent", "creating", "ready", "deleting", "deleted", "error"}

Lifecycle == {"start", "stop", "delete"}
Looked == {"archive", "pause", "fork", "undelete", "snapshot_live", "snapshot_files"}
OnImage == {"ensure", "activate", "deactivate", "image_delete"}
OnVolume == {"volume_create", "volume_delete"}
OnSandbox == {"create"} \cup Lifecycle \cup Looked \cup OnImage
Operations == OnSandbox \cup OnVolume

Steps == {"idle", "look", "post", "landed", "wait", "pause", "again", "record", "poll", "finish",
          "clean", "confirm", "image_list", "image_create", "image_activate", "image_poll",
          "image_post", "image_recheck", "volume_post", "volume_recheck", "done", "failed"}

\* `met`: the call's goal held at some moment of it; `named`: its error names
\* the sandbox as left over, or no id ever reached the caller.
Requests == [op : Operations \cup {"none"}, at : Steps, met : BOOLEAN, named : BOOLEAN]

\* Types of the service's records and of the calls.
DaytonaTypeOK ==
    /\ vm \in VmStates
    /\ child \in {"none", "starting", "started", "error"}
    /\ image \in [state : ImageStates, written : BOOLEAN]
    /\ volume \in VolumeStates
    /\ request \in [ApiClients -> Requests]
    /\ apiErrors \in 0..MaxApiErrors
    /\ revived \in BOOLEAN

(***************************************************************************)
(* What a successful answer of each operation stands for.                  *)
(***************************************************************************)
Dead == {"destroying", "destroyed", "gone"}

GoalMet(op, s, i, v) ==
    CASE op \in {"create", "start"} -> map_state(s) = "Running"
      [] op = "stop" -> s \in {"stopped", "archived", "destroyed", "gone"}
      [] op = "delete" -> s \in Dead
      [] op = "archive" -> s \in {"archiving", "archived"}
      [] op = "undelete" -> s \notin Dead
      [] op \in {"snapshot_live", "snapshot_files"} -> i.written
      [] op = "ensure" -> i.state = "active"
      [] op = "image_delete" -> i.state \in {"absent", "pending", "removing"}
      [] op = "volume_delete" -> v \in {"absent", "deleting", "deleted"}
      [] OTHER -> TRUE

\* Every step notes which goals of calls under way it met.
Noted(r) ==
    request' = [c \in ApiClients |->
        CASE r[c].op = "none" -> r[c]
          [] r[c].at = "failed" -> [r[c] EXCEPT !.met = FALSE]
          [] r[c].at = "done" /\ request[c].at = "done" -> r[c]
          [] OTHER -> [r[c] EXCEPT !.met = @ \/ GoalMet(r[c].op, vm', image', volume')]]

GoesOn(c, at) == [request EXCEPT ![c].at = at]
Keep(c, at) ==
    /\ UNCHANGED <<vm, child, image, volume, apiErrors, revived>>
    /\ Noted(GoesOn(c, at))

\* A request is refused without effect.
ApiRefuses(c, at) ==
    /\ apiErrors < MaxApiErrors
    /\ apiErrors' = apiErrors + 1
    /\ UNCHANGED <<vm, child, image, volume, revived>>
    /\ Noted(GoesOn(c, at))

AtStep(c, op, at) == request[c].op \in op /\ request[c].at = at

(***************************************************************************)
(* Start, stop and delete.                                                 *)
(***************************************************************************)
AnyStableIsSettled(op, state) == is_stable(state)

settled(op, state) ==
    CASE op = "start" -> state = "Running"
      [] op = "stop" -> state \in {"Stopped", "Archived", "Deleted"}
      [] op = "delete" -> state \in {"Deleting", "Deleted"}

start_inner(c) ==
    /\ AtStep(c, {"start"}, "look")
    /\ \/ Keep(c, IF IsNotFound THEN "failed"
                  ELSE IF map_state(vm) = "Running" THEN "done" ELSE "post")
       \/ ApiRefuses(c, "failed")

\* What the service does with a request it accepts; an ephemeral sandbox is
\* destroyed by a stop.
Becomes(op) ==
    CASE op = "start" /\ vm \in {"stopped", "paused", "archived"} -> {"starting"}
      [] op = "stop" /\ vm \in {"started", "paused"} -> {"stopping", "destroying"}
      [] op = "delete" /\ vm \notin Dead \cup {"absent"} /\ ~InProgress -> {"destroying"}
      [] op = "archive" /\ vm = "stopped" -> {"archiving"}
      [] op = "pause" /\ vm = "started" -> {"pausing"}
      [] OTHER -> {}

\* The client's start, stop and pause return once the change has landed.
Awaited == {"start", "stop", "pause"}

LifecycleCall(c) ==
    /\ AtStep(c, Lifecycle, "post")
    /\ LET op == request[c].op IN
       \/ /\ vm' \in Becomes(op)
          /\ UNCHANGED <<child, image, volume, apiErrors, revived>>
          /\ Noted(GoesOn(c, IF op \in Awaited THEN "landed" ELSE "done"))
       \/ /\ vm' \in Becomes(op)
          /\ apiErrors < MaxApiErrors
          /\ apiErrors' = apiErrors + 1
          /\ UNCHANGED <<child, image, volume, revived>>
          /\ Noted(GoesOn(c, "failed"))
       \/ (IsNotFound \/ vm = "destroyed") /\ Keep(c, IF op = "start" THEN "failed" ELSE "done")
       \/ InProgress /\ Keep(c, "wait")
       \/ /\ Becomes(op) = {} /\ ~InProgress /\ ~IsNotFound /\ vm # "destroyed"
          /\ Keep(c, "failed")
       \/ ApiRefuses(c, "failed")

Landed(c) ==
    /\ AtStep(c, Awaited, "landed")
    /\ LET op == request[c].op
           ok == CASE op = "start" -> map_state(vm) = "Running"
                   [] op = "stop" -> vm \in {"stopped", "archived", "destroyed", "gone"}
                   [] op = "pause" -> TRUE
       IN \/ ~InProgress /\ Keep(c, IF ok THEN "done" ELSE "failed")
          \/ ApiRefuses(c, "failed")

wait_for_state(c) ==
    /\ AtStep(c, Lifecycle, "wait")
    /\ LET state == map_state(vm) IN
       \/ IF settled(request[c].op, state) THEN Keep(c, "done")
          ELSE is_stable(state) /\ Keep(c, "pause")
       \/ ~settled(request[c].op, state) /\ ~is_stable(state) /\ Keep(c, "failed")
       \/ ApiRefuses(c, "failed")

transition_retry_pause(c) ==
    /\ AtStep(c, Lifecycle, "pause")
    /\ Keep(c, "post") \/ Keep(c, "failed")

(***************************************************************************)
(* Create and the cleanup of a failed one.                                 *)
(***************************************************************************)
CreateCall(c) ==
    /\ AtStep(c, {"create"}, "post")
    /\ \/ /\ vm' = "creating"
          /\ UNCHANGED <<child, image, volume, apiErrors, revived>>
          /\ Noted(GoesOn(c, "poll"))
       \/ /\ apiErrors < MaxApiErrors
          /\ apiErrors' = apiErrors + 1
          /\ vm' \in {vm, "creating"}
          /\ UNCHANGED <<child, image, volume, revived>>
          /\ Noted([request EXCEPT ![c].at = "failed", ![c].named = TRUE])

poll_started(c) ==
    /\ AtStep(c, {"create"}, "poll")
    /\ \/ Keep(c, "clean")
       \/ map_state(vm) = "Running" /\ Keep(c, "finish")
       \/ ApiRefuses(c, "clean")

finish_create(c) ==
    /\ AtStep(c, {"create"}, "finish")
    /\ \/ map_state(vm) = "Running" /\ Keep(c, "done")
       \/ map_state(vm) # "Running" /\ Keep(c, "clean")
       \/ ApiRefuses(c, "clean")

\* The cleanup failed or its budget ran out: the error names the sandbox.
Unconfirmed(c) == Noted([request EXCEPT ![c].at = "failed", ![c].named = TRUE])

delete_and_confirm(c) ==
    \/ /\ AtStep(c, {"create"}, "clean")
       /\ \/ (IsNotFound \/ vm = "destroyed") /\ Keep(c, "failed")
          \/ /\ vm' \in Becomes("delete")
             /\ UNCHANGED <<child, image, volume, apiErrors, revived>>
             /\ Noted(GoesOn(c, "confirm"))
    \/ /\ AtStep(c, {"create"}, "confirm")
       /\ map_state(vm) = "Deleted"
       /\ Keep(c, "failed")
    \/ /\ AtStep(c, {"create"}, "clean") \/ AtStep(c, {"create"}, "confirm")
       /\ UNCHANGED <<vm, child, image, volume, revived>>
       /\ apiErrors' \in {apiErrors, apiErrors + 1} \cap 0..MaxApiErrors
       /\ Unconfirmed(c)

(***************************************************************************)
(* Operations that fetch the sandbox first.                                *)
(***************************************************************************)
Required(op) ==
    CASE op \in {"fork", "snapshot_live"} -> {"Running"}
      [] op = "snapshot_files" -> {"Stopped"}
      [] OTHER -> {map_state(s) : s \in VmStates}

Fetch(c) ==
    /\ AtStep(c, Looked, "look")
    /\ \/ Keep(c, IF IsNotFound \/ map_state(vm) \notin Required(request[c].op)
                  THEN "failed" ELSE "post")
       \/ ApiRefuses(c, "failed")

archive_or_pause(c) ==
    /\ AtStep(c, {"archive", "pause"}, "post")
    /\ \/ /\ vm' \in Becomes(request[c].op)
          /\ UNCHANGED <<child, image, volume, apiErrors, revived>>
          /\ Noted(GoesOn(c, IF request[c].op = "pause" THEN "landed" ELSE "done"))
       \/ Becomes(request[c].op) = {} /\ Keep(c, "failed")
       \/ ApiRefuses(c, "failed")

fork(c) ==
    \/ /\ AtStep(c, {"fork"}, "post")
       /\ \/ /\ vm = "started" /\ child = "none"
             /\ child' = "starting"
             /\ UNCHANGED <<vm, image, volume, apiErrors, revived>>
             /\ Noted(GoesOn(c, "again"))
          \/ ~(vm = "started" /\ child = "none") /\ Keep(c, "failed")
          \/ ApiRefuses(c, "failed")
    \/ /\ AtStep(c, {"fork"}, "again")
       /\ child # "starting"
       /\ Keep(c, IF child = "started" THEN "done" ELSE "failed")

undelete(c) ==
    \/ /\ AtStep(c, {"undelete"}, "post")
       /\ \/ /\ vm = "destroyed"
             /\ vm' = "stopped" /\ revived' = TRUE
             /\ UNCHANGED <<child, image, volume, apiErrors>>
             /\ Noted(GoesOn(c, "again"))
          \/ vm # "destroyed" /\ Keep(c, "failed")
          \/ ApiRefuses(c, "failed")
    \/ /\ AtStep(c, {"undelete"}, "again")
       /\ Keep(c, IF IsNotFound THEN "failed" ELSE "done") \/ ApiRefuses(c, "failed")

Snapshotting == {"snapshot_live", "snapshot_files"}

AwaitRecord(c) ==
    /\ AtStep(c, Snapshotting, "record")
    /\ \/ /\ Visible
          /\ map_snapshot_state(image.state) \in {"Active", "Inactive"}
          /\ Keep(c, "done")
       \/ Keep(c, "failed")
       \/ ApiRefuses(c, "failed")

create_sandbox_snapshot(c) ==
    /\ AtStep(c, Snapshotting, "post")
    /\ \/ /\ vm \in {"started", "stopped"} /\ image.state = "absent"
          /\ image' = [state |-> "pending", written |-> FALSE]
          /\ UNCHANGED <<vm, child, volume, apiErrors, revived>>
          /\ Noted(GoesOn(c, "record"))
       \/ ~(vm \in {"started", "stopped"} /\ image.state = "absent") /\ Keep(c, "failed")
       \/ ApiRefuses(c, "failed")

(***************************************************************************)
(* Snapshots and volumes.                                                  *)
(***************************************************************************)
\* Where a create from an image goes once its snapshot is usable.
Usable(c) == IF request[c].op = "create" THEN "post" ELSE "done"

SnapshotUsers == {"create", "ensure"}

ensure_snapshot(c) ==
    \/ /\ AtStep(c, SnapshotUsers, "image_list")
       /\ LET state == IF Visible THEN map_snapshot_state(image.state) ELSE "Missing"
              next == CASE state = "Active" -> Usable(c)
                        [] state \in {"Error", "Deleting"} -> "failed"
                        [] state = "Inactive" -> "image_activate"
                        [] state = "Building" -> "image_poll"
                        [] state = "Missing" -> "image_create"
          IN Keep(c, next) \/ ApiRefuses(c, "failed")
    \/ /\ AtStep(c, SnapshotUsers, "image_poll")
       /\ \/ Keep(c, "failed")
          \/ Visible /\ map_snapshot_state(image.state) = "Active" /\ Keep(c, Usable(c))
          \/ ApiRefuses(c, "failed")

snapshot_from_image(c) ==
    /\ AtStep(c, SnapshotUsers, "image_create")
    /\ \/ /\ image.state = "absent"
          /\ image' = [state |-> "building", written |-> FALSE]
          /\ UNCHANGED <<vm, child, volume, apiErrors, revived>>
          /\ Noted(GoesOn(c, "image_poll"))
       \/ image.state # "absent" /\ Keep(c, "failed")
       \/ ApiRefuses(c, "failed")

SetImage(c, state, at) ==
    /\ image' = [image EXCEPT !.state = state]
    /\ UNCHANGED <<vm, child, volume, apiErrors, revived>>
    /\ Noted(GoesOn(c, at))

activate(c) ==
    LET at == request[c].at
        after == IF at = "image_activate" THEN "image_poll" ELSE "done"
    IN /\ AtStep(c, SnapshotUsers, "image_activate") \/ AtStep(c, {"activate"}, "image_post")
       /\ \/ image.state = "inactive" /\ SetImage(c, "active", after)
          \/ image.state = "active" /\ Keep(c, after)
          \/ image.state = "deactivating" /\ (Keep(c, at) \/ Keep(c, "failed"))
          \/ image.state \notin {"inactive", "active", "deactivating"} /\ Keep(c, "failed")
          \/ ApiRefuses(c, "failed")

deactivate(c) ==
    /\ AtStep(c, {"deactivate"}, "image_post")
    /\ \/ image.state = "active" /\ SetImage(c, "deactivating", "done")
       \/ image.state # "active" /\ Keep(c, "failed")
       \/ ApiRefuses(c, "failed")

\* A delete the service refuses succeeds when a deletion is already under way.
image_delete(c) ==
    \/ /\ AtStep(c, {"image_delete"}, "image_post")
       /\ \/ ~Visible /\ Keep(c, "done")
          \/ Visible /\ image.state # "removing" /\ SetImage(c, "removing", "done")
          \/ image.state = "removing" /\ Keep(c, "image_recheck")
          \/ ApiRefuses(c, "image_recheck")
    \/ /\ AtStep(c, {"image_delete"}, "image_recheck")
       /\ \/ Keep(c, IF image.state = "removing" THEN "done" ELSE "failed")
          \/ ApiRefuses(c, "failed")

volume_create(c) ==
    /\ AtStep(c, {"volume_create"}, "volume_post")
    /\ \/ /\ volume \in {"absent", "deleted"}
          /\ volume' = "creating"
          /\ UNCHANGED <<vm, child, image, apiErrors, revived>>
          /\ Noted(GoesOn(c, "done"))
       \/ volume \notin {"absent", "deleted"} /\ Keep(c, "failed")
       \/ ApiRefuses(c, "failed")

volume_delete(c) ==
    \/ /\ AtStep(c, {"volume_delete"}, "volume_post")
       /\ \/ volume = "absent" /\ Keep(c, "done")
          \/ /\ volume = "ready"
             /\ volume' = "deleting"
             /\ UNCHANGED <<vm, child, image, apiErrors, revived>>
             /\ Noted(GoesOn(c, "done"))
          \/ volume \notin {"absent", "ready"} /\ Keep(c, "volume_recheck")
          \/ ApiRefuses(c, "volume_recheck")
    \/ /\ AtStep(c, {"volume_delete"}, "volume_recheck")
       /\ LET state == IF volume = "absent" THEN "Missing" ELSE map_volume_state(volume) IN
          \/ Keep(c, IF state \in {"Deleting", "Deleted"} THEN "done" ELSE "failed")
          \/ ApiRefuses(c, "failed")

(***************************************************************************)
(* The service, and the callers.                                           *)
(***************************************************************************)
\* Changes that land, and the timers: auto-stop, auto-archive, auto-delete.
VmMoves ==
    CASE vm = "creating" -> {"started", "error"}
      [] vm = "starting" -> {"started", "error"}
      [] vm = "started" -> {"stopping"} \cup (IF image.state = "pending" THEN {"snapshotting"} ELSE {})
      [] vm = "snapshotting" -> {"started"}
      [] vm = "stopping" -> {"stopped"}
      [] vm = "pausing" -> {"paused"}
      [] vm = "stopped" -> {"archiving", "destroying"}
      [] vm = "archiving" -> {"archived"}
      [] vm = "destroying" -> {"destroyed"}
      [] vm = "destroyed" -> {"gone"}
      [] OTHER -> {}

Service ==
    /\ UNCHANGED <<apiErrors, revived>>
    /\ \/ vm' \in VmMoves /\ UNCHANGED <<child, image, volume>>
       \/ child = "starting" /\ child' \in {"started", "error"} /\ UNCHANGED <<vm, image, volume>>
       \/ /\ image' \in CASE image.state = "pending" -> {[image EXCEPT !.state = "snapshotting"]}
                           [] image.state \in {"building", "snapshotting"} ->
                                {[state |-> "active", written |-> TRUE],
                                 [state |-> "inactive", written |-> TRUE],
                                 [image EXCEPT !.state = "build_failed"]}
                           [] image.state \in {"deactivating", "active"} ->
                                {[image EXCEPT !.state = "inactive"]}
                           [] image.state = "removing" -> {[image EXCEPT !.state = "absent"]}
                           [] OTHER -> {}
          /\ UNCHANGED <<vm, child, volume>>
    /\ Noted(request)

VolumeService ==
    /\ volume' \in CASE volume = "creating" -> {"ready", "error"}
                     [] volume = "deleting" -> {"deleted"}
                     [] OTHER -> {}
    /\ UNCHANGED <<vm, child, image, apiErrors, revived>>
    /\ Noted(request)

FirstSteps(op) ==
    CASE op = "create" -> {"image_list", "post"}
      [] op = "start" -> {"look"}
      [] op \in {"stop", "delete"} -> {"post"}
      [] op \in Looked -> {"look"}
      [] op = "ensure" -> {"image_list"}
      [] op \in OnImage -> {"image_post"}
      [] op \in {"volume_create", "volume_delete"} -> {"volume_post"}

\* Create is called once, for the one sandbox of the model.
IssueRequest(c, op) ==
    /\ request[c].at \in {"idle", "done", "failed"}
    /\ op = "create" => \A d \in ApiClients : request[d].op # "create"
    /\ op \in Lifecycle \cup Looked => vm # "absent"
    /\ request[c].op # "create"
    /\ UNCHANGED <<vm, child, image, volume, apiErrors, revived>>
    /\ \E at \in FirstSteps(op) :
         Noted([request EXCEPT ![c] = [op |-> op, at |-> at, met |-> FALSE, named |-> FALSE]])

Step(c) ==
    \/ start_inner(c) \/ LifecycleCall(c) \/ Landed(c)
    \/ wait_for_state(c) \/ transition_retry_pause(c)
    \/ CreateCall(c) \/ poll_started(c) \/ finish_create(c) \/ delete_and_confirm(c)
    \/ Fetch(c) \/ archive_or_pause(c) \/ fork(c) \/ undelete(c)
    \/ create_sandbox_snapshot(c) \/ AwaitRecord(c)
    \/ ensure_snapshot(c) \/ snapshot_from_image(c) \/ activate(c) \/ deactivate(c)
    \/ image_delete(c)

NoRequest == [op |-> "none", at |-> "idle", met |-> FALSE, named |-> FALSE]

DaytonaInit ==
    /\ vm = "absent"
    /\ child = "none"
    /\ image = [state |-> "absent", written |-> FALSE]
    /\ volume = "absent"
    /\ request = [c \in ApiClients |-> NoRequest]
    /\ apiErrors = 0
    /\ revived = FALSE

DaytonaNext ==
    \/ Service
    \/ \E c \in ApiClients : Step(c) \/ \E op \in OnSandbox : IssueRequest(c, op)

VolumeNext ==
    \/ VolumeService
    \/ \E c \in ApiClients :
          volume_create(c) \/ volume_delete(c) \/ \E op \in OnVolume : IssueRequest(c, op)

(***************************************************************************)
(* Properties.                                                             *)
(***************************************************************************)
\* A call that answered success reached what it stands for at some moment
\* while it ran, whatever other callers and the service's timers did: a stop
\* that waited for somebody else's change saw the sandbox down, a snapshot was
\* written, a delete counts as done only once destruction is under way
\* (retry_through_transition, create_sandbox_snapshot, ensure_snapshot).
AnswersAreTrue ==
    \A c \in ApiClients : request[c].at = "done" => request[c].met

\* A failed create whose sandbox had an id leaves no sandbox behind, unless
\* its error names the sandbox as left over (failed_create).
FailedCreateIsAccounted ==
    \A c \in ApiClients :
        AtStep(c, {"create"}, "failed") /\ ~request[c].named =>
            vm \in {"absent", "destroyed", "gone"} \/ revived
=============================================================================
