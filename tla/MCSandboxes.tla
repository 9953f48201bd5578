----------------------------- MODULE MCSandboxes -----------------------------
(***************************************************************************)
(* Sandboxes and who keeps track of them, one component at a time: `part`  *)
(* says which one a behaviour is about.                                    *)
(*   host        a managed sandbox of the host provider (HostLifecycle)    *)
(*   docker      a sandbox of containers (DockerSandbox)                   *)
(*   daytona, volumes   sandboxes, snapshots, volumes (DaytonaSandbox)     *)
(*   services    the containers inside a Daytona sandbox (NestedServices)  *)
(*   owned       a provider scoped to its owner's labels (OwnedProvider)   *)
(*   activate    bringing a sandbox up and probing it (Activation)         *)
(* They meet only in calls whose results each of them leaves open.         *)
(***************************************************************************)
EXTENDS HostLifecycle, DockerSandbox, DaytonaSandbox, NestedServices, OwnedProvider,
        Activation, TLC

VARIABLE part

scopeVars == <<ownedVars, activationVars>>
mcVars == <<part, vars, dockerVars, daytonaVars, nestedServiceVars, scopeVars>>

\* The same two tasks act in every part that is symmetric in its tasks.
TaskSymmetry == Permutations(Callers)

TwoServices == <<"s1", "s2">>

\* The value of the variables of a component that is not the part.
Off == "off"

DockerOff ==
    /\ plan = Off /\ box = Off /\ nets = Off /\ net = Off /\ side = Off /\ shot = Off
    /\ call = Off /\ faults = Off /\ drops = Off /\ during = Off /\ doomed = Off

DaytonaOff ==
    /\ vm = Off /\ child = Off /\ image = Off /\ volume = Off /\ request = Off
    /\ apiErrors = Off /\ revived = Off

NestedServicesOff ==
    /\ target = Off /\ wanted = Off /\ machine = Off /\ primaryBox = Off
    /\ network = Off /\ service = Off /\ logins = Off /\ nestedHandle = Off
    /\ created = Off

OwnedOff == backend = Off /\ ownedCall = Off /\ foreign = Off
ActivationOff == sandboxState = Off /\ activation = Off

MCInit ==
    /\ part \in {"host", "docker", "daytona", "volumes", "services", "owned", "activate"}
    /\ Init
    /\ IF part = "docker" THEN DockerInit ELSE DockerOff
    /\ IF part \in {"daytona", "volumes"} THEN DaytonaInit ELSE DaytonaOff
    /\ IF part = "services" THEN NestedServicesInit ELSE NestedServicesOff
    /\ IF part = "owned" THEN OwnedInit ELSE OwnedOff
    /\ IF part = "activate" THEN ActivationInit ELSE ActivationOff

\* A step of part p; rest is what the other parts keep.
Of(p, A, rest) == part = p /\ A /\ UNCHANGED <<part, rest>>

MCNext ==
    \/ Of("host", NextOrDrop, <<dockerVars, daytonaVars, nestedServiceVars, scopeVars>>)
    \/ Of("docker", DockerNext, <<vars, daytonaVars, nestedServiceVars, scopeVars>>)
    \/ Of("daytona", DaytonaNext, <<vars, dockerVars, nestedServiceVars, scopeVars>>)
    \/ Of("volumes", VolumeNext, <<vars, dockerVars, nestedServiceVars, scopeVars>>)
    \/ Of("services", NestedServicesNext, <<vars, dockerVars, daytonaVars, scopeVars>>)
    \/ Of("owned", OwnedNext, <<vars, dockerVars, daytonaVars, nestedServiceVars, activationVars>>)
    \/ Of("activate", ActivationNext,
          <<vars, dockerVars, daytonaVars, nestedServiceVars, ownedVars>>)
    \/ part # "host" /\ UNCHANGED mcVars       \* the others may come to rest

MCSpec == MCInit /\ [][MCNext]_mcVars

-----------------------------------------------------------------------------
\* The containers around a sandbox follow it.  In Docker, services and networks exist only
\* beside their primary, and it runs with all of them; in nested Daytona a handle that calls
\* itself ready has the whole sandbox, brought up in the generation its last pass began in or a
\* later one and in none it was told had ended, and a finished create leaves no registry login
\* behind.
ServicesFollowSandbox ==
    CASE part = "docker" -> DockerTypeOK /\ DependentsHavePrimary /\ RunningHasServices
      [] part = "services" -> NestedServicesTypeOK /\ ReadyHasServices /\ CreateLeavesNoLogin
      [] OTHER -> TRUE

\* A Docker delete that succeeds leaves nothing at the daemon, and a stop takes the one-shots
\* of the sandbox along, whatever failed or was dropped before.
SweepsAreComplete ==
    [][part = "docker" => DeleteLeavesNothing /\ StopSweepsOneShots]_mcVars

\* What a call answers is true.  A Daytona answer is true of the sandbox after errors, retries
\* and other clients' requests, and a create that failed leaves nothing behind that its error
\* does not name; an owned provider hands out and deletes only what carries its owner's labels;
\* an activation that succeeds saw the sandbox running and Bash answering over both transports.
AnswersFit ==
    CASE part \in {"daytona", "volumes"} ->
           DaytonaTypeOK /\ AnswersAreTrue /\ FailedCreateIsAccounted
      [] part = "owned" -> OwnedTypeOK /\ ActsOnItsOwn
      [] part = "activate" -> ActivationTypeOK /\ ActivatedMeansUsable
      [] OTHER -> TRUE
=============================================================================
