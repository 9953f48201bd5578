----------------------------- MODULE Activation -----------------------------
(***************************************************************************)
(* Activating a sandbox (sandbox-driver/src/probe.rs) over the generic     *)
(* wait loops (wait.rs): describe, wait out a transition, start or resume, *)
(* wait for Running, probe Bash over both exec transports.                 *)
(*                                                                         *)
(* The sandbox is external: its state moves by itself (an auto-stop, a     *)
(* failure, another client) and with a start or a resume.  A deadline may  *)
(* have passed after any poll that did not settle the wait; the interval   *)
(* between polls is the time other steps have.                             *)
(***************************************************************************)
EXTENDS Naturals

VARIABLES
    sandboxState, \* SandboxState, as describe would report it
    activation    \* the call

activationVars == <<sandboxState, activation>>

\* SandboxState::is_stable
StableStates == {"Running", "Stopped", "Paused", "Archived", "Deleted", "Error"}
SandboxStates ==
    StableStates \cup {"Creating", "Starting", "Stopping", "Pausing", "Resuming", "Archiving",
                       "Restoring", "Resizing", "Forking", "Snapshotting", "Deleting", "Unknown"}

\* A call: where it is, the state it acts on, what it asked the provider for, whether it saw
\* the sandbox Running since, and the transports that answered the probe since.
ActivationCalls ==
    [at : {"describe", "settle", "start", "resume", "reach", "probe", "stream", "ok", "failed"},
     acts : SandboxStates \cup {"none"}, asked : {"none", "start", "resume"},
     running : BOOLEAN, probed : SUBSET {"buffered", "streaming"}]

ActivationTypeOK == sandboxState \in SandboxStates /\ activation \in ActivationCalls

ActivationInit ==
    /\ sandboxState \in SandboxStates
    /\ activation = [at |-> "describe", acts |-> "none", asked |-> "none", running |-> FALSE,
                     probed |-> {}]

ActivationFails == activation' = [activation EXCEPT !.at = "failed"] /\ UNCHANGED sandboxState

-----------------------------------------------------------------------------
\* What activate does with a settled state.
Settled ==
    activation' = [activation EXCEPT
        !.at = CASE sandboxState = "Running" -> "probe"
                 [] sandboxState = "Paused" -> "resume"
                 [] OTHER -> "start",
        !.acts = sandboxState,
        !.running = sandboxState = "Running"]

\* The first describe: a settled state is acted on, a moving one is waited out.
Describes ==
    /\ activation.at = "describe"
    /\ \/ sandboxState \in StableStates /\ Settled /\ UNCHANGED sandboxState
       \/ /\ sandboxState \notin StableStates
          /\ activation' = [activation EXCEPT !.at = "settle"]
          /\ UNCHANGED sandboxState
       \/ ActivationFails

\* One poll of wait_for_stable_state.
PollsStable ==
    /\ activation.at = "settle"
    /\ \/ sandboxState \in StableStates /\ Settled /\ UNCHANGED sandboxState
       \/ sandboxState \notin StableStates /\ UNCHANGED activationVars
       \/ ActivationFails

\* start or resume, as the provider takes it: the state may already have moved on.
Asks ==
    /\ activation.at \in {"start", "resume"}
    /\ \/ /\ activation' = [activation EXCEPT !.at = "reach", !.asked = activation.at]
          /\ sandboxState' \in
               {sandboxState, IF activation.at = "start" THEN "Starting" ELSE "Resuming", "Running"}
       \/ ActivationFails

\* One poll of wait_for_state(Running): Error fails, a passed deadline fails, else poll again.
PollsRunning ==
    /\ activation.at = "reach"
    /\ \/ /\ sandboxState = "Running"
          /\ activation' = [activation EXCEPT !.at = "probe", !.running = TRUE]
          /\ UNCHANGED sandboxState
       \/ sandboxState \notin {"Running", "Error"} /\ UNCHANGED activationVars
       \/ ActivationFails

\* run_bash_probe: exit 0 and the marker over the buffered transport, ...
ProbesBuffered ==
    /\ activation.at = "probe"
    /\ \/ /\ sandboxState = "Running"
          /\ activation' = [activation EXCEPT !.at = "stream", !.probed = {"buffered"}]
          /\ UNCHANGED sandboxState
       \/ ActivationFails

\* ... then over the streaming one.
ProbesStreaming ==
    /\ activation.at = "stream"
    /\ \/ /\ sandboxState = "Running"
          /\ activation' = [activation EXCEPT !.at = "ok", !.probed = @ \cup {"streaming"}]
          /\ UNCHANGED sandboxState
       \/ ActivationFails

\* The sandbox moves by itself.
SandboxMoves == sandboxState' \in SandboxStates \ {sandboxState} /\ UNCHANGED activation

ActivationNext ==
    \/ Describes \/ PollsStable \/ Asks \/ PollsRunning \/ ProbesBuffered \/ ProbesStreaming
    \/ SandboxMoves

-----------------------------------------------------------------------------
\* An activation that succeeds saw the sandbox Running after whatever it asked for and had Bash
\* answer over both transports since; it acts only on a settled state it saw itself, resumes
\* only a paused sandbox, and never starts one it saw running.
ActivatedMeansUsable ==
    /\ activation.at = "ok" => activation.running /\ activation.probed = {"buffered", "streaming"}
    /\ activation.asked # "none" =>
         /\ activation.acts \in StableStates \ {"Running"}
         /\ activation.asked = "resume" <=> activation.acts = "Paused"
    /\ activation.at \in {"probe", "stream", "ok"} /\ activation.acts # "Running" =>
         activation.asked # "none"
=============================================================================
