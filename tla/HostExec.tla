------------------------------ MODULE HostExec ------------------------------
(***************************************************************************)
(* HostExec::run_signals (sandbox-driver-host, exec.rs): one command on    *)
(* the host, its output pumps, and the race of its exit against the stop   *)
(* tokens and the timeout, below the ladder of StopLadder.                 *)
(*                                                                         *)
(* The race polls its arms in order (a biased select) and nothing but the  *)
(* race polls the pumps.  An event that falls inside a poll, behind the    *)
(* arm it would have made ready, is as good as one right after the poll,   *)
(* so each arm here is guarded by the arms before it being unready.        *)
(* HostChild::kill is one step; HostFence has its parts.                   *)
(***************************************************************************)
EXTENDS StopLadder, Naturals

CONSTANTS
    Streams,    \* the output pipes
    Capacity    \* bound: the chunks each pipe holds; the writers may go on for ever

ASSUME CapacityAssumption == Capacity \in [Streams -> Nat]

\* The instance for TLC: a pipe with output beside a silent one.
OneBusyPipe == [stdout |-> 1, stderr |-> 0]

VARIABLES
    leader,       \* the command's process: "running", "exited" or "killed"
    descendants,  \* others of its process group are running
    held,         \* pipes some process can still write to
    unread,       \* chunks in each pipe
    pump,         \* OutputPump of each pipe
    advanced,     \* whether a pump has read since `seen` was noted: progress # seen
    pc,           \* "race", "kill" and "wait" in Phase::stop, "done"
    phase,        \* Phase
    deadline,     \* drain_deadline: "off", "armed" or "due"
    termFired,    \* the local term_fired
    pumpOutcome,  \* "none", "ok", "sink" or "read"
    stopAs,       \* the Termination a stop in progress will report
    signalled,    \* the strongest signal sent to the group
    killFailed,   \* the group kill of Phase::stop failed
    outcome,      \* the Termination returned, or "error"; "none" until then
    truncated     \* CaptureStats::truncated of the result

groupVars == <<leader, descendants, held, unread>>
pumpVars == <<pump>>
raceVars == <<pc, phase, deadline, termFired, pumpOutcome, stopAs, signalled, killFailed,
              outcome, truncated>>
vars == <<ladderVars, groupVars, pumpVars, advanced, raceVars>>

Terminations == {"Exited", "TimedOut", "Cancelled", "Killed"}

TypeOK ==
    /\ LadderTypeOK
    /\ leader \in {"running", "exited", "killed"}
    /\ descendants \in BOOLEAN
    /\ held \subseteq Streams
    /\ unread \in [Streams -> Nat]
    /\ \A s \in Streams : unread[s] <= Capacity[s]
    /\ pump \in [Streams -> {"reading", "sink", "flush", "ok", "sink_error", "read_error"}]
    /\ advanced \in BOOLEAN
    /\ pc \in {"race", "kill", "wait", "done"}
    /\ phase \in {"Running", "Draining"}
    /\ deadline \in {"off", "armed", "due"}
    /\ termFired \in BOOLEAN
    /\ pumpOutcome \in {"none", "ok", "sink", "read"}
    /\ stopAs \in Terminations \cup {"none"}
    /\ signalled \in {"none", "Term", "Kill"}
    /\ killFailed \in BOOLEAN
    /\ outcome \in Terminations \cup {"none", "error"}
    /\ truncated \in BOOLEAN

Init ==
    /\ LadderInit
    /\ leader = "running"
    /\ descendants \in BOOLEAN
    /\ held = Streams
    /\ unread = [s \in Streams |-> 0]
    /\ pump = [s \in Streams |-> "reading"]
    /\ advanced = FALSE
    /\ pc = "race"
    /\ phase = "Running"
    /\ deadline = "off"
    /\ termFired = FALSE
    /\ pumpOutcome = "none"
    /\ stopAs = "none"
    /\ signalled = "none"
    /\ killFailed = FALSE
    /\ outcome = "none"
    /\ truncated = FALSE

-----------------------------------------------------------------------------
(* The process group.                                                       *)

\* The group without a process holds no pipe.
Survivors(l, d) == IF l = "running" \/ d THEN held ELSE {}

Group(A) == pc # "done" /\ A /\ UNCHANGED <<ladderVars, pumpVars, advanced, raceVars>>

\* A full pipe blocks its writer.
Write(s) ==
    /\ s \in held /\ unread[s] < Capacity[s]
    /\ unread' = [unread EXCEPT ![s] = @ + 1]
    /\ UNCHANGED <<leader, descendants, held>>

\* A process gives up its output, as a daemon does.
CloseStream(s) ==
    /\ s \in held
    /\ held' = held \ {s}
    /\ UNCHANGED <<leader, descendants, unread>>

\* By itself or on a TERM it honours.
LeaderExits ==
    /\ leader = "running"
    /\ leader' = "exited"
    /\ held' = Survivors("exited", descendants)
    /\ UNCHANGED <<descendants, unread>>

DescendantsEnd ==
    /\ descendants
    /\ descendants' = FALSE
    /\ held' = Survivors(leader, FALSE)
    /\ UNCHANGED <<leader, unread>>

\* A stop of the sandbox, or of another call, kills the group meanwhile.
GroupKilled ==
    /\ leader = "running" \/ descendants
    /\ leader' = IF leader = "running" THEN "killed" ELSE leader
    /\ descendants' = FALSE
    /\ held' = {}
    /\ UNCHANGED unread

GroupStep ==
    \/ \E s \in Streams : Write(s) \/ CloseStream(s)
    \/ LeaderExits \/ DescendantsEnd \/ GroupKilled

-----------------------------------------------------------------------------
(* The pumps, joined by try_join: the first failure ends both.              *)

Failed == {s \in Streams : pump[s] \in {"sink_error", "read_error"}}
PumpsReady == pumpOutcome = "none" /\ (Failed # {} \/ \A s \in Streams : pump[s] = "ok")

PumpTo(s, from, to) ==
    /\ pc = "race" /\ pumpOutcome = "none" /\ Failed = {}
    /\ pump[s] = from
    /\ pump' = [pump EXCEPT ![s] = to]
    /\ UNCHANGED <<ladderVars, leader, descendants, held, raceVars>>

Read(s) ==
    /\ unread[s] > 0
    /\ unread' = [unread EXCEPT ![s] = @ - 1]
    /\ advanced' = TRUE
    /\ PumpTo(s, "reading", "sink")

\* At EOF the sanitizer's last bytes still go to the sink.
ReadEof(s) ==
    /\ unread[s] = 0 /\ s \notin held
    /\ PumpTo(s, "reading", "flush")
    /\ UNCHANGED <<unread, advanced>>

ReadFails(s) ==
    /\ PumpTo(s, "reading", "read_error")
    /\ UNCHANGED <<unread, advanced>>

SinkTakes(s) ==
    /\ PumpTo(s, "sink", "reading") \/ PumpTo(s, "flush", "ok")
    /\ UNCHANGED <<unread, advanced>>

SinkFails(s) ==
    /\ PumpTo(s, "sink", "sink_error") \/ PumpTo(s, "flush", "sink_error")
    /\ UNCHANGED <<unread, advanced>>

\* Every pump has gone as far as its pipe lets it.
PumpsPolled == \A s \in Streams : pump[s] = "reading" => unread[s] = 0 /\ s \in held

-----------------------------------------------------------------------------
(* The race.                                                                *)

RaceOnly == UNCHANGED <<ladderVars, groupVars, pumpVars>>
StopArm == UNCHANGED <<phase, deadline, termFired, pumpOutcome, signalled, killFailed, advanced>>

\* Mutated: an exit is an exit, asked for or not.
ExitedTermination == "Exited"

NaturalTermination == IF termFired THEN "Cancelled" ELSE "Exited"

\* Mutated: a pump that ended in any way counts as drained.
FinishLoose(t, pumps) ==
    /\ pc' = "done"
    /\ \/ outcome' = "error"
       \/ pumps # "read" /\ outcome' = Reported(t)
    /\ truncated' = (pumps = "none")

\* run_signals after the race: the stdin writer task, which may have failed,
\* then the pumps' verdict.
Finish(t, pumps) ==
    /\ pc' = "done"
    /\ \/ outcome' = "error"
       \/ pumps # "read" /\ outcome' = Reported(t)
    /\ truncated' = (pumps # "ok")

Stop(t) ==
    /\ pc' = "kill"
    /\ stopAs' = t
    /\ UNCHANGED <<outcome, truncated>>

\* Mutated: the kill token is watched while the process runs.
KillArmRunning ==
    /\ pc = "race" /\ RawKill /\ phase = "Running"
    /\ Stop("Killed")
    /\ StopArm
    /\ RaceOnly

KillArm ==
    /\ pc = "race" /\ RawKill
    /\ Stop("Killed")
    /\ StopArm
    /\ RaceOnly

TimeoutArm ==
    /\ pc = "race" /\ ~ RawKill /\ RawTimeout
    /\ Stop("TimedOut")
    /\ StopArm
    /\ RaceOnly

TermArm ==
    /\ pc = "race" /\ ~ RawKill /\ ~ RawTimeout
    /\ RawTerm /\ ~ termFired
    /\ termFired' = TRUE
    /\ signalled' = "Term"
    /\ UNCHANGED <<pc, phase, deadline, pumpOutcome, stopAs, killFailed, outcome, truncated, advanced>>
    /\ RaceOnly

\* None of the stop arms is ready.
Quiet == pc = "race" /\ ~ RawKill /\ ~ RawTimeout /\ (RawTerm => termFired)

PumpsFail ==
    /\ Quiet /\ PumpsReady /\ Failed # {}
    /\ \E s \in Failed : pumpOutcome' = IF pump[s] = "read_error" THEN "read" ELSE "sink"
    /\ Stop("Cancelled")
    /\ UNCHANGED <<phase, deadline, termFired, signalled, killFailed, advanced>>
    /\ RaceOnly

PumpsFinish ==
    /\ Quiet /\ PumpsReady /\ Failed = {}
    /\ pumpOutcome' = "ok"
    /\ IF phase = "Draining"
       THEN Finish(NaturalTermination, "ok")
       ELSE UNCHANGED <<pc, outcome, truncated>>
    /\ UNCHANGED <<phase, deadline, termFired, stopAs, signalled, killFailed, advanced>>
    /\ RaceOnly

\* HostChild::wait saw the recorded status, or the group gone.
WaitArm ==
    /\ Quiet /\ ~ PumpsReady /\ phase = "Running" /\ leader # "running"
    /\ IF pumpOutcome # "none"
       THEN /\ Finish(NaturalTermination, pumpOutcome)
            /\ UNCHANGED <<phase, deadline, advanced>>
       ELSE /\ phase' = "Draining"
            /\ advanced' = FALSE
            /\ deadline' = "armed"
            /\ UNCHANGED <<pc, outcome, truncated>>
    /\ UNCHANGED <<termFired, pumpOutcome, stopAs, signalled, killFailed>>
    /\ RaceOnly

\* HostChild::wait fails to look at the process table, in the race or behind a
\* stop: the call returns the error and leaves the command as it is.
WaitFails ==
    /\ phase = "Running"
    /\ (Quiet /\ ~ PumpsReady) \/ pc = "wait"
    /\ pc' = "done"
    /\ outcome' = "error"
    /\ UNCHANGED <<phase, deadline, termFired, pumpOutcome, stopAs, signalled, killFailed,
                   truncated, advanced>>
    /\ RaceOnly

DeadlinePasses ==
    /\ pc # "done" /\ deadline = "armed"
    /\ deadline' = "due"
    /\ UNCHANGED <<pc, phase, termFired, pumpOutcome, stopAs, signalled, killFailed, outcome,
                   truncated, advanced>>
    /\ RaceOnly

DrainDue == /\ Quiet /\ ~ PumpsReady /\ PumpsPolled
            /\ phase = "Draining" /\ deadline = "due"

\* Mutated: the deadline is armed again without noting the progress.
DrainArmForgets ==
    /\ DrainDue
    /\ IF advanced
       THEN /\ deadline' = "armed"
            /\ UNCHANGED <<pc, outcome, truncated>>
       ELSE /\ Finish(NaturalTermination, pumpOutcome)
            /\ UNCHANGED deadline
    /\ UNCHANGED <<advanced, phase, termFired, pumpOutcome, stopAs, signalled, killFailed>>
    /\ RaceOnly

\* Output since the last look arms the deadline again.
DrainArm ==
    /\ DrainDue
    /\ IF advanced
       THEN /\ advanced' = FALSE
            /\ deadline' = "armed"
            /\ UNCHANGED <<pc, outcome, truncated>>
       ELSE /\ Finish(NaturalTermination, pumpOutcome)
            /\ UNCHANGED <<advanced, deadline>>
    /\ UNCHANGED <<phase, termFired, pumpOutcome, stopAs, signalled, killFailed>>
    /\ RaceOnly

\* Mutated: an exit status that is known already spares the group.
StopKillsRunning ==
    /\ pc = "kill"
    /\ pc' = "wait"
    /\ signalled' = "Kill"
    /\ IF phase = "Running"
       THEN /\ leader' = IF leader = "running" THEN "killed" ELSE leader
            /\ descendants' = FALSE
            /\ held' = {}
       ELSE UNCHANGED <<leader, descendants, held>>
    /\ UNCHANGED <<ladderVars, unread, pumpVars, advanced, phase, deadline, termFired,
                   pumpOutcome, stopAs, killFailed, outcome, truncated>>

\* Phase::stop kills the group whether or not its leader has exited.  The error
\* of a kill that failed is dropped, and the stop goes on as after any other.
StopKills ==
    /\ pc = "kill"
    /\ pc' = "wait"
    /\ signalled' = "Kill"
    /\ \/ /\ leader' = IF leader = "running" THEN "killed" ELSE leader
          /\ descendants' = FALSE
          /\ held' = {}
          /\ UNCHANGED killFailed
       \/ killFailed' = TRUE /\ UNCHANGED <<leader, descendants, held>>
    /\ UNCHANGED <<ladderVars, unread, pumpVars, advanced, phase, deadline, termFired,
                   pumpOutcome, stopAs, outcome, truncated>>

\* The status of a process still running is waited for; it is known otherwise.
StopWaits ==
    /\ pc = "wait" /\ leader # "running"
    /\ Finish(stopAs, pumpOutcome)
    /\ UNCHANGED <<phase, deadline, termFired, pumpOutcome, stopAs, signalled, killFailed, advanced>>
    /\ RaceOnly

-----------------------------------------------------------------------------
Beside(A) == pc # "done" /\ A /\ UNCHANGED <<groupVars, pumpVars, advanced, raceVars>>

PumpStep == \E s \in Streams : Read(s) \/ ReadEof(s)
RaceStep ==
    \/ KillArm \/ TimeoutArm \/ TermArm \/ PumpsFail \/ PumpsFinish \/ WaitArm
    \/ DrainArm \/ StopKills \/ StopWaits

Next ==
    \/ \E t \in Tokens : Beside(FireToken(t))
    \/ Beside(TimeoutElapses)
    \/ Beside(GraceElapses)
    \/ Beside(LadderStep)
    \/ Group(GroupStep)
    \/ PumpStep
    \/ \E s \in Streams : ReadFails(s) \/ SinkTakes(s) \/ SinkFails(s)
    \/ DeadlinePasses
    \/ WaitFails
    \/ RaceStep

\* The task is polled and its timers run.  Nothing is assumed of the command,
\* its descendants, the sink or the caller.
Fairness ==
    /\ WF_vars(Beside(GraceElapses))
    /\ WF_vars(Beside(LadderStep))
    /\ WF_vars(PumpStep)
    /\ WF_vars(DeadlinePasses)
    /\ WF_vars(RaceStep)

Spec == Init /\ [][Next]_vars
FairSpec == Spec /\ Fairness

-----------------------------------------------------------------------------
(* Properties.                                                              *)

Asked ==
    caller \cup (elapsed \cap {"timeout"})
           \cup (IF Failed # {} THEN {"output"} ELSE {})

Contract == INSTANCE ExecContract WITH
    grace <- spec.grace, asked <- Asked

\* The host's own race implements the exec contract: one TERM at most, never
\* behind the KILL, and a Termination that is true to what was asked and sent.
ImplementsContract == Contract!Spec

\* A Termination is only ever reported of a command that is over, a kill that
\* failed included; and the report of a kill, of a hard timeout or of output
\* that could not be delivered is true of the whole group: the controls "stay
\* live while the remaining output drains: the leader can exit while descendants
\* keep its pipes open", so nothing is left to hold them unless the kill itself
\* failed.
TerminationIsOver ==
    /\ outcome \in Terminations => leader # "running"
    /\ \/ outcome = "Killed"
       \/ outcome = "TimedOut" /\ ~ spec.grace
       \/ outcome \in Terminations /\ Failed # {}
       => killFailed \/ (~ descendants /\ held = {})

\* "output is incomplete, which must surface as an error, never as a clean
\* exit with truncated output": a result that is not marked truncated was
\* read to the end of every pipe and taken by the sink.
CleanResultIsComplete ==
    outcome \in Terminations /\ ~ truncated =>
        \A s \in Streams : pump[s] = "ok" /\ unread[s] = 0

\* "a backgrounded grandchild holding the pipes without writing cannot stall
\* the call": once the leader is gone and nothing more is written, the call
\* resolves, whoever holds the pipes and however long the sink blocks.  Output
\* that keeps coming arms the deadline again for ever.
ExitResolves ==
    <>[][\A s \in Streams : ~ Group(Write(s))]_vars => (leader # "running" ~> pc = "done")

\* A stop that must end in a kill resolves the call, exited leader or not and
\* however much is still written.  Only a kill that failed on a running command
\* leaves the call waiting for it.
StopResolves ==
    (\/ "kill" \in caller
     \/ "timeout" \in elapsed
     \/ Failed # {}
     \/ spec.grace /\ "term" \in caller) ~> (pc = "done" \/ (killFailed /\ leader = "running"))
=============================================================================
