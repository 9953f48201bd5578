----------------------------- MODULE DrainStops -----------------------------
(***************************************************************************)
(* drain_with_stops (sandbox-driver, drain.rs): the stop race that Docker  *)
(* and nested Daytona execs run under a command's output, below the ladder *)
(* of StopLadder.                                                          *)
(*                                                                         *)
(* The drain is the provider's future over the command's output.  It is    *)
(* polled by the race only, so it makes no progress while the race awaits  *)
(* `stop`.  `stop` is the provider's callback (a stop file in a container, *)
(* a signal to a nested job): it reaches the command or fails.             *)
(***************************************************************************)
EXTENDS StopLadder

VARIABLES
    pc,           \* the race: in its select, awaiting `stop` inside or after
                  \* the loop, or returned
    phase,        \* StopPhase
    termination,  \* the local of that name
    sending,      \* the StopLevel a pending `stop` carries
    signalled,    \* the strongest level that reached the command
    sinkFailed,   \* the sink_failed token
    drain,        \* the drain future: "pending" or "ready"
    drainDue,     \* drain_until has passed
    outcome       \* what the call returned, "none" until then

raceVars == <<pc, phase, termination, sending, signalled, sinkFailed, drain,
              drainDue, outcome>>
vars == <<ladderVars, raceVars>>

Levels == {"Term", "Kill"}

TypeOK ==
    /\ LadderTypeOK
    /\ pc \in {"select", "stop", "last_stop", "done"}
    /\ phase \in {"Running", "TermSent", "KillSent"}
    /\ termination \in {"Exited", "TimedOut", "Cancelled", "Killed"}
    /\ sending \in Levels \cup {"none"}
    /\ signalled \in Levels \cup {"none"}
    /\ sinkFailed \in BOOLEAN
    /\ drain \in {"pending", "ready"}
    /\ drainDue \in BOOLEAN
    /\ outcome \in {"none", "error", "Exited", "TimedOut", "Cancelled", "Killed"}

Init ==
    /\ LadderInit
    /\ pc = "select"
    /\ phase = "Running"
    /\ termination = "Exited"
    /\ sending = "none"
    /\ signalled = "none"
    /\ sinkFailed = FALSE
    /\ drain = "pending"
    /\ drainDue = FALSE
    /\ outcome = "none"

-----------------------------------------------------------------------------
(* Around the race.                                                         *)

\* The ladder shares the task of the race and is dropped with it.
Beside(A) == pc # "done" /\ A /\ UNCHANGED raceVars

\* The sink refuses a chunk; the drain remembers it and goes on.
SinkFails ==
    /\ pc = "select" /\ drain = "pending" /\ ~ sinkFailed
    /\ sinkFailed' = TRUE
    /\ UNCHANGED <<ladderVars, pc, phase, termination, sending, signalled,
                   drain, drainDue, outcome>>

\* The output closes or breaks off.  It may also stay open after the command
\* ended, held by a descendant, or break off while the command runs.
DrainEnds ==
    /\ pc = "select" /\ drain = "pending"
    /\ drain' = "ready"
    /\ UNCHANGED <<ladderVars, pc, phase, termination, sending, signalled,
                   sinkFailed, drainDue, outcome>>

DrainTimer ==
    /\ pc # "done" /\ phase = "KillSent" /\ ~ drainDue
    /\ drainDue' = TRUE
    /\ UNCHANGED <<ladderVars, pc, phase, termination, sending, signalled,
                   sinkFailed, drain, outcome>>

-----------------------------------------------------------------------------
(* The race.                                                                *)

KillSent == phase = "KillSent"

\* An arm that stops the command: the phase moves before `stop` is awaited.
Arm(why, p, level) ==
    /\ pc = "select"
    /\ termination' = why
    /\ phase' = p
    /\ sending' = level
    /\ pc' = "stop"
    /\ UNCHANGED <<ladderVars, signalled, sinkFailed, drain, drainDue, outcome>>

SinkArm == sinkFailed /\ ~ KillSent /\ Arm("Cancelled", "KillSent", "Kill")
TermArm == RawTerm /\ phase = "Running" /\ Arm("Cancelled", "TermSent", "Term")
KillArm == RawKill /\ ~ KillSent /\ Arm("Killed", "KillSent", "Kill")
TimeoutArm == RawTimeout /\ ~ KillSent /\ Arm("TimedOut", "KillSent", "Kill")

Stronger(level) == IF signalled = "Kill" THEN "Kill" ELSE level

\* `stop` reaches the command, then its answer the race.
StopReaches ==
    /\ pc \in {"stop", "last_stop"} /\ sending # "none"
    /\ signalled' = Stronger(sending)
    /\ sending' = "none"
    /\ UNCHANGED <<ladderVars, pc, phase, termination, sinkFailed, drain, drainDue, outcome>>

StopReturns ==
    /\ sending = "none"
    /\ \/ pc = "stop" /\ pc' = "select" /\ UNCHANGED outcome
       \/ pc = "last_stop" /\ pc' = "done" /\ outcome' = Reported(termination)
    /\ UNCHANGED <<ladderVars, phase, termination, sending, signalled, sinkFailed,
                   drain, drainDue>>

\* `stop` failed, or its answer was lost: the race ends with its error.
StopFails ==
    /\ pc \in {"stop", "last_stop"}
    /\ sending' = "none"
    /\ pc' = "done"
    /\ outcome' = "error"
    /\ UNCHANGED <<ladderVars, phase, termination, signalled, sinkFailed, drain,
                   drainDue>>

\* Mutated: the sink is not looked at again once the loop is left.
LeaveAtOnce ==
    /\ pc = "select"
    /\ drain = "ready" \/ (KillSent /\ drainDue)
    /\ pc' = "done"
    /\ outcome' = Reported(termination)
    /\ UNCHANGED <<ladderVars, phase, termination, sending, signalled, sinkFailed,
                   drain, drainDue>>

\* The loop is left with the drain's output, or without it when the grace
\* after a kill has passed.  A sink that failed as the drain ended gets its
\* kill now.
Leave ==
    /\ pc = "select"
    /\ drain = "ready" \/ (KillSent /\ drainDue)
    /\ IF sinkFailed /\ ~ KillSent
       THEN /\ termination' = "Cancelled"
            /\ sending' = "Kill"
            /\ pc' = "last_stop"
            /\ UNCHANGED outcome
       ELSE /\ pc' = "done"
            /\ outcome' = Reported(termination)
            /\ UNCHANGED <<termination, sending>>
    /\ UNCHANGED <<ladderVars, phase, signalled, sinkFailed, drain, drainDue>>

StopEnds == StopReaches \/ StopReturns \/ StopFails

Next ==
    \/ \E t \in Tokens : Beside(FireToken(t))
    \/ Beside(TimeoutElapses)
    \/ Beside(GraceElapses)
    \/ Beside(LadderStep)
    \/ SinkFails \/ DrainEnds \/ DrainTimer
    \/ SinkArm \/ TermArm \/ KillArm \/ TimeoutArm
    \/ StopEnds \/ Leave

\* The task is polled and its timers run; `stop` returns, as the Docker API
\* and the nested CLI bound their own calls.  Nothing is assumed of the
\* command, its output, the sink or the caller.
Fairness ==
    /\ WF_vars(Beside(GraceElapses))
    /\ WF_vars(Beside(LadderStep))
    /\ WF_vars(DrainTimer)
    /\ WF_vars(SinkArm \/ TermArm \/ KillArm \/ TimeoutArm \/ Leave)
    /\ WF_vars(StopEnds)

Spec == Init /\ [][Next]_vars
FairSpec == Spec /\ Fairness

-----------------------------------------------------------------------------
(* Properties.                                                              *)

Asked == caller \cup (elapsed \cap {"timeout"}) \cup (IF sinkFailed THEN {"output"} ELSE {})

Contract == INSTANCE ExecContract WITH
    grace <- spec.grace, asked <- Asked

\* The race under the ladder implements the exec contract: one TERM at most,
\* never behind the KILL, and a Termination that is true to what was asked and
\* sent, whichever arms were ready together and whenever the drain ended.
ImplementsContract == Contract!Spec

\* "A sink that fails as the drain ends still gets its kill, so the command
\* does not outlive the caller that stopped listening."
FailedSinkKills ==
    pc = "done" /\ sinkFailed /\ outcome # "error" => signalled = "Kill"

\* A stop that must end in a kill and whose call has not returned yet.
StopIsPending ==
    /\ \/ "kill" \in caller
       \/ "timeout" \in elapsed
       \/ sinkFailed
       \/ spec.grace /\ "term" \in caller
    /\ pc # "done"
=============================================================================
