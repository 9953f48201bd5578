--------------------------- MODULE DerivedServices ---------------------------
(***************************************************************************)
(* Background services derived from exec (derived/service.rs).  spawn      *)
(* leaves a supervising shell behind, in a session of its own where the    *)
(* sandbox has setsid; the shell runs the command, records its exit code,  *)
(* and on TERM records 143.  stop is a script: TERM to the group, polls    *)
(* for the record or the end of the leader, then KILL.  Stops run beside   *)
(* the service and beside each other, one shell command at a time.         *)
(*                                                                         *)
(* A shell runs its trap only once its foreground command has ended.  A    *)
(* sandbox whose first process reaps nothing keeps the dead leader as a    *)
(* zombie, which kill -0 takes for alive.                                  *)
(***************************************************************************)
EXTENDS Naturals

CONSTANTS
    Stoppers,        \* callers of stop
    STOP_GRACE_POLLS \* polls before KILL

ASSUME ServicesAssumption == STOP_GRACE_POLLS \in Nat

VARIABLES
    setsid,     \* the sandbox has setsid
    reaps,      \* the sandbox's first process reaps orphans
    stubborn,   \* the command ignores TERM
    spawned,    \* spawn: "no", "dir", "started", "failed" or "ok"
    pidRecord,    \* $dir/pid is written
    exitFile,   \* $dir/exit: "none" or the recorded code
    leader,     \* the supervising shell
    command,    \* the command: "none", "running" or "ended"
    termed,     \* a TERM waits for the shell's trap
    stopAt,     \* each stop: its next command
    polls       \* each stop's polls

serviceVars == <<setsid, reaps, stubborn, spawned, pidRecord, exitFile, leader, command, termed,
                 stopAt, polls>>
sandboxVars == <<setsid, reaps, stubborn>>
stopVars == <<stopAt, polls>>

Exits == {"none", "0", "143", "137"}

ServicesTypeOK ==
    /\ {setsid, reaps, stubborn, pidRecord, termed} \subseteq BOOLEAN
    /\ spawned \in {"no", "dir", "started", "failed", "ok"}
    /\ exitFile \in Exits
    /\ leader \in {"none", "forked", "grouped", "running", "recorded", "zombie", "gone"}
    /\ command \in {"none", "running", "ended"}
    /\ stopAt \in [Stoppers -> {"idle", "term", "poll", "kill", "record", "ok"}]
    /\ polls \in [Stoppers -> 0..STOP_GRACE_POLLS]

ServicesInit ==
    /\ setsid \in BOOLEAN /\ reaps \in BOOLEAN /\ stubborn \in BOOLEAN
    /\ spawned = "no" /\ pidRecord = FALSE /\ exitFile = "none"
    /\ leader = "none" /\ command = "none" /\ termed = FALSE
    /\ stopAt = [s \in Stoppers |-> "idle"] /\ polls = [s \in Stoppers |-> 0]

-----------------------------------------------------------------------------
\* spawn: the directory is made, or the sandbox refuses it or the working directory.
SpawnMakesDir ==
    /\ spawned = "no"
    /\ spawned' \in {"dir", "failed"}
    /\ UNCHANGED <<sandboxVars, pidRecord, exitFile, leader, command, termed, stopVars>>

\* The shell starts in the background; nothing is recorded yet.
SpawnStarts ==
    /\ spawned = "dir" /\ spawned' = "started"
    /\ leader' = "forked"
    /\ UNCHANGED <<sandboxVars, pidRecord, exitFile, command, termed, stopVars>>

\* The pid is recorded and the id printed, without waiting for the shell.
SpawnRecordsPid ==
    /\ spawned = "started" /\ spawned' = "ok"
    /\ pidRecord' = TRUE
    /\ UNCHANGED <<sandboxVars, exitFile, leader, command, termed, stopVars>>

\* The process becomes the leader of its own session, where there is setsid.
LeaderGroups ==
    /\ leader = "forked" /\ setsid /\ leader' = "grouped"
    /\ UNCHANGED <<sandboxVars, spawned, pidRecord, exitFile, command, termed, stopVars>>

\* The shell sets its trap and runs the command.
LeaderRuns ==
    /\ leader = IF setsid THEN "grouped" ELSE "forked"
    /\ leader' = "running" /\ command' = "running"
    /\ UNCHANGED <<sandboxVars, spawned, pidRecord, exitFile, termed, stopVars>>

CommandEnds ==
    /\ command = "running" /\ command' = "ended"
    /\ UNCHANGED <<sandboxVars, spawned, pidRecord, exitFile, leader, termed, stopVars>>

Ended == IF reaps THEN "gone" ELSE "zombie"

\* The command is over: a TERM that waited runs the trap, else the exit code is recorded.
LeaderRecords ==
    /\ leader = "running" /\ command = "ended"
    /\ IF termed THEN exitFile' = "143" /\ leader' = Ended
                 ELSE exitFile' = "0" /\ leader' = "recorded"
    /\ UNCHANGED <<sandboxVars, spawned, pidRecord, command, termed, stopVars>>

\* The shell exits after its record; a TERM before that runs the trap once more.
LeaderExits ==
    /\ leader = "recorded" /\ leader' = Ended
    /\ exitFile' = IF termed THEN "143" ELSE exitFile
    /\ UNCHANGED <<sandboxVars, spawned, pidRecord, command, termed, stopVars>>

-----------------------------------------------------------------------------
StopGoes(s, at) == stopAt' = [stopAt EXCEPT ![s] = at]

\* kill -0: a zombie still answers.
LeaderAnswers == leader \notin {"none", "gone"}

\* A group of the leader's own, with a member that can be signalled.
HasGroup == setsid /\ leader \notin {"none", "forked"} /\ (LeaderAnswers \/ command = "running")

\* stop, of an id this facet gave out; without a pid file there is nothing to do.
stop(s) ==
    /\ stopAt[s] = "idle" /\ spawned = "ok"
    /\ StopGoes(s, IF pidRecord THEN "term" ELSE "ok")
    /\ UNCHANGED <<sandboxVars, spawned, pidRecord, exitFile, leader, command, termed, polls>>

\* TERM to the group, or to the leader alone where it has none.  A shell that has not set
\* its trap dies of it.
StopTerms(s) ==
    /\ stopAt[s] = "term"
    /\ leader' = IF leader \in {"forked", "grouped"} THEN Ended ELSE leader
    /\ termed' = (termed \/ leader \in {"running", "recorded"})
    /\ command' = IF HasGroup /\ command = "running" /\ ~stubborn THEN "ended" ELSE command
    /\ StopGoes(s, "poll")
    /\ UNCHANGED <<sandboxVars, spawned, pidRecord, exitFile, polls>>

\* The exit record, or a leader that is gone, ends the stop.
StopPolls(s) ==
    /\ stopAt[s] = "poll"
    /\ IF exitFile # "none" \/ ~LeaderAnswers THEN StopGoes(s, "ok") /\ UNCHANGED polls
       ELSE IF polls[s] < STOP_GRACE_POLLS
         THEN polls' = [polls EXCEPT ![s] = @ + 1] /\ UNCHANGED stopAt
         ELSE StopGoes(s, "kill") /\ UNCHANGED polls
    /\ UNCHANGED <<sandboxVars, spawned, pidRecord, exitFile, leader, command, termed>>

\* KILL to the leader alone.
StopKillsLeader(s) ==
    /\ stopAt[s] = "kill"
    /\ leader' = IF LeaderAnswers THEN Ended ELSE leader
    /\ UNCHANGED command
    /\ StopGoes(s, "record")
    /\ UNCHANGED <<sandboxVars, spawned, pidRecord, exitFile, termed, polls>>

\* KILL to the group, or to the leader alone where it has none.
StopKills(s) ==
    /\ stopAt[s] = "kill"
    /\ leader' = IF LeaderAnswers THEN Ended ELSE leader
    /\ command' = IF HasGroup /\ command = "running" THEN "ended" ELSE command
    /\ StopGoes(s, "record")
    /\ UNCHANGED <<sandboxVars, spawned, pidRecord, exitFile, termed, polls>>

\* The record a killed shell could not write.
StopRecords(s) ==
    /\ stopAt[s] = "record"
    /\ exitFile' = IF exitFile = "none" THEN "137" ELSE exitFile
    /\ StopGoes(s, "ok")
    /\ UNCHANGED <<sandboxVars, spawned, pidRecord, leader, command, termed, polls>>

\* status: the record before the pid.
ServiceStatus ==
    IF exitFile # "none" THEN "exited"
    ELSE IF pidRecord /\ LeaderAnswers THEN "running" ELSE "unknown"

-----------------------------------------------------------------------------
ServicesNext ==
    \/ SpawnMakesDir \/ SpawnStarts \/ SpawnRecordsPid
    \/ LeaderGroups \/ LeaderRuns \/ CommandEnds \/ LeaderRecords \/ LeaderExits
    \/ \E s \in Stoppers : stop(s) \/ StopTerms(s) \/ StopPolls(s) \/ StopKills(s) \/ StopRecords(s)

-----------------------------------------------------------------------------
\* A service that a stop has answered for is over, however early after spawn the stop came,
\* whatever the command does with TERM and whether or not the dead leader is reaped: status
\* never says running again, and where the service has a session of its own its command has
\* ended or was never started.
StoppedServiceIsOver ==
    \A s \in Stoppers : stopAt[s] = "ok" =>
      /\ ServiceStatus # "running"
      /\ setsid => command # "running" /\ leader \notin {"forked", "grouped"}
=============================================================================
