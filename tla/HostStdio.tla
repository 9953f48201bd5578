------------------------------ MODULE HostStdio ------------------------------
(***************************************************************************)
(* A stdio process of the host provider (sandbox-driver-host: exec.rs,     *)
(* HostStdioHandle; fence/direct.rs and fence/sentinel.rs, HostChild).  A  *)
(* supervisor task owns the child and races its exit against a request to  *)
(* terminate; callers wait and terminate through two watch channels, from  *)
(* any task and in any order, and the sandbox may stop underneath.         *)
(*                                                                         *)
(* The two backends differ in who reaps.  With the sentinel, the group's   *)
(* id stays pinned until stop; without it, the supervisor's own wait frees *)
(* the leader's pid, and with it the id of an empty group.                 *)
(***************************************************************************)
CONSTANTS StdioCallers    \* tasks that hold the handle

VARIABLES
    backend,    \* "sentinel" or "direct"
    hardened,   \* the processes that ignore TERM
    process,    \* the leader and one descendant of it
    reaped,     \* nobody's id stands for the group any more
    away,       \* the leader has moved out of its process group
    groupDead,  \* the group was killed, its sentinel too
    pinned,     \* the sentinel still holds the group: stop has not taken it
    supervisor, \* the supervisor task's step
    termSent,  \* the supervisor has sent TERM
    terminate,  \* the terminate channel
    told,       \* the outcome channel
    waitFailed, \* the kernel, or the task that asks it, failed a wait for the child
    asks        \* each caller: what it waits for, and what it got

stdioProcVars == <<backend, hardened, process, away, groupDead, reaped, pinned,
                   supervisor, termSent, terminate, told, waitFailed, asks>>
commandVars == <<backend, hardened>>

Processes == {"leader", "child"}
Outcomes == {"none", "Exited", "Cancelled", "Unknown"}

HostStdioTypeOK ==
    /\ backend \in {"sentinel", "direct"} /\ hardened \subseteq Processes
    /\ process \in [Processes -> {"none", "running", "ended"}]
    /\ {away, groupDead, reaped, pinned, termSent, terminate, waitFailed} \subseteq BOOLEAN
    /\ supervisor \in {"race", "grace", "kill", "reap", "over", "gone"}
    /\ told \in Outcomes
    /\ asks \in [StdioCallers -> [op : {"none", "wait", "terminate"}, got : Outcomes]]

HostStdioInit ==
    /\ backend \in {"sentinel", "direct"} /\ hardened \in SUBSET Processes
    /\ process = [p \in Processes |-> IF p = "leader" THEN "running" ELSE "none"]
    /\ away = FALSE /\ groupDead = FALSE /\ reaped = FALSE /\ pinned = TRUE
    /\ supervisor = "race" /\ termSent = FALSE
    /\ terminate = FALSE /\ told = "none" /\ waitFailed = FALSE
    /\ asks = [c \in StdioCallers |-> [op |-> "none", got |-> "none"]]

-----------------------------------------------------------------------------
\* The processes themselves.
Runs(step) ==
    /\ step
    /\ UNCHANGED <<commandVars, groupDead, reaped, pinned, supervisor, termSent, terminate,
                   told, waitFailed, asks>>
Forks ==
    /\ process["leader"] = "running" /\ process["child"] = "none"
    /\ Runs(process' = [process EXCEPT !["child"] = "running"] /\ UNCHANGED away)
LeavesGroup ==
    /\ process["leader"] = "running"
    /\ Runs(away' = TRUE /\ UNCHANGED process)
ProcessEnds(p) ==
    /\ process[p] = "running"
    /\ Runs(process' = [process EXCEPT ![p] = "ended"] /\ UNCHANGED away)

\* What a signal to the group does: KILL takes the sentinel along.
InGroup(p) == p = "child" \/ ~away
Survives(p, s) == s = "TERM" /\ p \in hardened
Hit(s) ==
    /\ process' = [p \in Processes |->
                     IF process[p] = "running" /\ InGroup(p) /\ ~Survives(p, s)
                     THEN "ended" ELSE process[p]]
    /\ groupDead' = (groupDead \/ s = "KILL")

\* A stop of the sandbox kills the group and reaps its sentinel.
SandboxStops ==
    /\ backend = "sentinel" /\ pinned
    /\ pinned' = FALSE /\ Hit("KILL")
    /\ UNCHANGED <<commandVars, away, reaped, supervisor, termSent, terminate, told,
                   waitFailed, asks>>

-----------------------------------------------------------------------------
\* HostChild::wait: the recorded or collected status; a group that died, or that stop took,
\* counts as killed.
wait_ready ==
    \/ process["leader"] = "ended"
    \/ backend = "sentinel" /\ (~pinned \/ groupDead)
Collects == reaped' = (reaped \/ backend = "direct")

\* HostChild::signal: nothing is sent once the child was collected, or stop took the group.
signal(s) ==
    IF IF backend = "direct" THEN ~reaped ELSE pinned
    THEN Hit(s) ELSE UNCHANGED <<process, groupDead>>

\* The outcome channel: watch::Sender::send.
Tells(o) == told' = o

\* The race: the child exits,
ChildExits ==
    /\ supervisor = "race" /\ wait_ready
    /\ Collects /\ Tells("Exited") /\ supervisor' = "over"
    /\ UNCHANGED <<commandVars, process, away, groupDead, pinned, termSent, terminate,
                   waitFailed, asks>>

\* The outcome is told as TERM is sent.
TerminateTells ==
    /\ supervisor = "race" /\ terminate
    /\ signal("TERM") /\ termSent' = TRUE
    /\ Tells("Cancelled") /\ supervisor' = "over"
    /\ UNCHANGED <<commandVars, away, reaped, pinned, terminate, waitFailed, asks>>

\* or a terminate is asked for: HostChild::terminate begins with TERM to the group.
TerminateAsked ==
    /\ supervisor = "race" /\ terminate
    /\ signal("TERM") /\ termSent' = TRUE
    /\ supervisor' = "grace"
    /\ UNCHANGED <<commandVars, away, reaped, pinned, terminate, told, waitFailed, asks>>

\* The grace: the child ends in time, or it does not.
GraceEnds ==
    /\ supervisor = "grace"
    /\ \/ wait_ready /\ Collects /\ supervisor' = "reap"
       \/ UNCHANGED reaped /\ supervisor' = "kill"
    /\ UNCHANGED <<commandVars, process, away, groupDead, pinned, termSent, terminate, told,
                   waitFailed, asks>>

\* Only the group is killed; the child may have left it.
killpg_only ==
    /\ supervisor = "kill"
    /\ signal("KILL") /\ UNCHANGED reaped
    /\ supervisor' = "reap"
    /\ UNCHANGED <<commandVars, away, pinned, termSent, terminate, told, waitFailed, asks>>

\* HostChild::kill: the group, and without a sentinel the child itself, which it reaps.
kill ==
    /\ supervisor = "kill"
    /\ IF backend = "direct"
       THEN process' = [p \in Processes |-> IF process[p] = "running" /\ (p = "leader" \/ ~reaped)
                                            THEN "ended" ELSE process[p]]
            /\ groupDead' = TRUE
       ELSE signal("KILL")
    /\ Collects
    /\ supervisor' = "reap"
    /\ UNCHANGED <<commandVars, away, pinned, termSent, terminate, told, waitFailed, asks>>

\* The wait after the terminate.
Reaps ==
    /\ supervisor = "reap" /\ wait_ready
    /\ Tells("Cancelled") /\ supervisor' = "over"
    /\ UNCHANGED <<commandVars, process, away, groupDead, reaped, pinned, termSent, terminate,
                   waitFailed, asks>>

\* A wait fails: the race ends Unknown; within the grace the terminate returns without its
\* kill; after it the cancellation is told without a code.
WaitFails ==
    /\ \/ supervisor = "race" /\ Tells("Unknown") /\ supervisor' = "over"
       \/ supervisor = "grace" /\ supervisor' = "reap" /\ UNCHANGED told
       \/ supervisor = "reap" /\ Tells("Cancelled") /\ supervisor' = "over"
    /\ waitFailed' = TRUE
    /\ UNCHANGED <<commandVars, process, away, groupDead, reaped, pinned, termSent, terminate,
                   asks>>

\* The supervisor task stops without an outcome; without a sentinel the child is killed as
\* its handle drops.
SupervisorStops ==
    /\ supervisor \notin {"over", "gone"} /\ supervisor' = "gone"
    /\ process' = [process EXCEPT !["leader"] = IF backend = "direct" THEN "ended" ELSE @]
    /\ UNCHANGED <<commandVars, away, groupDead, reaped, pinned, termSent, terminate, told,
                   waitFailed, asks>>

-----------------------------------------------------------------------------
\* StdioProcessHandle::wait and terminate; a terminate first sets its channel.
Ask(c, op) ==
    /\ asks[c].op = "none"
    /\ asks' = [asks EXCEPT ![c].op = op]
    /\ terminate' = (terminate \/ op = "terminate")
    /\ UNCHANGED <<commandVars, process, away, groupDead, reaped, pinned, supervisor, termSent,
                   told, waitFailed>>

\* HostStdioHandle::outcome: a channel that closed without an outcome is Unknown.
AskReturns(c) ==
    /\ asks[c].op # "none" /\ asks[c].got = "none"
    /\ told # "none" \/ supervisor = "gone"
    /\ asks' = [asks EXCEPT ![c].got = IF supervisor = "gone" THEN "Unknown" ELSE told]
    /\ UNCHANGED <<commandVars, process, away, groupDead, reaped, pinned, supervisor, termSent,
                   terminate, told, waitFailed>>

SupervisorStep == ChildExits \/ TerminateAsked \/ GraceEnds \/ kill \/ Reaps

HostStdioNext ==
    \/ Forks \/ LeavesGroup \/ SandboxStops \/ SupervisorStep \/ WaitFails \/ SupervisorStops
    \/ \E p \in Processes : ProcessEnds(p)
    \/ \E c \in StdioCallers : AskReturns(c) \/ \E op \in {"wait", "terminate"} : Ask(c, op)

-----------------------------------------------------------------------------
\* A terminate, or a wait, that returns an outcome returns it only once the process has ended:
\* its caller may take the workspace away (a command that left the group of its sentinel is
\* out of the host's reach, and nothing is known where the kernel's wait failed).  Everyone is
\* told the same, Cancelled exactly where TERM was sent and Unknown where nobody knows.
TerminatedIsGone ==
    \A c \in StdioCallers : asks[c].got # "none" =>
        /\ \/ process["leader"] = "ended" \/ (backend = "sentinel" /\ away)
           \/ asks[c].got = "Unknown" \/ waitFailed
        /\ asks[c].got = IF supervisor = "gone" THEN "Unknown" ELSE told
        /\ asks[c].got # "Unknown" => (told = "Cancelled") = termSent

\* A terminate owes its return, whatever the process does with TERM and with its group, and
\* though the supervisor may stop.  (A wait that fails within the grace passes for an exit,
\* so no KILL follows and the terminate may wait for ever.)
TerminateIsOwed ==
    ~waitFailed /\ \E c \in StdioCallers : asks[c].op = "terminate" /\ asks[c].got = "none"
=============================================================================
