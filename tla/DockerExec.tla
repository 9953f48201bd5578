----------------------------- MODULE DockerExec -----------------------------
(***************************************************************************)
(* One command in a Docker container (sandbox-driver-docker: exec.rs): the *)
(* shell wrapper with its watcher, the command's process group, the stop   *)
(* file a second exec writes, and the two clients that write it: the stop  *)
(* race of run_signals and the stdio handle.                               *)
(*                                                                         *)
(* Each shell command is one step; a redirection truncates its file before *)
(* the write.                                                              *)
(***************************************************************************)
EXTENDS Naturals

CONSTANT MaxDaemonErrors   \* bound on requests the daemon fails

ASSUME DaemonErrorsAssumption == MaxDaemonErrors \in Nat

VARIABLES
    wrapper,     \* where the wrapper stands
    watcher,     \* where its watcher stands
    execLeader,      \* the command, which leads its session once setsid ran
    child,       \* a descendant in the command's process group
    stopFile,    \* contents of the stop file
    pidFile,     \* contents of the pid file
    status,      \* the wrapper's exit status
    client,      \* the client: its kind, where it stands, the level it writes
    asked,       \* the levels whose request has been made
    daemonErrors \* requests the daemon failed

files == <<stopFile, pidFile>>
processes == <<wrapper, watcher, execLeader, child>>
execVars == <<processes, files, status, client, asked, daemonErrors>>

WrapperSteps == {"tools", "check", "refuse", "watch", "launch", "pid_open", "pid_write",
                 "wait", "unwatch", "remove", "exited"}
WatcherSteps == {"none", "stop", "pid", "mode", "term", "again", "kill", "gone"}
ClientSteps == {"idle", "opening", "writing", "grace", "again", "over"}
Contents == {"absent", "empty", "term", "kill"}

ExecTypeOK ==
    /\ wrapper \in WrapperSteps
    /\ watcher \in WatcherSteps
    /\ execLeader \in {"none", "forked", "running", "dead"}
    /\ child \in {"none", "running", "dead"}
    /\ stopFile \in Contents
    /\ pidFile \in {"absent", "empty", "set"}
    /\ status \in {"none", "exit", "signal", "143", "137", "127"}
    /\ client \in [kind : {"run", "stdio"}, at : ClientSteps, level : {"none", "term", "kill"}]
    /\ asked \subseteq {"term", "kill"}
    /\ daemonErrors \in 0..MaxDaemonErrors

ExecInit ==
    /\ wrapper = "tools"
    /\ watcher = "none"
    /\ execLeader = "none"
    /\ child = "none"
    /\ stopFile = "absent"
    /\ pidFile = "absent"
    /\ status = "none"
    /\ client \in [kind : {"run", "stdio"}, at : {"idle"}, level : {"none"}]
    /\ asked = {}
    /\ daemonErrors = 0

ProcessAlive(p) == p \in {"forked", "running"}

-----------------------------------------------------------------------------
(* command_wrapper.                                                         *)

\* The image provides setsid and env, or the wrapper gives up.
WrapperLooksForTools ==
    /\ wrapper = "tools"
    /\ \/ wrapper' = "check" /\ UNCHANGED status
       \/ wrapper' = "exited" /\ status' = "127"
    /\ UNCHANGED <<watcher, execLeader, child, files, client, asked, daemonErrors>>

\* A stop file that is there already, written or not, ends the wrapper.
WrapperCheck ==
    /\ wrapper = "check"
    /\ pidFile' = "absent"
    /\ wrapper' = IF stopFile = "absent" THEN "watch" ELSE "refuse"
    /\ UNCHANGED <<watcher, execLeader, child, stopFile, status, client, asked, daemonErrors>>

WrapperRefuse ==
    /\ wrapper = "refuse"
    /\ status' = IF stopFile = "kill" THEN "137" ELSE "143"
    /\ stopFile' = "absent"
    /\ wrapper' = "exited"
    /\ UNCHANGED <<watcher, execLeader, child, pidFile, client, asked, daemonErrors>>

WrapperWatch ==
    /\ wrapper = "watch"
    /\ watcher' = "stop"
    /\ wrapper' = "launch"
    /\ UNCHANGED <<execLeader, child, files, status, client, asked, daemonErrors>>

\* setsid env "$@" &
WrapperLaunch ==
    /\ wrapper = "launch"
    /\ execLeader' = "forked"
    /\ wrapper' = "pid_open"
    /\ UNCHANGED <<watcher, child, files, status, client, asked, daemonErrors>>

WrapperPid ==
    /\ \/ /\ wrapper = "pid_open"
          /\ pidFile' = "empty"
          /\ wrapper' = "pid_write"
       \/ /\ wrapper = "pid_write"
          /\ pidFile' = "set"
          /\ wrapper' = "wait"
    /\ UNCHANGED <<watcher, execLeader, child, stopFile, status, client, asked, daemonErrors>>

WrapperReap ==
    /\ wrapper = "wait"
    /\ execLeader = "dead"
    /\ wrapper' = "unwatch"
    /\ UNCHANGED <<watcher, execLeader, child, files, status, client, asked, daemonErrors>>

\* kill "$watcher"; wait "$watcher"
WrapperUnwatch ==
    /\ wrapper = "unwatch"
    /\ watcher' = "gone"
    /\ wrapper' = "remove"
    /\ UNCHANGED <<execLeader, child, files, status, client, asked, daemonErrors>>

WrapperRemove ==
    /\ wrapper = "remove"
    /\ stopFile' = "absent"
    /\ pidFile' = "absent"
    /\ wrapper' = "exited"
    /\ UNCHANGED <<watcher, execLeader, child, status, client, asked, daemonErrors>>

-----------------------------------------------------------------------------
(* The watcher, a background loop of the wrapper.                           *)

\* What kill -0 sees: a dead command is a zombie until the wrapper reaped it.
Reaped == execLeader = "dead" /\ wrapper \in {"unwatch", "remove", "exited"}

WatcherWaits ==
    /\ \/ watcher = "stop" /\ stopFile \in {"term", "kill"} /\ watcher' = "pid"
       \/ watcher = "pid" /\ pidFile = "set" /\ watcher' = "mode"
    /\ UNCHANGED <<wrapper, execLeader, child, files, status, client, asked, daemonErrors>>

WatcherReadsMode ==
    /\ watcher = "mode"
    /\ watcher' = IF stopFile = "kill" THEN "kill" ELSE "term"
    /\ UNCHANGED <<wrapper, execLeader, child, files, status, client, asked, daemonErrors>>

\* kill -TERM of the group, or of the command alone before its setsid.  Every
\* process may catch it.
WatcherTerms ==
    /\ watcher = "term"
    /\ watcher' = "again"
    /\ execLeader' \in IF ProcessAlive(execLeader) THEN {execLeader, "dead"} ELSE {execLeader}
    /\ child' \in IF child = "running" THEN {"running", "dead"} ELSE {child}
    /\ status' = IF execLeader' # execLeader THEN "signal" ELSE status
    /\ UNCHANGED <<wrapper, files, client, asked, daemonErrors>>

\* A watcher that ends after its TERM.
WatcherLooksOnce ==
    /\ watcher = "again"
    /\ watcher' = IF Reaped \/ stopFile # "kill" THEN "gone" ELSE "kill"
    /\ UNCHANGED <<wrapper, execLeader, child, files, status, client, asked, daemonErrors>>

\* Poll for a kill while the command is there.
WatcherLooksAgain ==
    /\ watcher = "again"
    /\ Reaped \/ stopFile = "kill"
    /\ watcher' = IF Reaped THEN "gone" ELSE "kill"
    /\ UNCHANGED <<wrapper, execLeader, child, files, status, client, asked, daemonErrors>>

WatcherKills ==
    /\ watcher = "kill"
    /\ watcher' = "gone"
    /\ execLeader' = "dead"
    /\ child' = IF child = "running" /\ execLeader # "forked" THEN "dead" ELSE child
    /\ status' = IF ProcessAlive(execLeader) THEN "signal" ELSE status
    /\ UNCHANGED <<wrapper, files, client, asked, daemonErrors>>

-----------------------------------------------------------------------------
(* The command.                                                             *)

CommandStarts ==
    /\ execLeader = "forked"
    /\ execLeader' = "running"
    /\ UNCHANGED <<wrapper, watcher, child, files, status, client, asked, daemonErrors>>

CommandForks ==
    /\ execLeader = "running"
    /\ child = "none"
    /\ child' = "running"
    /\ UNCHANGED <<wrapper, watcher, execLeader, files, status, client, asked, daemonErrors>>

CommandExits ==
    /\ execLeader = "running"
    /\ execLeader' = "dead"
    /\ status' = "exit"
    /\ UNCHANGED <<wrapper, watcher, child, files, client, asked, daemonErrors>>

-----------------------------------------------------------------------------
(* The clients.  request_stop opens the file, then writes the level.        *)

Working(kind, at) == client.kind = kind /\ client.at = at

\* drain_with_stops asks for TERM and then KILL, or for KILL alone.
RunAsks(level) ==
    /\ Working("run", "idle")
    /\ level \notin asked /\ "kill" \notin asked
    /\ asked' = asked \cup {level}
    /\ client' = [client EXCEPT !.at = "opening", !.level = level]
    /\ UNCHANGED <<processes, files, status, daemonErrors>>

\* terminate: the process is looked at before either request.  A daemon that
\* does not answer counts as running.
HandleLooks ==
    /\ client.kind = "stdio"
    /\ client.at \in {"idle", "again"}
    /\ LET level == IF client.at = "idle" THEN "term" ELSE "kill"
       IN \/ /\ wrapper = "exited"
             /\ client' = [client EXCEPT !.at = "over"]
             /\ UNCHANGED <<asked, daemonErrors>>
          \/ /\ \/ wrapper # "exited" /\ UNCHANGED daemonErrors
                \/ /\ daemonErrors < MaxDaemonErrors
                   /\ daemonErrors' = daemonErrors + 1
             /\ client' = [client EXCEPT !.at = "opening", !.level = level]
             /\ asked' = asked \cup {level}
    /\ UNCHANGED <<processes, files, status>>

RequestOpens ==
    /\ client.at = "opening"
    /\ stopFile' = "empty"
    /\ client' = [client EXCEPT !.at = "writing"]
    /\ UNCHANGED <<processes, pidFile, status, asked, daemonErrors>>

\* Written, unless the wrapper removed the opened file in between.
Written == IF stopFile = "absent" THEN "absent" ELSE client.level

RequestWrites ==
    /\ client.at = "writing"
    /\ stopFile' = Written
    /\ client' = [client EXCEPT !.at = IF client.kind = "run" THEN "idle"
                                       ELSE IF client.level = "term" THEN "grace" ELSE "over"]
    /\ UNCHANGED <<processes, pidFile, status, asked, daemonErrors>>

\* run_signals returns the error, of the request or of the look at its exit code; terminate
\* logs it and gives up.
RequestFails ==
    /\ \/ client.at = "opening" /\ UNCHANGED stopFile
       \/ client.at = "writing" /\ stopFile' = Written
    /\ daemonErrors < MaxDaemonErrors
    /\ daemonErrors' = daemonErrors + 1
    /\ client' = [client EXCEPT !.at = "over"]
    /\ UNCHANGED <<processes, pidFile, status, asked>>

CleanupGraceEnds ==
    /\ client.at = "grace"
    /\ client' = [client EXCEPT !.at = "again"]
    /\ UNCHANGED <<processes, files, status, asked, daemonErrors>>

-----------------------------------------------------------------------------

WrapperStep ==
    \/ WrapperLooksForTools \/ WrapperCheck \/ WrapperRefuse \/ WrapperWatch \/ WrapperLaunch
    \/ WrapperPid \/ WrapperReap \/ WrapperUnwatch \/ WrapperRemove
WatcherStep ==
    WatcherWaits \/ WatcherReadsMode \/ WatcherTerms \/ WatcherLooksAgain \/ WatcherKills
RequestStep == RequestOpens \/ RequestWrites \/ CleanupGraceEnds \/ (client.at = "again" /\ HandleLooks)

ExecNext ==
    \/ WrapperStep \/ WatcherStep
    \/ CommandStarts \/ CommandForks \/ CommandExits
    \/ \E level \in {"term", "kill"} : RunAsks(level)
    \/ HandleLooks \/ RequestOpens \/ RequestWrites \/ RequestFails \/ CleanupGraceEnds

-----------------------------------------------------------------------------
(* Properties.                                                              *)

\* "A stop request is honored at any point" (command_wrapper): at every moment
\* in which the command runs there is a watcher that has not finished, so the
\* request that comes next is read.
RunningIsWatched == ProcessAlive(execLeader) => watcher \notin {"none", "gone"}

\* A stop the command owes its end to: a kill, whether it lands before the wrapper's check,
\* between its steps, on a half-written pid file or after a TERM the command ignores, and one
\* terminate() of a stdio handle.  (Unless the daemon failed a request.)
StopIsOwed ==
    /\ "kill" \in asked \/ (client.kind = "stdio" /\ asked # {})
    /\ wrapper # "exited" /\ daemonErrors = 0
=============================================================================
