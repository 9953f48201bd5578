----------------------------- MODULE RemoteExec -----------------------------
(***************************************************************************)
(* One streaming exec over the plugin protocol (sandbox-driver-protocol):  *)
(* the host's call, channel pump and stop forwarding (client/exec.rs,      *)
(* client/mod.rs), the plugin's registration, run and reply                *)
(* (server/exec.rs, server/mod.rs), and the data channel between them      *)
(* (channel.rs).  One-shot runs take the same path without stdin.          *)
(*                                                                         *)
(* Control messages are handled by tasks of their own, so two stops may be *)
(* handled in either order; an Overloaded stop is retried and stays in     *)
(* flight.  A deadline that is waiting may pass at any time.               *)
(***************************************************************************)
EXTENDS Naturals

CONSTANTS
    StdinModes,  \* how the command takes input: "none", "fixed" or "stream"
    MaxFrames    \* bound: output frames the command produces

ASSUME StdinAssumption == StdinModes \subseteq {"none", "fixed", "stream"}
ASSUME FramesAssumption == MaxFrames \in Nat

Tokens == {"term", "kill"}
Terminations == {"Exited", "TimedOut", "Cancelled", "Killed"}

VARIABLES
    stdin,       \* the request's input, as the plugin's provider takes it
    \* the host
    caller,      \* stop tokens the caller fired
    asked,       \* stop tokens that fired, the host's own kill included
    call,        \* the exec/stream call: "waiting", "ok", "error"; "gone" with the future
    pump,        \* pump_exec_channel: "accept", "reading", "done", "error"; "gone"
    input,       \* feed_stdin_frames: "off", "feeding", "eof", "refused" or "failed"
    sinkFailed,  \* the caller's sink refused a chunk
    fwd,         \* forward_stops: "off", "idle", "term", "kill" or "done"
    termSent,    \* its local term_sent
    stopAck, confirmed,  \* ExecProgress
    closed,      \* the control transport is marked closed
    outcome,     \* a Termination, "Incomplete" or "error" (a
                 \* dropped future too); "none" until then
    truncated,   \* the result's capture is marked truncated
    \* between them
    chan,        \* the data channel, seen from the host
    sent, got, eof,  \* output frames written and read, and the plugin's Eof
    cut,         \* the plugin's end of the channel is closed
    stops, acks, \* exec/stop requests and their answers in flight
    reply,       \* the answer to exec/stream in flight: "none", "ok" or "error"
    \* the plugin
    serve,       \* "serving", "closing", "stopped", "aborted" or "dead"
    req,         \* the exec/stream request's task
    registered,  \* the exec is in the registry
    tokens,      \* its own stop tokens that fired
    lost,        \* a chunk could not be written to the channel; the run is truncated
    inputError,
    cmd,         \* the command: "none", "running" or "ended"
    result       \* what the provider's run returned

hostVars == <<caller, asked, call, pump, input, sinkFailed, fwd, termSent, stopAck, confirmed,
              closed, outcome, truncated>>
linkVars == <<chan, sent, got, eof, cut, stops, acks, reply>>
pluginVars == <<serve, req, registered, tokens, lost, inputError, cmd, result>>
vars == <<stdin, hostVars, linkVars, pluginVars>>

FlagsOK ==
    /\ sinkFailed \in BOOLEAN /\ termSent \in BOOLEAN /\ stopAck \in BOOLEAN
    /\ confirmed \in BOOLEAN /\ closed \in BOOLEAN /\ truncated \in BOOLEAN
    /\ eof \in BOOLEAN /\ cut \in BOOLEAN
    /\ registered \in BOOLEAN /\ lost \in BOOLEAN /\ inputError \in BOOLEAN

TypeOK ==
    /\ FlagsOK
    /\ stdin \in {"none", "fixed", "stream"}
    /\ caller \subseteq asked /\ asked \subseteq Tokens
    /\ call \in {"waiting", "ok", "error", "gone"}
    /\ pump \in {"accept", "reading", "done", "error", "gone"}
    /\ input \in {"off", "feeding", "eof", "refused", "failed"}
    /\ fwd \in {"off", "idle", "term", "kill", "done"}
    /\ outcome \in Terminations \cup {"none", "Incomplete", "error"}
    /\ chan \in {"expected", "admitting", "ready", "accepted", "closed", "forgotten"}
    /\ got \in 0 .. sent /\ sent \in 0 .. MaxFrames
    /\ stops \subseteq Tokens /\ acks \subseteq Tokens /\ tokens \subseteq Tokens
    /\ reply \in {"none", "ok", "error"}
    /\ serve \in {"serving", "closing", "stopped", "aborted", "dead"}
    /\ req \in {"sent", "handling", "opening", "collect", "running", "finishing", "over"}
    /\ cmd \in {"none", "running", "ended"}
    /\ result \in Terminations \cup {"none", "error"}

\* The caller has taken a receiver from the listener and sent the request; a
\* token may have fired before.
Init ==
    /\ stdin \in StdinModes
    /\ caller = {} /\ asked = {}
    /\ call = "waiting" /\ pump = "accept" /\ input = "off" /\ sinkFailed = FALSE
    /\ fwd = "off" /\ termSent = FALSE /\ stopAck = FALSE /\ confirmed = FALSE
    /\ closed = FALSE /\ outcome = "none" /\ truncated = FALSE
    /\ chan = "expected" /\ sent = 0 /\ got = 0 /\ eof = FALSE /\ cut = FALSE
    /\ stops = {} /\ acks = {} /\ reply = "none"
    /\ serve = "serving" /\ req = "sent" /\ registered = FALSE /\ tokens = {}
    /\ lost = FALSE /\ inputError = FALSE /\ cmd = "none" /\ result = "none"

-----------------------------------------------------------------------------
(* The host's call.                                                         *)

Live == outcome = "none"

\* Mutated: the host watches tokens of its own.
FireTokenUnwatched(t) ==
    /\ Live /\ t \notin caller
    /\ caller' = caller \cup {t}
    /\ UNCHANGED <<stdin, asked, call, pump, input, sinkFailed, fwd, termSent, stopAck, confirmed,
                   closed, outcome, truncated, linkVars, pluginVars>>

FireToken(t) ==
    /\ Live /\ t \notin caller
    /\ caller' = caller \cup {t}
    /\ asked' = asked \cup {t}
    /\ UNCHANGED <<stdin, call, pump, input, sinkFailed, fwd, termSent, stopAck, confirmed, closed,
                   outcome, truncated, linkVars, pluginVars>>

\* route hands the answer to the call that waits for it.
Route ==
    /\ Live /\ reply # "none" /\ ~ closed
    /\ reply' = "none"
    /\ IF call = "waiting"
       THEN /\ call' = reply
            /\ confirmed' = (reply = "ok" /\ result \in {"Exited", "Killed"})
       ELSE UNCHANGED <<call, confirmed>>
    /\ UNCHANGED <<stdin, caller, asked, pump, input, sinkFailed, fwd, termSent, stopAck, closed,
                   outcome, truncated, chan, sent, got, eof, cut, stops, acks, pluginVars>>

\* mark_closed fails every call that waits for an answer.  The plugin closes
\* its end once its last answer is out; a broken pipe loses it.
ControlCloses ==
    /\ Live /\ ~ closed
    /\ closed' = TRUE
    /\ call' = IF call = "waiting" THEN "error" ELSE call
    /\ reply' = "none" /\ acks' = {}
    /\ UNCHANGED <<stdin, caller, asked, pump, input, sinkFailed, fwd, termSent, stopAck, confirmed,
                   outcome, truncated, chan, sent, got, eof, cut, stops, pluginVars>>

\* The call's future ends, and with it the expectation or the channel, the
\* stdin feeder, the stop task and its locals; later answers are ignored.
End(o) ==
    /\ Live
    /\ outcome' = o
    /\ chan' = CASE chan = "expected" -> "forgotten"
                 [] chan \in {"ready", "accepted"} -> "closed"
                 [] OTHER -> chan
    /\ call' = "gone" /\ pump' = "gone" /\ fwd' = "off"
    /\ caller' = {} /\ asked' = {} /\ sinkFailed' = FALSE
    /\ termSent' = FALSE /\ stopAck' = FALSE /\ confirmed' = FALSE
    /\ acks' = {} /\ reply' = "none"
    /\ UNCHANGED <<stdin, input, closed, sent, got, eof, cut, stops, pluginVars>>

\* Mutated: the plugin's word for a kill the host sent for a failed sink.
PluginVerdict == result

Verdict == IF sinkFailed THEN "Cancelled" ELSE result

\* Mutated: the answer alone ends the call.
ReturnEarly ==
    /\ call = "ok" /\ pump \in {"reading", "done"}
    /\ End(Verdict)
    /\ truncated' = (lost \/ sinkFailed)

ReturnResult ==
    /\ call = "ok" /\ pump = "done"
    /\ End(Verdict)
    /\ truncated' = (lost \/ sinkFailed)

\* The answer or the pump failed, the answer came and no channel followed it,
\* or the transport closed (after an answer, the pump has a last deadline).
ReturnError ==
    /\ call = "error" \/ pump = "error" \/ (call = "ok" /\ (pump = "accept" \/ closed))
    /\ ~ (call = "ok" /\ pump = "done")
    /\ End("error")
    /\ UNCHANGED truncated

\* hard_cancel_drain_timeout after the kill token fired.
DrainExpires ==
    /\ "kill" \in asked
    /\ End("Incomplete")
    /\ UNCHANGED truncated

\* To the plugin a future dropped by its caller is one that failed.
DropFuture == End("error") /\ UNCHANGED truncated

-----------------------------------------------------------------------------
(* The data channel: expect, admit and accept at the host, open at the      *)
(* plugin.                                                                  *)

ChanTo(c) ==
    /\ chan' = c
    /\ UNCHANGED <<stdin, sent, got, eof, cut, stops, acks, reply, pluginVars>>

\* admit takes the expectation of an authenticated connection out of the
\* listener and acknowledges it ...
Admit ==
    /\ chan = "expected" /\ req = "opening"
    /\ ChanTo("admitting")
    /\ UNCHANGED hostVars

\* ... and hands it to the operation, if that is still waiting.
HandOver ==
    /\ chan = "admitting"
    /\ ChanTo(IF Live THEN "ready" ELSE "closed")
    /\ UNCHANGED hostVars

\* The pump takes the channel and starts the stdin feeder and the stop task.
Accept ==
    /\ Live /\ pump = "accept" /\ chan = "ready"
    /\ pump' = "reading"
    /\ fwd' = "idle"
    /\ input' = IF stdin = "none" THEN "off" ELSE "feeding"
    /\ ChanTo("accepted")
    /\ UNCHANGED <<caller, asked, call, sinkFailed, termSent, stopAck, confirmed, closed, outcome,
                   truncated>>

AcceptTimesOut ==
    /\ Live /\ pump = "accept" /\ chan # "ready"
    /\ pump' = "error"
    /\ UNCHANGED <<stdin, caller, asked, call, input, sinkFailed, fwd, termSent, stopAck, confirmed,
                   closed, outcome, truncated, linkVars, pluginVars>>

-----------------------------------------------------------------------------
(* pump_exec_channel.                                                       *)

Pumping == Live /\ pump = "reading"

\* A sink that fails or makes no progress fires the kill token; from then on
\* frames are only drained.
PumpFrame ==
    /\ Pumping /\ got < sent
    /\ got' = got + 1
    /\ \/ UNCHANGED <<sinkFailed, asked>>
       \/ sinkFailed' = TRUE /\ asked' = asked \cup {"kill"}
    /\ UNCHANGED <<stdin, caller, call, pump, input, fwd, termSent, stopAck, confirmed, closed,
                   outcome, truncated, chan, sent, eof, cut, stops, acks, reply, pluginVars>>

\* The pump ends at the plugin's Eof, and the stop task with it.  A channel
\* that closes before its Eof, or breaks off inside a frame, is an error.
PumpEnds ==
    /\ Pumping /\ got = sent
    /\ \/ eof /\ pump' = IF input = "failed" THEN "error" ELSE "done"
       \/ ((cut /\ ~ eof) \/ lost) /\ pump' = "error"
    /\ fwd' = "off"
    /\ UNCHANGED <<stdin, caller, asked, call, input, sinkFailed, termSent, stopAck, confirmed,
                   closed, outcome, truncated, linkVars, pluginVars>>

\* feed_stdin_frames: the source ends, or fails and fires the kill token; or a write fails
\* or stalls, which ends the feeder without an Eof and without an error.
FeedStdin ==
    /\ Live /\ input = "feeding" /\ pump = "reading"
    /\ \/ input' \in {"eof", "refused"} /\ UNCHANGED asked
       \/ input' = "failed" /\ asked' = asked \cup {"kill"}
    /\ UNCHANGED <<stdin, caller, call, pump, sinkFailed, fwd, termSent, stopAck, confirmed, closed,
                   outcome, truncated, linkVars, pluginVars>>

-----------------------------------------------------------------------------
(* forward_stops and send_stop.                                             *)

Forward ==
    UNCHANGED <<stdin, caller, asked, call, pump, input, sinkFailed, confirmed, closed, outcome,
                truncated, chan, sent, got, eof, cut, reply, pluginVars>>

SendTerm ==
    /\ Live /\ fwd = "idle" /\ ~ termSent /\ "term" \in asked
    /\ fwd' = "term"
    /\ stops' = IF closed THEN stops ELSE stops \cup {"term"}
    /\ Forward /\ UNCHANGED <<termSent, stopAck, acks>>

\* Mutated: one stop is forwarded.
SendKillOnly ==
    /\ Live /\ fwd = "idle" /\ ~ termSent /\ "kill" \in asked
    /\ fwd' = "kill"
    /\ stops' = IF closed THEN stops ELSE stops \cup {"kill"}
    /\ Forward /\ UNCHANGED <<termSent, stopAck, acks>>

\* Also while the term is being sent or answered, and instead of a term that
\* fired as well.
SendKill ==
    /\ Live /\ fwd \in {"idle", "term"} /\ "kill" \in asked
    /\ fwd' = "kill"
    /\ stops' = IF closed THEN stops ELSE stops \cup {"kill"}
    /\ Forward /\ UNCHANGED <<termSent, stopAck, acks>>

TermAnswered ==
    /\ Live /\ fwd = "term" /\ ("term" \in acks \/ closed)
    /\ fwd' = "idle"
    /\ termSent' = TRUE
    /\ acks' = acks \ {"term"}
    /\ Forward /\ UNCHANGED <<stopAck, stops>>

KillAnswered ==
    /\ Live /\ fwd = "kill" /\ ("kill" \in acks \/ closed)
    /\ fwd' = "done"
    /\ stopAck' = ("kill" \in acks)
    /\ acks' = acks \ {"kill"}
    /\ Forward /\ UNCHANGED <<termSent, stops>>

-----------------------------------------------------------------------------
(* The plugin's request task.                                               *)

Serving == serve \in {"serving", "closing"}

\* Mutated: the kill token is not a child of exec_shutdown.
KilledAlone == "kill" \in tokens

\* The exec's kill token: exec/stop, its stdin pump, or the closing server.
Killed == "kill" \in tokens \/ serve = "closing"

Task == UNCHANGED <<stdin, hostVars, chan, got, stops, acks, serve>>

\* The task ends with an answer; the registration is dropped before it is sent.
Answer(r) ==
    /\ req' = "over"
    /\ registered' = FALSE
    /\ cut' = TRUE
    /\ reply' = IF closed \/ ~ Live THEN "none" ELSE r

\* The serve loop reads and admits the request, or refuses it; dispatch finds
\* the sandbox, or fails.
Handle ==
    /\ serve = "serving" /\ req = "sent"
    /\ \/ req' = "handling" /\ UNCHANGED <<registered, cut, reply>>
       \/ Answer("error")
    /\ Task /\ UNCHANGED <<sent, eof, tokens, lost, inputError, cmd, result>>

\* Mutated: the exec is not registered.
OpenUnregistered ==
    /\ Serving /\ req = "handling"
    /\ req' = "opening"
    /\ Task /\ UNCHANGED <<registered, sent, eof, cut, reply, tokens, lost, inputError, cmd, result>>

\* ExecRegistration::open: the stop tokens first, then the channel.
Register ==
    /\ Serving /\ req = "handling"
    /\ registered' = TRUE
    /\ req' = "opening"
    /\ Task /\ UNCHANGED <<sent, eof, cut, reply, tokens, lost, inputError, cmd, result>>

Start ==
    /\ req' = "running"
    /\ cmd' = "running"

\* Mutated: the open frame is not acknowledged.
OpenedUnacknowledged == TRUE

\* The host has acknowledged the open frame.
Opened == chan \notin {"expected", "forgotten"}

Open ==
    /\ Serving /\ req = "opening"
    /\ \/ /\ Opened
          /\ IF stdin = "fixed" THEN req' = "collect" /\ UNCHANGED cmd ELSE Start
          /\ UNCHANGED <<registered, cut, reply>>
       \/ Answer("error") /\ UNCHANGED cmd
    /\ Task /\ UNCHANGED <<sent, eof, tokens, lost, inputError, result>>

\* collect_stdin_frames: to the host's Eof, or the request fails.
Collect ==
    /\ Serving /\ req = "collect"
    /\ \/ input = "eof" /\ Start /\ UNCHANGED <<registered, cut, reply>>
       \/ Answer("error") /\ UNCHANGED cmd
    /\ Task /\ UNCHANGED <<sent, eof, tokens, lost, inputError, result>>

\* frame_sink: a write fails when the host's end is closed, and when it makes
\* no progress.
Output ==
    /\ Serving /\ req = "running" /\ ~ lost /\ sent < MaxFrames
    /\ \/ chan # "closed" /\ sent' = sent + 1 /\ UNCHANGED lost
       \/ lost' = TRUE /\ UNCHANGED sent
    /\ Task /\ UNCHANGED <<req, registered, eof, cut, reply, tokens, inputError, cmd, result>>

\* pump_stdin_frames: input that ends without an Eof kills the command.
StdinBreaks ==
    /\ Serving /\ req = "running" /\ stdin = "stream" /\ ~ inputError
    /\ input \in {"failed", "refused"} \/ (input = "feeding" /\ chan = "closed")
    /\ inputError' = TRUE
    /\ tokens' = tokens \cup {"kill"}
    /\ Task /\ UNCHANGED <<req, registered, sent, eof, cut, reply, lost, cmd, result>>

\* The provider's run_streaming (external): its Termination is true to its
\* controls, and a run that fails says nothing of the command.
RunReturns(t) ==
    /\ Serving /\ req = "running"
    /\ t = "Killed" => Killed
    /\ t = "Cancelled" => "term" \in tokens \/ lost
    /\ result' = t
    /\ cmd' \in (IF t = "error" THEN {"running", "ended"} ELSE {"ended"})
    /\ req' = "finishing"
    /\ Task /\ UNCHANGED <<registered, sent, eof, cut, reply, tokens, lost, inputError>>

\* finish_channel, then the answer: a failed Eof outranks the result, and so
\* does an input error.
FinishChannel ==
    /\ Serving /\ req = "finishing"
    /\ \/ /\ chan # "closed"
          /\ eof' = TRUE
          /\ Answer(IF inputError \/ result = "error" THEN "error" ELSE "ok")
       \/ Answer("error") /\ UNCHANGED eof
    /\ Task /\ UNCHANGED <<sent, tokens, lost, inputError, cmd, result>>

\* exec/stop succeeds for an unknown exec too.
Stop(l) ==
    /\ Serving /\ l \in stops
    /\ tokens' = IF registered THEN tokens \cup {l} ELSE tokens
    /\ stops' = stops \ {l}
    /\ acks' = IF closed \/ ~ Live THEN acks ELSE acks \cup {l}
    /\ UNCHANGED <<stdin, hostVars, chan, sent, got, eof, cut, reply, serve, req, registered, lost,
                   inputError, cmd, result>>

-----------------------------------------------------------------------------
(* The plugin's serve loop.                                                 *)

\* It leaves on a shutdown request, the end of its input or a failed answer,
\* and close_sessions fires exec_shutdown and empties the registry.
CloseSessions ==
    /\ serve = "serving"
    /\ serve' = "closing"
    /\ registered' = FALSE
    /\ UNCHANGED <<stdin, hostVars, linkVars, req, tokens, lost, inputError, cmd, result>>

\* Mutated: the requests in flight are not waited for.
ServeLeaves ==
    /\ serve = "closing"
    /\ serve' = "stopped"
    /\ UNCHANGED <<stdin, hostVars, linkVars, req, registered, tokens, lost, inputError, cmd, result>>

\* Every request task ended by itself; a request not read is not answered.
ServeStops ==
    /\ serve = "closing" /\ req \in {"sent", "over"}
    /\ serve' = "stopped"
    /\ UNCHANGED <<stdin, hostVars, linkVars, req, registered, tokens, lost, inputError, cmd, result>>

\* The shutdown budget passed: the tasks are aborted, and a run dropped in the
\* middle may leave its command behind.
ServeAborts ==
    /\ serve = "closing" /\ req \notin {"sent", "over"}
    /\ serve' = "aborted"
    /\ req' = "over" /\ registered' = FALSE /\ cut' = TRUE
    /\ cmd' \in {cmd, IF cmd = "running" THEN "ended" ELSE cmd}
    /\ UNCHANGED <<stdin, hostVars, chan, sent, got, eof, stops, acks, reply, tokens, lost, inputError,
                   result>>

\* The plugin process dies; answers not read yet are lost with it.
PluginDies ==
    /\ Serving
    /\ serve' = "dead"
    /\ req' = "over" /\ registered' = FALSE /\ cut' = TRUE
    /\ reply' = "none"
    /\ UNCHANGED <<stdin, hostVars, chan, sent, got, eof, stops, acks, tokens, lost, inputError, cmd,
                   result>>

-----------------------------------------------------------------------------
HostStep ==
    \/ Admit \/ HandOver \/ Accept \/ PumpFrame \/ PumpEnds \/ SendKill \/ TermAnswered
    \/ KillAnswered \/ Route \/ ReturnResult \/ ReturnError

Environment ==
    \/ \E t \in Tokens : FireToken(t)
    \/ ControlCloses \/ DrainExpires \/ DropFuture \/ AcceptTimesOut \/ FeedStdin
    \/ Handle \/ Collect \/ Output \/ StdinBreaks \/ CloseSessions \/ ServeAborts \/ PluginDies

Next ==
    \/ HostStep \/ SendTerm \/ Environment
    \/ Register \/ Open \/ FinishChannel \/ ServeStops
    \/ \E t \in Terminations \cup {"error"} : RunReturns(t)
    \/ \E l \in Tokens : Stop(l)

Spec == Init /\ [][Next]_vars

\* Tasks are polled and messages between live peers arrive; the provider ends
\* a command whose kill token fired; a plugin that ended closes its pipes.
\* No deadline, no output and no request of the caller is assumed to come.
Fairness ==
    /\ WF_vars(HostStep)
    /\ WF_vars(Register) /\ WF_vars(FinishChannel) /\ WF_vars(ServeStops)
    /\ WF_vars(serve = "serving" /\ Stop("kill"))
    /\ WF_vars(Killed /\ \E t \in Terminations : RunReturns(t))
    /\ WF_vars(~ Serving /\ ControlCloses)

FairSpec == Spec /\ Fairness

-----------------------------------------------------------------------------
(* Properties.                                                              *)

Returns(o) == outcome = "none" /\ outcome' = o

\* "a result never lands ahead of the bytes it describes": a result that is
\* not marked truncated comes with every frame the plugin wrote, and no chunk
\* was lost before the channel.
ResultIsComplete ==
    [][\A t \in Terminations : Returns(t) /\ ~ truncated' => got = sent /\ eof /\ ~ lost]_vars

\* What the caller is told is so.  "incomplete reports ... stop acknowledgment, confirmed
\* termination ... as separate facts.  Unknown facts are false": an acknowledged stop did reach
\* the exec's kill token or came after its run, and a confirmed termination is one.  The
\* Termination the caller gets is one it asked for, a failing sink's, or the closing
\* connection's.
TerminationIsTrue ==
    [][/\ Returns("Incomplete") =>
            /\ stopAck => Killed \/ ~ Serving \/ result # "none" \/ req = "over"
            /\ confirmed => cmd = "ended"
       /\ Returns("Killed") => "kill" \in caller \/ serve # "serving"
       /\ Returns("Cancelled") => "term" \in caller \/ sinkFailed \/ lost]_vars

\* A call that gave up before its channel was authenticated never runs its
\* command: the plugin starts work only on an acknowledged channel.
ForgottenNeverRuns == chan = "forgotten" => cmd = "none"

\* "Sessions the plugin holds are closed and in-flight requests get the
\* shutdown budget to finish": when they all did, no command is left, except
\* one whose provider reported an error.
StoppedServerHasNoWork == serve = "stopped" /\ cmd = "running" => result = "error"

\* A kill the caller, its sink or its input asked for reaches the command or
\* the call ends, without help from any deadline; the leader is not waited for.
KillReachesCommand ==
    ("kill" \in asked /\ cmd = "running" /\ Live) ~> (cmd # "running" \/ ~ Live)

\* "every in-flight exec is killed outright", also one that registered after
\* the sessions were closed: closing does not depend on the shutdown budget.
ClosingEndsCommands ==
    (serve = "closing" /\ cmd = "running") ~> (cmd # "running" \/ serve # "closing")
=============================================================================
