--------------------------- MODULE PluginSessions --------------------------
(***************************************************************************)
(* Stdio processes, PTYs and log streams of one plugin connection: the     *)
(* host's handles and the cleanup a dropped one owns (client/exec.rs,      *)
(* client/pty.rs, client/streams.rs, Client::own_cleanup), and the         *)
(* plugin's requests, registries and shutdown (server/sessions.rs,         *)
(* server/services.rs, server/registry.rs, ServerState::close_sessions).   *)
(*                                                                         *)
(* Requests are handled by tasks of their own, in any order.  A stream     *)
(* cancel travels on the priority lane and may overtake its own follow.    *)
(***************************************************************************)
EXTENDS Naturals, FiniteSets

CONSTANTS
    Stdios, Ptys, Streams,  \* the sessions the host asks for
    ActiveIo,               \* limits.active_io on the plugin's side
    MaxCloseErrors          \* bound: closes the provider fails

ASSUME SessionsAssumption == ActiveIo \in Nat \ {0} /\ MaxCloseErrors \in Nat

Sessions == Stdios \cup Ptys \cup Streams

ASSUME KindsAssumption ==
    /\ IsFiniteSet(Sessions)
    /\ Stdios \cap Ptys = {} /\ Streams \cap (Stdios \cup Ptys) = {}

VARIABLES
    handle,      \* the host's side of a session
    requests,    \* <<method, session>> on their way to the plugin
    answers,     \* <<method, session, ok>> on their way back
    expected,    \* sessions whose ChannelReceiver the listener still knows
    opening,     \* the open request's task: "none", "admitted", "connected", "following"
    registry,    \* stdios, ptys and streams of ServerState
    cancelled,   \* streams whose token fired
    closingPty,  \* <<call, PTY>>: taken out of the registry while that call closes it
    draining,    \* sessions close_sessions took and has not ended yet
    session,     \* the process, shell or follow itself: "none", "live" or "ended"
    plugin,      \* "serving", "closing" or "ended"
    closeErrors,
    closeFailed, \* PTYs a close of the provider failed on
    cutOff       \* sessions whose end was still under way at the shutdown deadline

hostSessionVars == <<handle, requests, answers, expected>>
pluginSessionVars == <<opening, registry, cancelled, closingPty, draining, session, plugin,
                       closeErrors, closeFailed, cutOff>>
sessionsVars == <<hostSessionVars, pluginSessionVars>>

\* The calls of a session: its open, the caller's close or wait, and those of the cleanup
\* a dropped handle owns.
Methods == {"open", "close", "wait", "drop", "reap"}

SessionsTypeOK ==
    /\ handle \in [Sessions -> {"idle", "opening", "open", "closing", "waiting", "tried", "cleanup",
                                "reaping", "failed", "abandoned", "over"}]
    /\ requests \subseteq Methods \X Sessions
    /\ answers \subseteq Methods \X Sessions \X BOOLEAN
    /\ expected \subseteq Sessions
    /\ opening \in [Sessions -> {"none", "admitted", "connected", "following"}]
    /\ registry \subseteq Sessions /\ cancelled \subseteq Streams
    /\ closingPty \subseteq {"close", "drop"} \X Ptys /\ draining \subseteq Sessions
    /\ session \in [Sessions -> {"none", "live", "ended"}]
    /\ plugin \in {"serving", "closing", "ended"}
    /\ closeErrors \in 0..MaxCloseErrors
    /\ closeFailed \subseteq Ptys /\ cutOff \subseteq Sessions

SessionsInit ==
    /\ handle = [s \in Sessions |-> "idle"]
    /\ requests = {} /\ answers = {} /\ expected = {}
    /\ opening = [s \in Sessions |-> "none"]
    /\ registry = {} /\ cancelled = {} /\ closingPty = {} /\ draining = {}
    /\ session = [s \in Sessions |-> "none"]
    /\ plugin = "serving"
    /\ closeErrors = 0
    /\ closeFailed = {} /\ cutOff = {}

HandleTo(s, state) == handle' = [handle EXCEPT ![s] = state]
AnswersElsewhere(s) == {a \in answers : a[2] # s}

\* A plugin that left its loop reads no further request; the call fails with the connection.
Asks(method, s) ==
    requests' = IF plugin = "serving" THEN requests \cup {<<method, s>>} ELSE requests
Answered(method, s, ok) == <<method, s, ok>> \in answers
Takes(s) == answers' = AnswersElsewhere(s)

-----------------------------------------------------------------------------
(* The host.                                                               *)

\* A channel is expected, then the open is called.
OpenCalled(s) ==
    /\ handle[s] = "idle"
    /\ HandleTo(s, "opening")
    /\ Asks("open", s)
    /\ expected' = expected \cup {s}
    /\ UNCHANGED <<answers, pluginSessionVars>>

spawn_stdio(s) == s \in Stdios /\ OpenCalled(s)
pty_open(s) == s \in Ptys /\ OpenCalled(s)
logs_follow(s) == s \in Streams /\ OpenCalled(s)

\* The open's answer is taken; the handle is then in the given state if it was Ok.
OpenTaken(s, state) ==
    /\ handle[s] = "opening"
    /\ \E ok \in BOOLEAN :
         /\ Answered("open", s, ok)
         /\ Takes(s)
         /\ HandleTo(s, IF ok THEN state ELSE "over")
    /\ expected' = expected \ {s}
    /\ UNCHANGED <<requests, pluginSessionVars>>

\* A stdio process or PTY answers when it is open; a follow when it is over.
OpenReturned(s) == s \notin Streams /\ OpenTaken(s, "open")
FollowReturned(s) == s \in Streams /\ OpenTaken(s, "over")

\* The future is dropped, or the call fails with the connection: an armed StreamCancelGuard
\* owns a cancel, a stdio or PTY open owns nothing.
OpenAbandoned(s) ==
    /\ handle[s] = "opening"
    /\ Takes(s)
    /\ expected' = expected \ {s}
    /\ IF s \in Streams
       THEN HandleTo(s, "cleanup") /\ Asks("drop", s)
       ELSE HandleTo(s, "abandoned") /\ UNCHANGED requests
    /\ UNCHANGED pluginSessionVars

\* PtySession::close.
CloseCalled(s) ==
    /\ s \in Ptys /\ handle[s] = "open"
    /\ HandleTo(s, "closing")
    /\ Asks("close", s)
    /\ UNCHANGED <<answers, expected, pluginSessionVars>>

CloseForgets(s) ==
    /\ handle[s] = "closing"
    /\ \/ Answered("close", s, TRUE) /\ Takes(s) /\ HandleTo(s, "over")
       \/ Answered("close", s, FALSE) /\ Takes(s) /\ HandleTo(s, "over")
       \/ HandleTo(s, "over") /\ Takes(s)
    /\ UNCHANGED <<requests, expected, pluginSessionVars>>

\* Only a confirmed close marks the handle closed; after an error or the drain deadline it
\* may still be dropped.
CloseReturned(s) ==
    /\ handle[s] = "closing"
    /\ \/ Answered("close", s, TRUE) /\ Takes(s) /\ HandleTo(s, "over")
       \/ Answered("close", s, FALSE) /\ Takes(s) /\ HandleTo(s, "tried")
       \/ HandleTo(s, "tried") /\ Takes(s)
    /\ UNCHANGED <<requests, expected, pluginSessionVars>>

\* StdioProcessHandle::wait; the host's permit is given up when the plugin answers.
WaitCalled(s) ==
    /\ s \in Stdios /\ handle[s] = "open"
    /\ HandleTo(s, "waiting")
    /\ Asks("wait", s)
    /\ UNCHANGED <<answers, expected, pluginSessionVars>>

WaitReturned(s) ==
    /\ handle[s] = "waiting"
    /\ \/ Answered("wait", s, TRUE) /\ Takes(s) /\ HandleTo(s, "over")
       \/ Answered("wait", s, FALSE) /\ Takes(s) /\ HandleTo(s, "tried")
       \/ plugin # "serving" /\ HandleTo(s, "tried") /\ Takes(s)
    /\ UNCHANGED <<requests, expected, pluginSessionVars>>

\* A dropped handle owns a cleanup, which holds the permit while it asks.
own_cleanup(s) ==
    /\ handle[s] \in {"open", "waiting", "tried"}
    /\ HandleTo(s, "cleanup")
    /\ Takes(s)
    /\ Asks("drop", s)
    /\ UNCHANGED <<expected, pluginSessionVars>>

StdioDropped(s) == s \in Stdios /\ own_cleanup(s)
PtyDropped(s) == s \in Ptys /\ own_cleanup(s)

\* A terminated stdio process is then waited for; a cleanup that failed keeps its permit.
CleanupAnswered(s) ==
    /\ handle[s] = "cleanup"
    /\ \E ok \in BOOLEAN :
         /\ Answered("drop", s, ok)
         /\ Takes(s)
         /\ CASE ~ok -> HandleTo(s, "failed") /\ UNCHANGED requests
              [] ok /\ s \in Stdios -> HandleTo(s, "reaping") /\ Asks("reap", s)
              [] OTHER -> HandleTo(s, "over") /\ UNCHANGED requests
    /\ UNCHANGED <<expected, pluginSessionVars>>

CleanupReaped(s) ==
    /\ handle[s] = "reaping"
    /\ \E ok \in BOOLEAN :
         /\ Answered("reap", s, ok)
         /\ Takes(s)
         /\ HandleTo(s, IF ok THEN "over" ELSE "failed")
    /\ UNCHANGED <<requests, expected, pluginSessionVars>>

CleanupTimesOut(s) ==
    /\ handle[s] \in {"cleanup", "reaping"}
    /\ HandleTo(s, "failed")
    /\ Takes(s)
    /\ UNCHANGED <<requests, expected, pluginSessionVars>>

-----------------------------------------------------------------------------
(* The plugin.                                                             *)

\* The state of a handle that waits for a call; the host ignores any other reply.
Awaits(method, s) ==
    handle[s] = CASE method = "open" -> "opening"
                  [] method = "close" -> "closing"
                  [] method = "wait" -> "waiting"
                  [] method = "drop" -> "cleanup"
                  [] method = "reap" -> "reaping"

Answer(method, s, ok) ==
    answers' = IF Awaits(method, s) THEN answers \cup {<<method, s, ok>>} ELSE answers

\* Registry::insert and Registry::remove, each under the registry's lock.
Inserts(S) == registry' = registry \cup S
Removes(s) == registry' = registry \ {s}

ClosingPtys == {c[2] : c \in closingPty}

RequestHolders == {s \in Sessions : opening[s] # "none"}

\* Who holds a permit of active_io: the request, then the registry's entry.
Holders == {s \in Sessions : opening[s] # "none"} \cup registry \cup ClosingPtys \cup draining

\* serve admits the request; a stream is registered before its task exists.
OpenAdmitted(s) ==
    /\ plugin = "serving" /\ <<"open", s>> \in requests
    /\ requests' = requests \ {<<"open", s>>}
    /\ IF Cardinality(Holders) < ActiveIo
       THEN /\ opening' = [opening EXCEPT ![s] = "admitted"]
            /\ Inserts({s} \cap Streams)
            /\ UNCHANGED answers
       ELSE Answer("open", s, FALSE) /\ UNCHANGED <<opening, registry>>
    /\ UNCHANGED <<handle, expected, closingPty, draining, session, plugin, closeErrors,
                   closeFailed, cutOff, cancelled>>

OpenOver(s, ok) ==
    /\ opening' = [opening EXCEPT ![s] = "none"]
    /\ Answer("open", s, ok)

AtWork == plugin # "ended"

\* open_channel: a receiver the host dropped is no longer expected.
ChannelOpened(s) ==
    /\ AtWork /\ opening[s] = "admitted"
    /\ IF s \in expected
       THEN /\ opening' = [opening EXCEPT ![s] = "connected"]
            /\ UNCHANGED <<answers, registry>>
       ELSE OpenOver(s, FALSE) /\ Removes(s)
    /\ UNCHANGED <<handle, requests, expected, closingPty, draining, session, plugin, closeErrors,
                   closeFailed, cutOff, cancelled>>

\* The provider starts the session; a stdio process or PTY is registered as it is known, also
\* when close_sessions has drained the registry meanwhile.
SessionStarts(s) ==
    /\ AtWork /\ opening[s] = "connected"
    /\ session' = [session EXCEPT ![s] = "live"]
    /\ IF s \in Streams
       THEN opening' = [opening EXCEPT ![s] = "following"] /\ UNCHANGED <<answers, registry>>
       ELSE OpenOver(s, TRUE) /\ Inserts({s})
    /\ UNCHANGED <<handle, requests, expected, closingPty, draining, plugin, closeErrors,
                   closeFailed, cutOff, cancelled>>

SessionRefused(s) ==
    /\ AtWork /\ opening[s] = "connected"
    /\ OpenOver(s, FALSE)
    /\ Removes(s)
    /\ UNCHANGED <<handle, requests, expected, closingPty, draining, session, plugin, closeErrors,
                   closeFailed, cutOff, cancelled>>

\* A process or shell exits by itself.
SessionExits(s) ==
    /\ session[s] = "live" /\ s \notin Streams
    /\ session' = [session EXCEPT ![s] = "ended"]
    /\ UNCHANGED <<hostSessionVars, opening, registry, closingPty, draining, plugin, closeErrors,
                   closeFailed, cutOff, cancelled>>

\* A follow ends with its source, with its cancelled token, or with a channel nobody reads.
FollowEnds(s) ==
    /\ AtWork /\ opening[s] = "following"
    /\ session' = [session EXCEPT ![s] = "ended"]
    /\ OpenOver(s, TRUE)
    /\ Removes(s)
    /\ UNCHANGED <<handle, requests, expected, closingPty, draining, plugin, closeErrors,
                   closeFailed, cutOff, cancelled>>

\* exec/stdio_terminate.
TerminateHandled(s) ==
    /\ AtWork /\ s \in Stdios /\ <<"drop", s>> \in requests
    /\ requests' = requests \ {<<"drop", s>>}
    /\ Answer("drop", s, s \in registry)
    /\ session' = IF s \in registry THEN [session EXCEPT ![s] = "ended"] ELSE session
    /\ UNCHANGED <<handle, expected, opening, registry, closingPty, draining, plugin, closeErrors,
                   closeFailed, cutOff, cancelled>>

\* exec/stdio_wait: answers when the process ended, and forgets it.
WaitHandled(s) ==
    /\ AtWork
    /\ s \in registry => session[s] = "ended"
    /\ \E call \in {"wait", "reap"} :
         /\ <<call, s>> \in requests
         /\ requests' = requests \ {<<call, s>>}
         /\ Answer(call, s, s \in registry)
    /\ Removes(s)
    /\ UNCHANGED <<handle, expected, opening, closingPty, draining, session, plugin, closeErrors,
                   closeFailed, cutOff, cancelled>>

\* stream/cancel: a stream the plugin does not know has nothing to cancel.
CancelHandled(s) ==
    /\ AtWork /\ s \in Streams /\ <<"drop", s>> \in requests
    /\ requests' = requests \ {<<"drop", s>>}
    /\ Answer("drop", s, TRUE)
    /\ cancelled' = cancelled \cup ({s} \cap registry)
    /\ UNCHANGED <<handle, expected, opening, registry, closingPty, draining, session, plugin,
                   closeErrors, closeFailed, cutOff>>

\* pty/close takes the PTY out of the registry while it closes it; a second close finds
\* nothing and succeeds at once.
PtyCloseHandled(s) ==
    /\ AtWork /\ s \in Ptys
    /\ \E call \in {"close", "drop"} :
         /\ <<call, s>> \in requests
         /\ requests' = requests \ {<<call, s>>}
         /\ IF s \in registry
            THEN /\ Removes(s)
                 /\ closingPty' = closingPty \cup {<<call, s>>}
                 /\ UNCHANGED answers
            ELSE Answer(call, s, TRUE) /\ UNCHANGED <<registry, closingPty>>
    /\ UNCHANGED <<handle, expected, opening, draining, session, plugin, closeErrors,
                   closeFailed, cutOff, cancelled>>

PtyClosed(s) ==
    /\ AtWork
    /\ \E call \in {"close", "drop"} :
         /\ <<call, s>> \in closingPty
         /\ closingPty' = closingPty \ {<<call, s>>}
         /\ Answer(call, s, TRUE)
    /\ session' = [session EXCEPT ![s] = "ended"]
    /\ UNCHANGED <<handle, requests, expected, opening, registry, draining, plugin, closeErrors,
                   closeFailed, cutOff, cancelled>>

\* A failed close puts the PTY back.
PtyCloseFails(s) ==
    /\ AtWork /\ closeErrors < MaxCloseErrors
    /\ closeErrors' = closeErrors + 1
    /\ \E call \in {"close", "drop"} :
         /\ <<call, s>> \in closingPty
         /\ closingPty' = closingPty \ {<<call, s>>}
         /\ Answer(call, s, FALSE)
    /\ Inserts({s})
    /\ closeFailed' = closeFailed \cup {s}
    /\ UNCHANGED <<handle, requests, expected, opening, draining, session, plugin, cancelled,
                   cutOff>>

\* The connection ends: close_sessions cancels the follows and takes what is registered.
\* Of the requests that were sent, those that were read still have their tasks.
ConnectionCloses ==
    /\ plugin = "serving"
    /\ plugin' = "closing"
    /\ draining' = registry \ Streams
    /\ registry' = {}
    /\ requests' \in SUBSET {r \in requests : r[1] # "open"}
    /\ UNCHANGED <<handle, answers, expected, opening, closingPty, session, closeErrors,
                   closeFailed, cutOff, cancelled>>

DrainForgets(s) ==
    /\ plugin = "closing" /\ s \in draining
    /\ draining' = draining \ {s}
    /\ UNCHANGED <<hostSessionVars, opening, registry, closingPty, session, plugin, closeErrors,
                   closeFailed, cutOff, cancelled>>

\* A stdio process is terminated, a PTY closed; a close that fails is only logged.
DrainEnds(s) ==
    /\ plugin = "closing" /\ s \in draining
    /\ draining' = draining \ {s}
    /\ \/ /\ session' = [session EXCEPT ![s] = "ended"]
          /\ UNCHANGED <<closeErrors, closeFailed>>
       \/ /\ s \in Ptys /\ closeErrors < MaxCloseErrors
          /\ closeErrors' = closeErrors + 1
          /\ closeFailed' = closeFailed \cup {s}
          /\ UNCHANGED session
    /\ UNCHANGED <<hostSessionVars, opening, registry, closingPty, plugin, cutOff, cancelled>>

\* shutdown: the requests are joined.  The deadline leaves behind what is not over by then.
ServeReturns ==
    /\ plugin = "closing"
    /\ draining = {} /\ closingPty = {} /\ \A s \in Sessions : opening[s] = "none"
    /\ plugin' = "ended"
    /\ UNCHANGED <<hostSessionVars, opening, registry, closingPty, draining, session, closeErrors,
                   closeFailed, cutOff, cancelled>>

ServeGivesUp ==
    /\ plugin = "closing"
    /\ plugin' = "ended"
    /\ cutOff' = cutOff \cup draining \cup ClosingPtys
                   \cup {s \in Streams : opening[s] = "following"}
    /\ opening' = [s \in Sessions |-> "none"]
    /\ draining' = {} /\ closingPty' = {}
    /\ UNCHANGED <<hostSessionVars, registry, session, closeErrors, closeFailed, cancelled>>

-----------------------------------------------------------------------------
HostSessionStep(s) ==
    \/ OpenReturned(s) \/ FollowReturned(s) \/ CloseReturned(s)
    \/ WaitReturned(s) \/ CleanupAnswered(s) \/ CleanupReaped(s)

HostSessionChoice(s) ==
    \/ spawn_stdio(s) \/ pty_open(s) \/ logs_follow(s) \/ OpenAbandoned(s)
    \/ CloseCalled(s) \/ WaitCalled(s) \/ StdioDropped(s) \/ PtyDropped(s) \/ CleanupTimesOut(s)

PluginSessionStep(s) ==
    \/ OpenAdmitted(s) \/ ChannelOpened(s) \/ SessionStarts(s) \/ SessionRefused(s)
    \/ TerminateHandled(s) \/ WaitHandled(s) \/ CancelHandled(s)
    \/ PtyCloseHandled(s) \/ PtyClosed(s) \/ PtyCloseFails(s) \/ DrainEnds(s)

SessionsNext ==
    \/ \E s \in Sessions : HostSessionStep(s) \/ HostSessionChoice(s) \/ PluginSessionStep(s)
                             \/ SessionExits(s) \/ FollowEnds(s)
    \/ ConnectionCloses \/ ServeReturns \/ ServeGivesUp

-----------------------------------------------------------------------------
\* The plugin's active_io bounds the processes, shells and follows that live on it at any
\* time, through opens, closes that fail, handles the host forgot, requests that start their
\* session while the connection closes, and a shutdown cut off at its deadline.
SessionsWithinBudget == Cardinality({s \in Sessions : session[s] = "live"}) <= ActiveIo

\* When the plugin has shut down, whatever was registered or following when the connection
\* closed is over, unless the provider failed to close it or the shutdown deadline cut its end
\* short.  What close_sessions does not reach is a session whose request was still running:
\* it is registered behind the drain, lives on, and stays in the registry (close_sessions).
ShutdownEndsSessions ==
    plugin = "ended" =>
      \A s \in Sessions : session[s] = "live" => s \in registry \cup closeFailed \cup cutOff

\* A host that has its PTY closed or its stdio process reaped, by the caller or by the
\* cleanup of a dropped handle, has left nothing alive, a session registered behind
\* close_sessions included.  Two closes of one PTY may overlap, and the second finds nothing to
\* close: so the exceptions are a close the provider failed, one still running, close_sessions'
\* own among them, and one the shutdown deadline cut short.
OverIsOver ==
    \A s \in Stdios \cup Ptys :
      handle[s] = "over" /\ session[s] = "live" =>
        s \in closeFailed \cup ClosingPtys \cup draining \cup cutOff
=============================================================================
