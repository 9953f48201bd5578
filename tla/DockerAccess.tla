---------------------------- MODULE DockerAccess ----------------------------
(***************************************************************************)
(* The port forwards and the terminals of one handle on a Docker sandbox   *)
(* (sandbox-driver-docker: forward.rs, pty.rs).                            *)
(*                                                                         *)
(* A forward is a loopback listener with a serve task, which bridges each  *)
(* connection into the container through a stdio process.  A terminal is a *)
(* shell that writes its pid to a file, and is killed through that file.   *)
(***************************************************************************)
EXTENDS Naturals

CONSTANTS
    Ports,         \* container ports
    Openers,       \* concurrent preview_url calls
    MaxListeners   \* bound on listeners ever bound

ASSUME ListenersAssumption == MaxListeners \in Nat

Listeners == 1..MaxListeners

VARIABLES
    probed,     \* a bridge tool is known to be there
    forwards,   \* the map from port to listener, 0 when the port has none
    listener,   \* each listener: its port, its task, its connection
    released,  \* the listeners whose token is cancelled
    opener,     \* each preview_url call: its step, port and listener
    answered,   \* the listeners whose address a caller was given
    stopping,   \* whether stop or delete has closed the forwards
    term        \* the terminal

accessVars == <<probed, forwards, listener, released, opener, answered, stopping, term>>
forwardVars == <<probed, forwards, listener, released, opener, answered, stopping>>

Unbound == [port |-> 0, task |-> "none", bridge |-> "none"]
Idle == [at |-> "idle", port |-> 0, mine |-> 0]

AccessTypeOK ==
    /\ probed \in BOOLEAN
    /\ forwards \in [Ports -> Listeners \cup {0}]
    /\ listener \in [Listeners -> [port : Ports \cup {0},
                                   task : {"none", "serving", "draining", "ended"},
                                   bridge : {"none", "spawning", "relaying", "terminating"}]]
    /\ released \subseteq Listeners
    /\ opener \in [Openers -> [at : {"idle", "probe", "lookup", "insert"},
                               port : Ports \cup {0}, mine : Listeners \cup {0}]]
    /\ answered \subseteq Listeners
    /\ stopping \in BOOLEAN
    /\ term \in [at : {"none", "resize", "open", "reading", "terming", "killing", "closed"},
                 shell : {"none", "early", "running", "dead"},
                 pid : {"absent", "empty", "set"}, read : {"nothing", "empty", "set"}]

AccessInit ==
    /\ probed = FALSE
    /\ forwards = [p \in Ports |-> 0]
    /\ listener = [l \in Listeners |-> Unbound]
    /\ released = {}
    /\ opener = [o \in Openers |-> Idle]
    /\ answered = {}
    /\ stopping = FALSE
    /\ term = [at |-> "none", shell |-> "none", pid |-> "absent", read |-> "nothing"]

-----------------------------------------------------------------------------
(* preview_url.                                                             *)

PreviewUrl(o, p) ==
    /\ opener[o].at = "idle"
    /\ opener' = [opener EXCEPT ![o] = [at |-> IF probed THEN "lookup" ELSE "probe",
                                        port |-> p, mine |-> 0]]
    /\ UNCHANGED <<probed, forwards, listener, released, answered, stopping, term>>

\* ensure_bridge_tools: one exec in the container, remembered if it succeeds.
EnsureBridgeTools(o) ==
    /\ opener[o].at = "probe"
    /\ \/ /\ probed' = TRUE
          /\ opener' = [opener EXCEPT ![o].at = "lookup"]
       \/ /\ probed' = probed
          /\ opener' = [opener EXCEPT ![o] = Idle]
    /\ UNCHANGED <<forwards, listener, released, answered, stopping, term>>

\* open, first half: the address there is, or a new listener and its task.
Lookup(o) ==
    /\ opener[o].at = "lookup"
    /\ LET there == forwards[opener[o].port]
       IN \/ /\ there # 0
             /\ opener' = [opener EXCEPT ![o] = Idle]
             /\ answered' = answered \cup {there}
             /\ UNCHANGED listener
          \/ /\ there = 0
             /\ \E l \in Listeners :
                  /\ listener[l] = Unbound
                  /\ \A k \in 1..(l - 1) : listener[k] # Unbound
                  /\ listener' = [listener EXCEPT ![l].port = opener[o].port,
                                                  ![l].task = "serving"]
                  /\ opener' = [opener EXCEPT ![o].at = "insert", ![o].mine = l]
             /\ UNCHANGED answered
    /\ UNCHANGED <<probed, forwards, released, stopping, term>>

\* The loser of the race registers its listener too.
InsertOverwrites(o) ==
    /\ opener[o].at = "insert"
    /\ LET l == opener[o].mine
       IN /\ forwards' = [forwards EXCEPT ![opener[o].port] = l]
          /\ answered' = answered \cup {l}
    /\ opener' = [opener EXCEPT ![o] = Idle]
    /\ UNCHANGED <<probed, listener, released, stopping, term>>

\* The loser's listener is left to serve.
InsertForgets(o) ==
    /\ opener[o].at = "insert"
    /\ LET l == opener[o].mine
           p == opener[o].port
       IN /\ forwards' = IF forwards[p] = 0 THEN [forwards EXCEPT ![p] = l] ELSE forwards
          /\ answered' = answered \cup {forwards'[p]}
    /\ opener' = [opener EXCEPT ![o] = Idle]
    /\ UNCHANGED <<probed, listener, released, stopping, term>>

\* open, second half, under the lock: the first of two racing callers wins, the
\* other's task is cancelled and aborted.
Insert(o) ==
    /\ opener[o].at = "insert"
    /\ LET l == opener[o].mine
           p == opener[o].port
       IN IF forwards[p] # 0
          THEN /\ answered' = answered \cup {forwards[p]}
               /\ released' = released \cup {l}
               /\ listener' = [listener EXCEPT ![l].task = "ended", ![l].bridge = "none"]
               /\ UNCHANGED forwards
          ELSE /\ forwards' = [forwards EXCEPT ![p] = l]
               /\ answered' = answered \cup {l}
               /\ UNCHANGED <<released, listener>>
    /\ opener' = [opener EXCEPT ![o] = Idle]
    /\ UNCHANGED <<probed, stopping, term>>

-----------------------------------------------------------------------------
(* close, close_all and Drop: the map's entries leave it and are cancelled. *)
(* finish waits for the tasks, but only so long; it ends none of them.      *)

ReleasePreviewUrl(p) ==
    /\ forwards[p] # 0
    /\ released' = released \cup {forwards[p]}
    /\ forwards' = [forwards EXCEPT ![p] = 0]
    /\ UNCHANGED <<probed, listener, opener, answered, stopping, term>>

CloseAll ==
    /\ ~stopping
    /\ stopping' = TRUE
    /\ released' = released \cup {forwards[p] : p \in {q \in Ports : forwards[q] # 0}}
    /\ forwards' = [p \in Ports |-> 0]
    /\ UNCHANGED <<probed, listener, opener, answered, term>>

-----------------------------------------------------------------------------
(* serve and bridge.                                                        *)

\* Only a caller who was given the address connects.
Accept(l) ==
    /\ l \in answered
    /\ listener[l].task = "serving"
    /\ listener[l].bridge = "none"
    /\ listener' = [listener EXCEPT ![l].bridge = "spawning"]
    /\ UNCHANGED <<probed, forwards, released, opener, answered, stopping, term>>

BridgeSpawns(l) ==
    /\ listener[l].bridge = "spawning"
    /\ \E b \in {"relaying", "none"} : listener' = [listener EXCEPT ![l].bridge = b]
    /\ UNCHANGED <<probed, forwards, released, opener, answered, stopping, term>>

\* Either side of the relay ends, or it is cancelled.
RelayEnds(l) ==
    /\ listener[l].bridge = "relaying"
    /\ listener' = [listener EXCEPT ![l].bridge = "terminating"]
    /\ UNCHANGED <<probed, forwards, released, opener, answered, stopping, term>>

BridgeTerminates(l) ==
    /\ listener[l].bridge = "terminating"
    /\ listener' = [listener EXCEPT ![l].bridge = "none"]
    /\ UNCHANGED <<probed, forwards, released, opener, answered, stopping, term>>

\* A serve task that never looks at its token.
ServeIgnoresCancel(l) ==
    /\ listener[l].task = "draining"
    /\ listener[l].bridge = "none"
    /\ listener' = [listener EXCEPT ![l].task = "ended"]
    /\ UNCHANGED <<probed, forwards, released, opener, answered, stopping, term>>

\* Cancelled: close the socket, then wait for the bridges.
ServeEnds(l) ==
    /\ \/ /\ listener[l].task = "serving"
          /\ l \in released
          /\ listener' = [listener EXCEPT ![l].task = "draining"]
       \/ /\ listener[l].task = "draining"
          /\ listener[l].bridge = "none"
          /\ listener' = [listener EXCEPT ![l].task = "ended"]
    /\ UNCHANGED <<probed, forwards, released, opener, answered, stopping, term>>

-----------------------------------------------------------------------------
(* A terminal.                                                              *)

Terminal(t) == term' = t /\ UNCHANGED forwardVars

PtyOpen ==
    /\ term.at = "none"
    /\ Terminal([term EXCEPT !.at = "resize", !.shell = "early"])

\* printf > pid file; then exec sh -l.
ShellWritesPid ==
    /\ term.shell = "early"
    /\ Terminal(IF term.pid = "absent" THEN [term EXCEPT !.pid = "empty"]
                ELSE [term EXCEPT !.pid = "set", !.shell = "running"])

\* A resize that fails closes the terminal that was just opened.
PtyResize ==
    /\ term.at = "resize"
    /\ \E at \in {"open", "reading"} : Terminal([term EXCEPT !.at = at])

PtyClose ==
    /\ term.at = "open"
    /\ Terminal([term EXCEPT !.at = "reading"])

\* kill_shell: nothing to kill without a pid in the file.
KillShellReads ==
    /\ term.at = "reading"
    /\ Terminal([term EXCEPT !.read = IF term.pid = "absent" THEN "nothing" ELSE term.pid,
                             !.pid = "absent",
                             !.at = IF term.pid = "set" THEN "terming" ELSE "closed"])

KillShellTerms ==
    /\ term.at = "terming"
    /\ \E shell \in {term.shell, "dead"} : Terminal([term EXCEPT !.shell = shell, !.at = "killing"])

KillShellOnlyTerms ==
    /\ term.at = "killing"
    /\ Terminal([term EXCEPT !.at = "closed"])

KillShellKills ==
    /\ term.at = "killing"
    /\ Terminal([term EXCEPT !.shell = "dead", !.at = "closed"])

ShellExits ==
    /\ term.shell = "running"
    /\ Terminal([term EXCEPT !.shell = "dead"])

-----------------------------------------------------------------------------

KillShell == KillShellReads \/ KillShellTerms \/ KillShellKills
Relayed(l) == BridgeSpawns(l) \/ (l \in released /\ RelayEnds(l)) \/ BridgeTerminates(l)

ForwardNext ==
    \/ \E o \in Openers :
         (\E p \in Ports : PreviewUrl(o, p)) \/ EnsureBridgeTools(o) \/ Lookup(o) \/ Insert(o)
    \/ \E p \in Ports : ReleasePreviewUrl(p)
    \/ CloseAll
    \/ \E l \in Listeners :
         Accept(l) \/ BridgeSpawns(l) \/ RelayEnds(l) \/ BridgeTerminates(l) \/ ServeEnds(l)

TerminalNext == PtyOpen \/ ShellWritesPid \/ PtyResize \/ PtyClose \/ KillShell \/ ShellExits

-----------------------------------------------------------------------------
(* Properties.                                                              *)

\* Two callers that race to open a port leave no listener behind: one that
\* serves and is not cancelled is in the map, or its caller has yet to enter it.
NoStrayListener ==
    \A l \in Listeners :
      listener[l].task = "serving" /\ l \notin released
        => \/ forwards[listener[l].port] = l
           \/ \E o \in Openers : opener[o].at = "insert" /\ opener[o].mine = l

\* An address a caller was given serves until the port is released or the
\* sandbox stopped, whoever else opened the port in the meantime.
GivenAddressServes ==
    \A l \in answered : l \in released \/ (/\ listener[l].task = "serving"
                                            /\ forwards[listener[l].port] = l)

\* A released forward owes the end of its listener and of its bridge, also of a bridge that
\* was still being spawned or whose client keeps the connection open.
ReleaseIsOwed ==
    \E l \in released : listener[l].task \notin {"none", "ended"} \/ listener[l].bridge # "none"

\* A closed terminal whose pid was read owes the end of its shell, one that ignores TERM too.
CloseIsOwed == term.read = "set" /\ term.shell # "dead"
=============================================================================
