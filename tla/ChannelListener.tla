--------------------------- MODULE ChannelListener ---------------------------
(***************************************************************************)
(* The host's data listener (protocol/src/channel.rs): the accept loop,    *)
(* the handshake of each connection, the registry of expected channels and *)
(* the operations that wait on it.                                         *)
(*                                                                         *)
(* An operation's channel id and token are the operation itself: ids come  *)
(* from a counter and tokens are 32 random bytes, so neither repeats.  The *)
(* budgets are semaphores whose permits live in the registry's entries,    *)
(* the receivers, the channels and the handshake tasks: what is taken is   *)
(* computed from who holds one.  A task that is aborted may go on to its   *)
(* next await.  Whether the plugin asked for an acknowledgment is left     *)
(* out; writing it is the time between a match and the hand-over.          *)
(***************************************************************************)
EXTENDS Naturals, FiniteSets

CONSTANTS
    Expecters,    \* operations that need a channel
    Connections,  \* connections to the socket
    ActiveIo,     \* limits.active_io
    PendingOpens, \* limits.pending_opens
    Handshakes,   \* limits.unauthenticated_handshakes
    SetupSamples  \* SETUP_SAMPLES

ASSUME ListenerAssumption ==
    /\ ActiveIo \in Nat /\ PendingOpens \in Nat /\ Handshakes \in Nat
    /\ SetupSamples \in Nat \ {0}
    /\ IsFiniteSet(Expecters) /\ IsFiniteSet(Connections)
    /\ Connections \cap {"empty", "closed"} = {}

VARIABLES
    acceptTask,  \* "accepting", "sleeping", "failed", "cleared" or "ended"
    listener,    \* its owner: "held", "aborted" (half dropped) or "dropped"
    opening,     \* each operation: "new", "checked", "waiting", "dropping", "open" or "done"
    expectations,\* ChannelListener.pending
    oneshot,     \* what an operation's oneshot holds: "empty", a connection or "closed"
    admitting,   \* each connection's task
    claim,       \* who a connection is and what it says in its first frame
    opened, lost, samples, taken  \* Measurements, and the samples already drained

listenerTasks == <<acceptTask, listener>>
registry == <<opening, expectations, oneshot>>
handshakes == <<admitting, claim>>
measurements == <<opened, lost, samples, taken>>
listenerVars == <<listenerTasks, registry, handshakes, measurements>>

\* A peer is the trusted process or a stranger; its first frame is an open or is not.
Claims == [trusted : BOOLEAN, open : BOOLEAN, id : Expecters, token : Expecters]

ListenerTypeOK ==
    /\ acceptTask \in {"accepting", "sleeping", "failed", "cleared", "ended"}
    /\ listener \in {"held", "aborted", "dropped"}
    /\ opening \in [Expecters -> {"new", "checked", "waiting", "dropping", "open", "done"}]
    /\ expectations \subseteq Expecters
    /\ oneshot \in [Expecters -> Connections \cup {"empty", "closed"}]
    /\ admitting \in [Connections -> {"none", "queued", "handshake", "matched", "measuring", "over"}]
    /\ claim \in [Connections -> Claims]
    /\ opened \in Nat /\ lost \in Nat /\ taken \in Nat /\ samples \in 0..SetupSamples

\* bind_with_limits: the socket listens, nothing is expected.
ListenerInit ==
    /\ acceptTask = "accepting" /\ listener = "held"
    /\ opening = [o \in Expecters |-> "new"]
    /\ expectations = {}
    /\ oneshot = [o \in Expecters |-> "empty"]
    /\ admitting = [c \in Connections |-> "none"]
    /\ claim \in [Connections -> Claims]
    /\ opened = 0 /\ lost = 0 /\ samples = 0 /\ taken = 0

\* The tasks that have taken an expectation from the registry and hold its permits and sender.
Matched(o) == {c \in Connections : admitting[c] = "matched" /\ claim[c].id = o}
Handshaking == {c \in Connections : admitting[c] \in {"handshake", "matched", "measuring"}}

\* Permits of each budget that somebody holds (diagnostics reports these numbers).
IoHeld ==
    {o \in Expecters : \/ o \in expectations \/ opening[o] \in {"waiting", "dropping", "open"}
                       \/ Matched(o) # {}}
OpenHeld ==
    expectations \cup
    {claim[c].id : c \in {d \in Connections : admitting[d] \in {"matched", "measuring"}}}

\* The oneshots whose senders are dropped tell their receivers.
Dropped(senders) ==
    oneshot' = [o \in Expecters |->
                  IF o \in senders /\ oneshot[o] = "empty" THEN "closed" ELSE oneshot[o]]

-----------------------------------------------------------------------------
(* Operations.                                                             *)

\* expect looks whether the accept task still runs.
ExpectChecks(o) ==
    /\ listener = "held" /\ opening[o] = "new"
    /\ opening' = [opening EXCEPT ![o] = IF acceptTask = "ended" THEN "done" ELSE "checked"]
    /\ oneshot' = IF acceptTask = "ended" THEN [oneshot EXCEPT ![o] = "closed"] ELSE oneshot
    /\ UNCHANGED <<listenerTasks, expectations, handshakes, measurements>>

\* It takes a permit of both budgets and registers; over a limit it fails and keeps neither.
ExpectRegisters(o) ==
    /\ listener = "held" /\ opening[o] = "checked"
    /\ IF Cardinality(IoHeld) < ActiveIo /\ Cardinality(OpenHeld) < PendingOpens
       THEN /\ expectations' = expectations \cup {o}
            /\ opening' = [opening EXCEPT ![o] = "waiting"]
            /\ UNCHANGED oneshot
       ELSE /\ opening' = [opening EXCEPT ![o] = "done"]
            /\ oneshot' = [oneshot EXCEPT ![o] = "closed"]
            /\ UNCHANGED expectations
    /\ UNCHANGED <<listenerTasks, handshakes, measurements>>

\* accept gets the channel.
AcceptReceives(o) ==
    /\ opening[o] = "waiting" /\ oneshot[o] \in Connections
    /\ opening' = [opening EXCEPT ![o] = "open"]
    /\ expectations' = expectations \ {o}
    /\ UNCHANGED <<listenerTasks, oneshot, handshakes, measurements>>

\* accept learns that its sender is gone, times out, or is itself dropped.
AcceptGivesUp(o) ==
    /\ opening[o] = "waiting"
    /\ opening' = [opening EXCEPT ![o] = "dropping"]
    /\ expectations' = expectations \ {o}
    /\ UNCHANGED <<listenerTasks, oneshot, handshakes, measurements>>

\* After Drop has removed the expectation the receiver goes, with a channel sent meanwhile.
ReceiverGoes(o) ==
    /\ opening[o] = "dropping"
    /\ opening' = [opening EXCEPT ![o] = "done"]
    /\ oneshot' = [oneshot EXCEPT ![o] = "closed"]
    /\ UNCHANGED <<listenerTasks, expectations, handshakes, measurements>>

\* An operation is done with its channel and drops both halves.
ChannelEnds(o) ==
    /\ opening[o] = "open"
    /\ opening' = [opening EXCEPT ![o] = "done"]
    /\ oneshot' = [oneshot EXCEPT ![o] = "closed"]
    /\ UNCHANGED <<listenerTasks, expectations, handshakes, measurements>>

-----------------------------------------------------------------------------
(* The accept loop.                                                        *)

\* A peer connects (the kernel queues it).  Only what was requested has a token to show.
Connects(c) ==
    /\ admitting[c] = "none" /\ acceptTask # "ended"
    /\ opening[claim[c].token] \notin {"new", "checked"}
    /\ admitting' = [admitting EXCEPT ![c] = "queued"]
    /\ UNCHANGED <<listenerTasks, registry, claim, measurements>>

\* A connection over the handshake budget is dropped; another gets a task.
Accepts(c) ==
    /\ acceptTask = "accepting" /\ admitting[c] = "queued"
    /\ admitting' = [admitting EXCEPT ![c] =
                       IF Cardinality(Handshaking) < Handshakes THEN "handshake" ELSE "over"]
    /\ UNCHANGED <<listenerTasks, registry, claim, measurements>>

\* accept failed for want of descriptors: sleep and go on.
AcceptBacksOff ==
    /\ acceptTask \in {"accepting", "sleeping"}
    /\ acceptTask' = IF acceptTask = "accepting" THEN "sleeping" ELSE "accepting"
    /\ UNCHANGED <<listener, registry, handshakes, measurements>>

\* Any other error is fatal: tell everybody, ...
AcceptFails ==
    /\ acceptTask = "accepting"
    /\ acceptTask' = "failed"
    /\ UNCHANGED <<listener, registry, handshakes, measurements>>

\* ... forget every expectation, ...
FailureClears ==
    /\ acceptTask = "failed"
    /\ acceptTask' = "cleared"
    /\ expectations' = {}
    /\ Dropped(expectations)
    /\ UNCHANGED <<listener, opening, handshakes, measurements>>

\* ... and end, as does a task that was aborted.  Its socket goes, with what was queued on it.
AcceptTaskEnds ==
    /\ \/ acceptTask = "cleared"
       \/ listener # "held" /\ acceptTask \in {"accepting", "sleeping"}
    /\ acceptTask' = "ended"
    /\ admitting' = [c \in Connections |-> IF admitting[c] = "queued" THEN "over" ELSE admitting[c]]
    /\ UNCHANGED <<listener, registry, claim, measurements>>

\* Drop for ChannelListener, when nobody is inside expect: abort the task, ...
ListenerAborts ==
    /\ listener = "held" /\ \A o \in Expecters : opening[o] # "checked"
    /\ listener' = "aborted"
    /\ UNCHANGED <<acceptTask, registry, handshakes, measurements>>

\* ... then forget every expectation (and remove the directory).
ListenerClears ==
    /\ listener = "aborted"
    /\ listener' = "dropped"
    /\ expectations' = {}
    /\ Dropped(expectations)
    /\ UNCHANGED <<acceptTask, opening, handshakes, measurements>>

-----------------------------------------------------------------------------
(* admit.                                                                  *)

\* The peer is trusted, its first frame opens a channel somebody expects, and the token fits.
Admissible(c) ==
    /\ claim[c].trusted /\ claim[c].open
    /\ claim[c].id \in expectations /\ claim[c].token = claim[c].id

\* Mutant: the expectation is looked up, not taken.
MatchesAndKeeps(c) ==
    /\ admitting[c] = "handshake" /\ Admissible(c)
    /\ admitting' = [admitting EXCEPT ![c] = "matched"]
    /\ UNCHANGED <<listenerTasks, registry, claim, measurements>>

\* The expectation is taken from the registry, so its token is used up.
Matches(c) ==
    /\ admitting[c] = "handshake" /\ Admissible(c)
    /\ admitting' = [admitting EXCEPT ![c] = "matched"]
    /\ expectations' = expectations \ {claim[c].id}
    /\ UNCHANGED <<listenerTasks, opening, oneshot, claim, measurements>>

\* Refused, or silent for too long, or (either way) cut off with the accept task.
Refused(c) ==
    /\ admitting[c] = "handshake"
    /\ admitting' = [admitting EXCEPT ![c] = "over"]
    /\ UNCHANGED <<listenerTasks, registry, claim, measurements>>

\* The acknowledgment cannot be written, or the task is cut off before it is: the channel and
\* the sender go.
MatchLost(c) ==
    /\ admitting[c] = "matched"
    /\ admitting' = [admitting EXCEPT ![c] = "over"]
    /\ Dropped({claim[c].id})
    /\ UNCHANGED <<listenerTasks, opening, expectations, claim, measurements>>

\* The channel is sent to the operation if that still has its receiver.
HandsOver(c) ==
    /\ admitting[c] = "matched"
    /\ IF oneshot[claim[c].id] = "empty"
       THEN /\ oneshot' = [oneshot EXCEPT ![claim[c].id] = c]
            /\ admitting' = [admitting EXCEPT ![c] = "measuring"]
            /\ opened' = opened + 1
       ELSE /\ admitting' = [admitting EXCEPT ![c] = "over"]
            /\ UNCHANGED <<oneshot, opened>>
    /\ UNCHANGED <<listenerTasks, opening, expectations, claim, lost, samples, taken>>

\* The sample is kept, in place of the oldest when there is no room.
Measures(c) ==
    /\ admitting[c] = "measuring"
    /\ admitting' = [admitting EXCEPT ![c] = "over"]
    /\ IF samples = SetupSamples
       THEN lost' = lost + 1 /\ UNCHANGED samples
       ELSE samples' = samples + 1 /\ UNCHANGED lost
    /\ UNCHANGED <<listenerTasks, registry, claim, opened, taken>>

\* take_setup_samples_us
TakesSamples ==
    /\ listener = "held" /\ samples > 0
    /\ taken' = taken + samples
    /\ samples' = 0
    /\ UNCHANGED <<listenerTasks, registry, handshakes, opened, lost>>

ListenerNext ==
    \/ \E o \in Expecters :
         \/ ExpectChecks(o) \/ ExpectRegisters(o) \/ AcceptReceives(o) \/ AcceptGivesUp(o)
         \/ ReceiverGoes(o) \/ ChannelEnds(o)
    \/ \E c \in Connections :
         Connects(c) \/ Accepts(c) \/ Matches(c) \/ Refused(c) \/ MatchLost(c) \/ HandsOver(c)
         \/ Measures(c)
    \/ AcceptBacksOff \/ AcceptFails \/ FailureClears \/ AcceptTaskEnds
    \/ ListenerAborts \/ ListenerClears \/ TakesSamples

-----------------------------------------------------------------------------
\* A channel reaches the operation that asked for it: the connection an operation got is the
\* trusted peer's and showed that operation's own id and token (admit), and a token opens one
\* channel, however many connections show it and whenever the operation gives up.
ChannelsReachTheirOwn ==
    /\ \A o \in Expecters : oneshot[o] \in Connections =>
         /\ claim[oneshot[o]] = [trusted |-> TRUE, open |-> TRUE, id |-> o, token |-> o]
         /\ o \notin expectations /\ Matched(o) = {}
    /\ \A c, d \in Connections :
         admitting[c] = "matched" /\ admitting[d] = "matched" /\ claim[c].id = claim[d].id => c = d

\* An operation that waits is expected, is being handed its channel, or has been told: a fatal
\* accept error, a dropped listener or a handshake cut off before its acknowledgment leaves
\* nobody waiting on a sender that is gone.
WaitersAreTold ==
    \A o \in Expecters :
        opening[o] = "waiting" /\ oneshot[o] = "empty" => o \in expectations \/ Matched(o) # {}

\* The budgets hold whoever keeps the permits alive: entries, receivers, channels and
\* handshake tasks; and the registry keeps no entry of an operation that gave up.
BudgetsHold ==
    /\ Cardinality(IoHeld) <= ActiveIo
    /\ Cardinality(OpenHeld) <= PendingOpens
    /\ Cardinality(Handshaking) <= Handshakes
    /\ \A o \in expectations : opening[o] = "waiting"

\* Every channel handed over is measured once: kept, pushed out by a newer one, or drained.
SamplesAddUp ==
    opened = taken + samples + lost + Cardinality({c \in Connections : admitting[c] = "measuring"})

=============================================================================
