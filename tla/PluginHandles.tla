---------------------------- MODULE PluginHandles ----------------------------
(***************************************************************************)
(* Sandbox handles across the plugin protocol.  The host's provider and    *)
(* handles turn every operation into one call (client/provider.rs,         *)
(* client/sandbox.rs, client/fs.rs); the plugin finds the sandbox by id in *)
(* a bounded cache of handles or attaches to it again, and runs the        *)
(* operation (server/mod.rs, server/sandbox.rs, server/access.rs,          *)
(* server/services.rs, server/fs.rs).                                      *)
(*                                                                         *)
(* An operation stands for its class: all methods of a class are treated   *)
(* alike.  What a provider does inside an operation is external; of it     *)
(* only the sandbox's existence is kept.  A sandbox can also be deleted    *)
(* behind this connection's back.                                          *)
(***************************************************************************)
EXTENDS Naturals, FiniteSets

CONSTANTS
    Boxes,      \* sandbox ids
    BoxClients,    \* host tasks
    MaxCached  \* limits.cached_handles

ASSUME HandleCacheAssumption == MaxCached \in Nat \ {0}

\* Operations of the provider, by the class of their method.
Openers == {"create", "attach", "undelete"}
\* Operations of a handle: state and lifecycle, files, and facets a capability gates.
Bound == {"state", "fs", "facet", "fork"}
ServiceCalls == {"snapshot", "volume"}
BoxOps == Openers \cup Bound \cup ServiceCalls \cup {"delete"}

VARIABLES
    boxState,        \* each sandbox at the backend: "none", "up" or "gone"
    offers,     \* the plugin's capabilities: which of "facet" and the services it offers
    cachedBoxes,\* ServerState.handles
    hostHandles,\* sandboxes the host holds a handle of
    shown,      \* capabilities the host's handles and provider show
    boxCall,    \* each client's call: its operation and sandbox, or NoCall
    boxAt,      \* "idle", "sent", "attaching", "acting", "describing" or "replied"
    boxAnswer,  \* the reply
    wasUp, wasGone  \* the sandbox existed, did not exist, at some moment of the call

handleCacheVars == <<boxState, offers, cachedBoxes, hostHandles, shown, boxCall, boxAt, boxAnswer, wasUp,
                wasGone>>

NoBox == "no sandbox"

ASSUME NoBoxAssumption == NoBox \notin Boxes

NoCall == [op |-> "none", id |-> NoBox]
BoxCalls == [op : BoxOps, id : Boxes \cup {NoBox}]
BoxAnswers == {"none", "ok", "not_found", "unsupported", "failed"}

HandlesTypeOK ==
    /\ boxState \in [Boxes -> {"none", "up", "gone"}]
    /\ offers \subseteq {"facet", "snapshot", "volume"} /\ shown \subseteq offers
    /\ cachedBoxes \subseteq Boxes /\ Cardinality(cachedBoxes) <= MaxCached
    /\ hostHandles \subseteq Boxes
    /\ boxCall \in [BoxClients -> BoxCalls \cup {NoCall}]
    /\ boxAt \in [BoxClients -> {"idle", "sent", "attaching", "acting", "describing", "replied"}]
    /\ boxAnswer \in [BoxClients -> BoxAnswers]
    /\ wasUp \in [BoxClients -> BOOLEAN] /\ wasGone \in [BoxClients -> BOOLEAN]

\* connect_with_limits: initialize brings the provider's capabilities.
HandlesInit ==
    /\ boxState = [s \in Boxes |-> "none"]
    /\ offers \in {{}, {"facet", "snapshot", "volume"}} /\ shown = offers
    /\ cachedBoxes = {} /\ hostHandles = {}
    /\ boxCall = [c \in BoxClients |-> NoCall] /\ boxAt = [c \in BoxClients |-> "idle"]
    /\ boxAnswer = [c \in BoxClients |-> "none"]
    /\ wasUp = [c \in BoxClients |-> FALSE] /\ wasGone = [c \in BoxClients |-> FALSE]

-----------------------------------------------------------------------------
\* What every call under way sees of its sandbox when sandboxes become b.
Sees(b) ==
    /\ wasUp' = [c \in BoxClients |-> wasUp[c] \/ (boxCall[c].id # NoBox /\ b[boxCall[c].id] = "up")]
    /\ wasGone' = [c \in BoxClients |-> wasGone[c] \/ (boxCall[c].id # NoBox /\ b[boxCall[c].id] # "up")]

BoxBecomes(s, state) ==
    LET b == [boxState EXCEPT ![s] = state] IN boxState' = b /\ Sees(b)

StandsStill == UNCHANGED <<boxState, wasUp, wasGone>>

Moves(c, place) == boxAt' = [boxAt EXCEPT ![c] = place]
AnswersCall(c, answer) == Moves(c, "replied") /\ boxAnswer' = [boxAnswer EXCEPT ![c] = answer]

-----------------------------------------------------------------------------
\* The host.

\* A call is sent: its sandbox is watched from here on.
Sends(c, op, s) ==
    /\ boxAt[c] = "idle"
    /\ boxCall' = [boxCall EXCEPT ![c] = [op |-> op, id |-> s]]
    /\ Moves(c, "sent")
    /\ wasUp' = [wasUp EXCEPT ![c] = s # NoBox /\ boxState[s] = "up"]
    /\ wasGone' = [wasGone EXCEPT ![c] = s # NoBox /\ boxState[s] # "up"]
    /\ UNCHANGED <<boxState, offers, cachedBoxes, hostHandles, shown, boxAnswer>>

\* PluginProvider: create, attach, undelete and delete go by id.
ProviderAsks(c) ==
    \/ Sends(c, "create", NoBox)
    \/ \E op \in {"attach", "undelete", "delete"}, s \in Boxes : boxState[s] # "none" /\ Sends(c, op, s)

\* ProviderSnapshots and ProviderVolumes exist when the capabilities name them.
SnapshotAsks(c) == "snapshot" \in shown /\ Sends(c, "snapshot", NoBox)
VolumeAsks(c) == "volume" \in shown /\ Sends(c, "volume", NoBox)

\* SandboxHandle: describe, lifecycle, resize, timers, labels, network and fork.
HandleAsks(c) == \E s \in hostHandles : Sends(c, "state", s) \/ Sends(c, "fork", s)

\* SandboxHandle::delete goes through the handle's id.
HandleDeletes(c) == \E s \in hostHandles : Sends(c, "delete", s)

\* SandboxFs: delete, exists, metadata, list_dir, create_dir, rename, set_permissions.
FsAsks(c) == \E s \in hostHandles : Sends(c, "fs", s)

\* A facet is given out only when its capability is shown.
FacetShown == "facet" \in shown

\* SandboxAccess: preview URLs, SSH, web terminal, VNC.
AccessAsks(c) == FacetShown /\ \E s \in hostHandles : Sends(c, "facet", s)

\* SandboxGit: a native clone is called; every other operation is derived over exec.
GitAsks(c) == FacetShown /\ \E s \in hostHandles : Sends(c, "facet", s)

\* wrap_handle, SandboxHandle::new: an opened or forked sandbox becomes a handle.
WrapsHandle(c) ==
    hostHandles' = IF boxAnswer[c] = "ok" /\ boxCall[c].op \in Openers \cup {"fork"}
                     THEN hostHandles \cup {boxCall[c].id} ELSE hostHandles

\* The caller takes the reply.
HostTakes(c) ==
    /\ boxAt[c] = "replied"
    /\ WrapsHandle(c)
    /\ boxAt' = [boxAt EXCEPT ![c] = "idle"]
    /\ boxCall' = [boxCall EXCEPT ![c] = NoCall]
    /\ boxAnswer' = [boxAnswer EXCEPT ![c] = "none"]
    /\ wasUp' = [wasUp EXCEPT ![c] = FALSE] /\ wasGone' = [wasGone EXCEPT ![c] = FALSE]
    /\ UNCHANGED <<boxState, offers, cachedBoxes, shown>>

-----------------------------------------------------------------------------
\* The plugin.

\* Registry::insert_bounded: a new entry in a full cache evicts an arbitrary one.
Remembers(s) ==
    cachedBoxes' \in
      IF s \notin cachedBoxes /\ Cardinality(cachedBoxes) >= MaxCached
        THEN {(cachedBoxes \ {old}) \cup {s} : old \in cachedBoxes}
        ELSE {cachedBoxes \cup {s}}

SandboxFromCache(c) ==
    /\ boxAt[c] = "sent" /\ boxCall[c].op \in Bound
    /\ IF boxCall[c].id \in cachedBoxes
         THEN Moves(c, "acting") /\ UNCHANGED boxAnswer
         ELSE AnswersCall(c, "not_found")
    /\ StandsStill
    /\ UNCHANGED <<offers, cachedBoxes, hostHandles, shown, boxCall>>

\* ServerState::sandbox: the cached handle, or a new one attached.
Sandbox(c) ==
    /\ boxAt[c] = "sent" /\ boxCall[c].op \in Bound
    /\ Moves(c, IF boxCall[c].id \in cachedBoxes THEN "acting" ELSE "attaching")
    /\ StandsStill
    /\ UNCHANGED <<offers, cachedBoxes, hostHandles, shown, boxCall, boxAnswer>>

\* The attach answers: the handle is remembered and used, or the sandbox is not there.
Reattached(c) ==
    /\ boxAt[c] = "attaching"
    /\ IF boxState[boxCall[c].id] = "up"
         THEN Moves(c, "acting") /\ Remembers(boxCall[c].id) /\ UNCHANGED boxAnswer
         ELSE AnswersCall(c, "not_found") /\ UNCHANGED cachedBoxes
    /\ StandsStill
    /\ UNCHANGED <<offers, hostHandles, shown, boxCall>>

\* A handle's operation runs at the backend, and finds the sandbox there or not.
BoundActs(c, ops) ==
    /\ boxAt[c] = "acting" /\ boxCall[c].op \in ops
    /\ \E answer \in {"ok", "failed"} :
         AnswersCall(c, IF boxState[boxCall[c].id] = "up" THEN answer ELSE "not_found")
    /\ StandsStill
    /\ UNCHANGED <<offers, cachedBoxes, hostHandles, shown, boxCall>>

StateServed(c) == BoundActs(c, {"state"})
FsServed(c) == BoundActs(c, {"fs"})

\* A facet the handle does not offer is refused; the host asks only for what it was shown.
FacetServed(c) ==
    IF "facet" \in offers THEN BoundActs(c, {"facet"})
    ELSE /\ boxAt[c] = "acting" /\ boxCall[c].op = "facet"
         /\ AnswersCall(c, "unsupported")
         /\ StandsStill /\ UNCHANGED <<offers, cachedBoxes, hostHandles, shown, boxCall>>

\* snapshots() and volumes(): the provider's services, if it has them.
ServiceServed(c) ==
    /\ boxAt[c] = "sent" /\ boxCall[c].op \in ServiceCalls
    /\ \E answer \in {"ok", "failed"} :
         AnswersCall(c, IF boxCall[c].op \in offers THEN answer ELSE "unsupported")
    /\ StandsStill
    /\ UNCHANGED <<offers, cachedBoxes, hostHandles, shown, boxCall>>

\* SANDBOX_CREATE and SANDBOX_FORK: the provider makes a sandbox and its handle is
\* remembered before it is described.
Makes(c) ==
    /\ \/ boxAt[c] = "sent" /\ boxCall[c].op = "create"
       \/ boxAt[c] = "acting" /\ boxCall[c].op = "fork" /\ boxState[boxCall[c].id] = "up"
    /\ \E s \in Boxes :
         /\ boxState[s] = "none"
         /\ boxState' = [boxState EXCEPT ![s] = "up"]
         /\ boxCall' = [boxCall EXCEPT ![c].id = s]
         /\ wasUp' = [wasUp EXCEPT ![c] = TRUE] /\ wasGone' = [wasGone EXCEPT ![c] = FALSE]
         /\ Remembers(s)
    /\ Moves(c, "describing")
    /\ UNCHANGED <<offers, hostHandles, shown, boxAnswer>>

\* The provider refuses to make one.
MakeFails(c) ==
    /\ \/ boxAt[c] = "sent" /\ boxCall[c].op = "create"
       \/ boxAt[c] = "acting" /\ boxCall[c].op = "fork"
    /\ AnswersCall(c, IF boxCall[c].op = "fork" /\ boxState[boxCall[c].id] # "up" THEN "not_found" ELSE "failed")
    /\ StandsStill
    /\ UNCHANGED <<offers, cachedBoxes, hostHandles, shown, boxCall>>

\* SANDBOX_ATTACH: the provider attaches anew, whatever the cache holds.
AttachServed(c) ==
    /\ boxAt[c] = "sent" /\ boxCall[c].op = "attach"
    /\ IF boxState[boxCall[c].id] = "up"
         THEN Moves(c, "describing") /\ Remembers(boxCall[c].id) /\ UNCHANGED boxAnswer
         ELSE AnswersCall(c, "not_found") /\ UNCHANGED cachedBoxes
    /\ StandsStill
    /\ UNCHANGED <<offers, hostHandles, shown, boxCall>>

\* SANDBOX_UNDELETE: a deleted sandbox comes back, or is beyond recovery.
UndeleteServed(c) ==
    /\ boxAt[c] = "sent" /\ boxCall[c].op = "undelete"
    /\ \/ /\ BoxBecomes(boxCall[c].id, "up")
          /\ Remembers(boxCall[c].id) /\ Moves(c, "describing") /\ UNCHANGED boxAnswer
       \/ AnswersCall(c, "failed") /\ StandsStill /\ UNCHANGED cachedBoxes
    /\ UNCHANGED <<offers, hostHandles, shown, boxCall>>

\* handle.describe(), whose failure is the reply although the sandbox exists.
DescribeServed(c) ==
    /\ boxAt[c] = "describing"
    /\ \E answer \in {"ok", "failed"} :
         AnswersCall(c, IF boxState[boxCall[c].id] = "up" THEN answer ELSE "not_found")
    /\ StandsStill
    /\ UNCHANGED <<offers, cachedBoxes, hostHandles, shown, boxCall>>

\* SANDBOX_DELETE: by the cached handle, or by id; a deleted sandbox deletes again.  Only a
\* delete that worked forgets the handle.
DeleteServed(c) ==
    /\ boxAt[c] = "sent" /\ boxCall[c].op = "delete"
    /\ \/ /\ BoxBecomes(boxCall[c].id, "gone")
          /\ cachedBoxes' = cachedBoxes \ {boxCall[c].id}
          /\ AnswersCall(c, "ok")
       \/ AnswersCall(c, "failed") /\ StandsStill /\ UNCHANGED cachedBoxes
    /\ UNCHANGED <<offers, hostHandles, shown, boxCall>>

\* Another client of the backend deletes a sandbox.
DeletedElsewhere(s) ==
    /\ boxState[s] = "up"
    /\ BoxBecomes(s, "gone")
    /\ UNCHANGED <<offers, cachedBoxes, hostHandles, shown, boxCall, boxAt, boxAnswer>>

-----------------------------------------------------------------------------
HostAsks(c) ==
    \/ ProviderAsks(c) \/ SnapshotAsks(c) \/ VolumeAsks(c) \/ HandleAsks(c) \/ HandleDeletes(c)
    \/ FsAsks(c) \/ AccessAsks(c) \/ GitAsks(c)

PluginServes(c) ==
    \/ Sandbox(c) \/ Reattached(c) \/ StateServed(c) \/ FsServed(c) \/ FacetServed(c)
    \/ ServiceServed(c) \/ Makes(c) \/ MakeFails(c) \/ AttachServed(c) \/ UndeleteServed(c)
    \/ DescribeServed(c) \/ DeleteServed(c)

HandlesNext ==
    \/ \E c \in BoxClients : HostAsks(c) \/ HostTakes(c) \/ PluginServes(c)
    \/ \E s \in Boxes : DeletedElsewhere(s)

-----------------------------------------------------------------------------
\* A reply fits the sandbox its caller named, whatever the bounded cache evicted and however
\* other callers' deletes, undeletes and attaches interleave: Ok was true of a sandbox that
\* existed during the call (for a delete, that was gone), "not found" is said only of one
\* that did not exist at some moment of it, and no facet or service that was shown is refused
\* as unsupported.
AnswersFitTheSandbox ==
    \A c \in BoxClients :
      LET call == boxCall[c] IN
      /\ boxAnswer[c] = "not_found" => wasGone[c]
      /\ boxAnswer[c] = "ok" /\ call.op \in Bound \cup Openers => wasUp[c]
      /\ boxAnswer[c] = "ok" /\ call.op = "delete" => wasGone[c]
      /\ boxAnswer[c] # "unsupported"
=============================================================================
