---------------------------- MODULE HostLifecycle ----------------------------
(***************************************************************************)
(* Sandbox lifecycle of one durable host provider (sandbox-driver-host,    *)
(* lib.rs and registry.rs): the records on disk, the cache of handles, and *)
(* the create, attach, start, stop, delete and exec calls that interleave  *)
(* at their awaits.                                                        *)
(*                                                                         *)
(* A handle stands for one shared live state (the Arcs every with_emitter  *)
(* clone shares).  Lifecycle state has three copies: `state` of a handle,  *)
(* `record` on disk, and `accepting`, the admission of the handle's        *)
(* ProcessGroups.  A drain (HostFence) is one step here, which succeeds    *)
(* or fails.                                                               *)
(***************************************************************************)
EXTENDS Naturals, FiniteSets

CONSTANTS
    Ids,         \* sandbox ids
    Managed,     \* the ids whose workspace the provider owns; they are fresh
                 \* at create, the others are derived from a directory's path
    Calls,       \* concurrent callers
    MaxHandles,  \* bound: handles ever built
    MaxLosses,   \* bound: provider crashes
    Faults,      \* which steps may fail
    None

AllFaults == {"disk", "sync", "fence"}

ASSUME HandlesAssumption == MaxHandles \in Nat /\ MaxLosses \in Nat
ASSUME IdsAssumption == Managed \subseteq Ids
ASSUME FaultsAssumption == Faults \subseteq AllFaults
ASSUME NoneAssumption == None \notin Ids \cup Calls \cup (1 .. MaxHandles)

Handles == 1 .. MaxHandles
States == {"Running", "Stopped", "Deleted"}

ASSUME NoStateAssumption == None \notin States

VARIABLES
    record,      \* registry: the state each id's record.json holds, None without one
    workspace,   \* the ids whose workspace directory exists
    cache,       \* HostProvider::registry, the handle cached for each id
    id,          \* HostSandbox::record.id, None for a handle not built
    state,       \* HostSandbox::state
    accepting,   \* ProcessGroups admission of each handle
    generation,  \* the handle's process generation: "none", "open", or
                 \* "lost" when another handle's drain removed its directory
    busy,        \* handles whose commands are running
    orphans,     \* ids with commands of a dead provider still running
    lock,        \* who holds each handle's state mutex
    known,       \* handles callers of this process have been given
    pc, on, of, want,  \* each call: its step, handle, id and target state
    torn,        \* history: the states that failed or dropped writes of a managed
                 \* handle's record may have published
    losses

diskVars == <<record, workspace>>
handleVars == <<id, state, accepting, generation, busy, lock, orphans>>
callVars == <<pc, on, of, want>>
vars == <<diskVars, cache, handleVars, known, callVars, torn, losses>>

Building == {"realize", "write", "cache", "adopt", "adopted"}
PcStates == Building \cup {"idle", "check", "lock", "admit", "work", "persist",
                          "rollback", "evict"}

TypeOK ==
    /\ record \in [Ids -> States \cup {None}]
    /\ workspace \in SUBSET Ids
    /\ cache \in [Ids -> Handles \cup {None}]
    /\ id \in [Handles -> Ids \cup {None}]
    /\ state \in [Handles -> States]
    /\ accepting \in [Handles -> BOOLEAN]
    /\ generation \in [Handles -> {"none", "open", "lost"}]
    /\ busy \in SUBSET Handles
    /\ orphans \in SUBSET Ids
    /\ lock \in [Handles -> Calls \cup {None}]
    /\ known \in SUBSET Handles
    /\ pc \in [Calls -> PcStates]
    /\ on \in [Calls -> Handles \cup {None}]
    /\ of \in [Calls -> Ids \cup {None}]
    /\ want \in [Calls -> States]
    /\ torn \in [Handles -> SUBSET States]
    /\ losses \in 0 .. MaxLosses

-----------------------------------------------------------------------------
(* Steps of a call.                                                         *)

\* The bound on handles: each call on its way to build one will get it.
Room == Cardinality({h \in Handles : id[h] = None}) > Cardinality({c \in Calls : pc[c] \in Building})

Goto(c, p) == pc' = [pc EXCEPT ![c] = p]

\* A finished call holds nothing.
Return(c) == /\ pc' = [pc EXCEPT ![c] = "idle"]
             /\ on' = [on EXCEPT ![c] = None]
             /\ of' = [of EXCEPT ![c] = None]
             /\ want' = [want EXCEPT ![c] = "Running"]

\* Mutated form of CacheHandle: the handle is built but not cached.
BuildHandle(h, i, s) ==
    /\ id[h] = None
    /\ id' = [id EXCEPT ![h] = i]
    /\ state' = [state EXCEPT ![h] = s]
    /\ accepting' = [accepting EXCEPT ![h] = (s = "Running")]
    /\ UNCHANGED <<cache, generation, busy, lock, orphans>>

\* cache_handle: a new handle for id i in state s, inserted over whatever the
\* cache holds for i.
CacheHandle(h, i, s) ==
    /\ id[h] = None
    /\ id' = [id EXCEPT ![h] = i]
    /\ state' = [state EXCEPT ![h] = s]
    /\ accepting' = [accepting EXCEPT ![h] = (s = "Running")]
    /\ cache' = [cache EXCEPT ![i] = h]
    /\ UNCHANGED <<generation, busy, lock, orphans>>

\* registry::write publishes by rename; an error may come before it or, from
\* the directory sync, after it.
WriteOk(i, s) == record' = [record EXCEPT ![i] = s]
WriteFails(i, s) == \/ "disk" \in Faults /\ UNCHANGED record
                    \/ "sync" \in Faults /\ WriteOk(i, s)

\* History: a write that was not seen to succeed may be on disk.  It is kept for
\* managed sandboxes, the ones RecordIsLiveState is about.
Tear(h, s) == torn' = [torn EXCEPT ![h] = IF id[h] \in Managed THEN @ \cup {s} ELSE @]
Mend(h) == torn' = [torn EXCEPT ![h] = {}]

\* ProcessGroups::drain through handle h: it fences every generation of the
\* sandbox, so work of other handles and of dead owners ends too, and the
\* generation directories of other handles are gone.
Drain(h) ==
    /\ busy' = {k \in busy : id[k] # id[h]}
    /\ orphans' = orphans \ {id[h]}
    /\ generation' = [k \in Handles |->
          CASE k = h -> "none"
            [] k # h /\ id[k] = id[h] /\ generation[k] = "open" -> "lost"
            [] OTHER -> generation[k]]

Accept(h, b) == accepting' = [accepting EXCEPT ![h] = b]

\* Mutated form of AdmitOk: stop drains but leaves admission open.
AdmitOpen(h, running) ==
    /\ UNCHANGED accepting
    /\ IF running /\ accepting[h] THEN UNCHANGED <<busy, orphans, generation>> ELSE Drain(h)

\* HostSandbox::admit_work.  Stop closes admission and then drains; start
\* drains when admission is closed and then opens it.
AdmitOk(h, running) ==
    /\ Accept(h, running)
    /\ IF running /\ accepting[h] THEN UNCHANGED <<busy, orphans, generation>> ELSE Drain(h)

AdmitFails(h, running) ==
    /\ "fence" \in Faults
    /\ ~ (running /\ accepting[h])
    /\ Accept(h, FALSE)
    /\ UNCHANGED <<busy, orphans, generation>>

-----------------------------------------------------------------------------
(* create                                                                   *)

\* A managed id is fresh; a designated one may be cached already.
CreateLookup(c, i) ==
    /\ pc[c] = "idle"
    /\ i \in Managed => record[i] = None /\ \A k \in Calls : of[k] # i
    /\ IF cache[i] # None
       THEN /\ known' = known \cup {cache[i]}
            /\ UNCHANGED callVars
       ELSE /\ Room
            /\ Goto(c, "realize")
            /\ of' = [of EXCEPT ![c] = i]
            /\ UNCHANGED <<known, on, want>>
    /\ UNCHANGED <<diskVars, cache, handleVars, torn, losses>>

\* WorkspacePlan::realize; a designated directory exists already.
Realize(c) ==
    /\ pc[c] = "realize"
    /\ workspace' = workspace \cup {of[c]}
    /\ Goto(c, "write")
    /\ UNCHANGED <<record, cache, handleVars, known, on, of, want, torn, losses>>

\* The new record, of a create or of an adopted directory.
WriteRecord(c) ==
    /\ pc[c] \in {"write", "adopt"}
    /\ \/ /\ WriteOk(of[c], "Running")
          /\ Goto(c, IF pc[c] = "write" THEN "cache" ELSE "adopted")
          /\ UNCHANGED <<on, of, want>>
       \/ WriteFails(of[c], "Running") /\ Return(c)
    /\ UNCHANGED <<workspace, cache, handleVars, known, torn, losses>>

\* The handle is cached in a later critical section than the lookup's.
CacheNew(c, h) ==
    /\ pc[c] \in {"cache", "adopted"}
    /\ CacheHandle(h, of[c], "Running")
    /\ \/ pc[c] = "cache" /\ known' = known \cup {h} /\ Return(c)
       \/ /\ pc[c] = "adopted" /\ Goto(c, "check")
          /\ on' = [on EXCEPT ![c] = h]
          /\ UNCHANGED <<known, of, want>>
    /\ UNCHANGED <<diskVars, torn, losses>>

-----------------------------------------------------------------------------
(* attach and delete by id                                                  *)

\* HostProvider::load under the registry lock, then `step` with the handle;
\* `missing` when neither the cache nor a live record has the id.
Load(c, i, step, target, missing) ==
    \/ /\ cache[i] # None
       /\ Goto(c, step) /\ on' = [on EXCEPT ![c] = cache[i]]
       /\ want' = [want EXCEPT ![c] = target]
       /\ UNCHANGED <<cache, handleVars, of>>
    \/ /\ cache[i] = None /\ record[i] \in {"Running", "Stopped"}
       /\ Room
       /\ \E h \in Handles :
            /\ CacheHandle(h, i, record[i])
            /\ Goto(c, step) /\ on' = [on EXCEPT ![c] = h]
       /\ want' = [want EXCEPT ![c] = target]
       /\ UNCHANGED of
    \/ /\ cache[i] = None /\ record[i] \notin {"Running", "Stopped"}
       /\ missing
       /\ UNCHANGED <<cache, handleVars, on, want>>

\* A designated directory without a live record is adopted: recorded as
\* Running.  Any other missing id is NotFound.
Attach(c, i) ==
    /\ pc[c] = "idle"
    /\ Load(c, i, "check", want[c],
            IF i \in Managed THEN UNCHANGED <<pc, of>>
                             ELSE Room /\ Goto(c, "adopt") /\ of' = [of EXCEPT ![c] = i])
    /\ UNCHANGED <<diskVars, known, torn, losses>>

\* Deleting an unknown or a deleted id succeeds.
DeleteById(c, i) ==
    /\ pc[c] = "idle"
    /\ Load(c, i, "lock", "Deleted", UNCHANGED <<pc, of>>)
    /\ UNCHANGED <<diskVars, known, torn, losses>>

\* An attached handle is returned unless it is deleted by then.
Check(c) ==
    /\ pc[c] = "check" /\ lock[on[c]] = None
    /\ known' = IF state[on[c]] = "Deleted" THEN known ELSE known \cup {on[c]}
    /\ Return(c)
    /\ UNCHANGED <<diskVars, cache, handleVars, torn, losses>>

-----------------------------------------------------------------------------
(* HostSandbox::transition                                                  *)

Begin(c, h, target) ==
    /\ pc[c] = "idle" /\ h \in known
    /\ Goto(c, "lock")
    /\ on' = [on EXCEPT ![c] = h]
    /\ want' = [want EXCEPT ![c] = target]
    /\ UNCHANGED <<diskVars, cache, handleVars, known, of, torn, losses>>

\* Mutated form of Lock: a deleted sandbox is treated like any other.
LockAny(c) ==
    /\ pc[c] = "lock" /\ lock[on[c]] = None
    /\ lock' = [lock EXCEPT ![on[c]] = c]
    /\ Goto(c, "admit")
    /\ UNCHANGED <<on, of, want, diskVars, cache, id, state, accepting, generation, busy, orphans,
                   known, torn, losses>>

\* A deleted sandbox does not start again; stopping or deleting it again only
\* evicts it.
Lock(c) ==
    /\ pc[c] = "lock" /\ lock[on[c]] = None
    /\ \/ /\ state[on[c]] # "Deleted"
          /\ lock' = [lock EXCEPT ![on[c]] = c]
          /\ Goto(c, "admit") /\ UNCHANGED <<on, of, want>>
       \/ /\ state[on[c]] = "Deleted" /\ want[c] # "Running"
          /\ Goto(c, "evict") /\ UNCHANGED <<on, of, want, lock>>
       \/ /\ state[on[c]] = "Deleted" /\ want[c] = "Running"
          /\ Return(c) /\ UNCHANGED lock
    /\ UNCHANGED <<diskVars, cache, id, state, accepting, generation, busy, orphans, known, torn, losses>>

Unlock(c) == lock' = [lock EXCEPT ![on[c]] = None]

\* A failed change of admission ends the transition at once.
Admit(c) ==
    /\ pc[c] = "admit"
    /\ \/ /\ AdmitOk(on[c], want[c] = "Running")
          /\ Goto(c, IF want[c] = "Deleted" THEN "work" ELSE "persist")
          /\ UNCHANGED <<on, of, want, lock>>
       \/ AdmitFails(on[c], want[c] = "Running") /\ Unlock(c) /\ Return(c)
    /\ UNCHANGED <<diskVars, cache, id, state, known, torn, losses>>

\* remove_managed_workspace
RemoveWorkspace(c) ==
    /\ pc[c] = "work"
    /\ \/ workspace' = workspace \ (Managed \cap {id[on[c]]}) /\ Goto(c, "persist")
       \/ "disk" \in Faults /\ UNCHANGED workspace /\ Goto(c, "rollback")
    /\ UNCHANGED <<record, cache, handleVars, known, on, of, want, torn, losses>>

\* Mutated form of Persist: the live state moves before the record is safe.
PersistLate(c) ==
    /\ pc[c] = "persist"
    /\ state' = [state EXCEPT ![on[c]] = want[c]]
    /\ \/ /\ WriteOk(id[on[c]], want[c])
          /\ Mend(on[c])
          /\ Unlock(c)
          /\ IF want[c] = "Deleted" THEN Goto(c, "evict") /\ UNCHANGED <<on, of, want>> ELSE Return(c)
       \/ /\ WriteFails(id[on[c]], want[c])
          /\ Tear(on[c], want[c])
          /\ Goto(c, "rollback") /\ UNCHANGED <<on, of, want, lock>>
    /\ UNCHANGED <<workspace, cache, id, accepting, generation, busy, orphans, known, losses>>

\* The record first, then the live state; a deleted handle is evicted after
\* the lock is released.
Persist(c) ==
    /\ pc[c] = "persist"
    /\ \/ /\ WriteOk(id[on[c]], want[c])
          /\ state' = [state EXCEPT ![on[c]] = want[c]]
          /\ Mend(on[c])
          /\ Unlock(c)
          /\ IF want[c] = "Deleted" THEN Goto(c, "evict") /\ UNCHANGED <<on, of, want>> ELSE Return(c)
       \/ /\ WriteFails(id[on[c]], want[c])
          /\ Tear(on[c], want[c])
          /\ Goto(c, "rollback") /\ UNCHANGED <<on, of, want, lock, state>>
    /\ UNCHANGED <<workspace, cache, id, accepting, generation, busy, orphans, known, losses>>

\* Mutated form of Rollback: a failed change always reopens admission.
RollbackOpen(c) ==
    /\ pc[c] = "rollback"
    /\ AdmitOk(on[c], TRUE)
    /\ Unlock(c) /\ Return(c)
    /\ UNCHANGED <<diskVars, cache, id, state, known, torn, losses>>

\* Admission moves back to the unchanged live state; a failure is only logged.
Rollback(c) ==
    /\ pc[c] = "rollback"
    /\ LET running == state[on[c]] = "Running" IN
        AdmitOk(on[c], running) \/ AdmitFails(on[c], running)
    /\ Unlock(c) /\ Return(c)
    /\ UNCHANGED <<diskVars, cache, id, state, known, torn, losses>>

\* remove_cached_handle removes whatever handle is cached under the id.
Evict(c) ==
    /\ pc[c] = "evict"
    /\ cache' = [cache EXCEPT ![id[on[c]]] = None]
    /\ Return(c)
    /\ UNCHANGED <<diskVars, handleVars, known, torn, losses>>

-----------------------------------------------------------------------------
(* exec, and what may happen at any time                                    *)

\* HostExec::spawn_command: a missing managed workspace is recreated before
\* ProcessGroups::spawn looks at admission.  A sentinel whose generation
\* directory is gone exits at once.
Exec(h) ==
    /\ h \in known
    /\ workspace' = workspace \cup (Managed \cap {id[h]})
    /\ IF accepting[h]
       THEN /\ generation' = [generation EXCEPT ![h] = IF @ = "none" THEN "open" ELSE @]
            /\ busy' = IF generation[h] = "lost" THEN busy ELSE busy \cup {h}
       ELSE UNCHANGED <<generation, busy>>
    /\ UNCHANGED <<record, cache, id, state, accepting, orphans, lock, known, callVars, torn, losses>>

\* Commands end by themselves, those of a dead provider by their sentinel.
WorkEnds(h) ==
    /\ h \in busy
    /\ busy' = busy \ {h}
    /\ UNCHANGED <<diskVars, cache, id, state, accepting, generation, orphans, lock, known,
                   callVars, torn, losses>>

OrphansEnd(i) ==
    /\ i \in orphans
    /\ orphans' = orphans \ {i}
    /\ UNCHANGED <<diskVars, cache, id, state, accepting, generation, busy, lock, known,
                   callVars, torn, losses>>

\* A caller drops its handle.  A handle nothing refers to any more is freed;
\* a durable provider leaves its commands running.
Release(h) ==
    /\ h \in known
    /\ known' = known \ {h}
    /\ UNCHANGED <<diskVars, cache, handleVars, callVars, torn, losses>>

Free(h) ==
    /\ id[h] # None /\ h \notin known
    /\ cache[id[h]] # h /\ \A c \in Calls : on[c] # h
    /\ id' = [id EXCEPT ![h] = None]
    /\ state' = [state EXCEPT ![h] = "Running"]
    /\ Accept(h, FALSE)
    /\ generation' = [generation EXCEPT ![h] = "none"]
    /\ busy' = busy \ {h}
    /\ Mend(h)
    /\ orphans' = IF h \in busy THEN orphans \cup {id[h]} ELSE orphans
    /\ UNCHANGED <<diskVars, cache, lock, known, callVars, losses>>

\* A caller drops a call's future at one of its awaits: the guards it holds
\* are released and nothing is rolled back.  A record being written may or may
\* not have been renamed, and a drain closed admission before it began.
DropCall(c) ==
    /\ pc[c] # "idle"
    /\ record' \in {record} \cup
         CASE pc[c] \in {"write", "adopt"} -> {[record EXCEPT ![of[c]] = "Running"]}
           [] pc[c] = "persist" -> {[record EXCEPT ![id[on[c]]] = want[c]]}
           [] OTHER -> {}
    /\ \/ UNCHANGED accepting
       \/ pc[c] = "admit" /\ want[c] # "Running" /\ Accept(on[c], FALSE)
       \/ pc[c] = "rollback" /\ state[on[c]] # "Running" /\ Accept(on[c], FALSE)
    /\ lock' = [h \in Handles |-> IF lock[h] = c THEN None ELSE lock[h]]
    /\ IF pc[c] = "persist" THEN Tear(on[c], want[c]) ELSE UNCHANGED torn
    /\ Return(c)
    /\ UNCHANGED <<workspace, cache, id, state, generation, busy, orphans, known, losses>>

NoHandles ==
    /\ id' = [h \in Handles |-> None]
    /\ state' = [h \in Handles |-> "Running"]
    /\ accepting' = [h \in Handles |-> FALSE]
    /\ generation' = [h \in Handles |-> "none"]
    /\ busy' = {}
    /\ lock' = [h \in Handles |-> None]

NoCalls ==
    /\ pc' = [c \in Calls |-> "idle"]
    /\ on' = [c \in Calls |-> None]
    /\ of' = [c \in Calls |-> None]
    /\ want' = [c \in Calls |-> "Running"]

\* The provider process dies and its registry is opened by another one.
Crash ==
    /\ losses < MaxLosses
    /\ losses' = losses + 1
    /\ cache' = [i \in Ids |-> None]
    /\ known' = {}
    /\ torn' = [h \in Handles |-> {}]
    /\ orphans' = orphans \cup {id[h] : h \in busy}
    /\ NoHandles
    /\ NoCalls
    /\ UNCHANGED diskVars

-----------------------------------------------------------------------------
Init ==
    /\ record = [i \in Ids |-> None]
    /\ workspace = Ids \ Managed
    /\ cache = [i \in Ids |-> None]
    /\ id = [h \in Handles |-> None]
    /\ state = [h \in Handles |-> "Running"]
    /\ accepting = [h \in Handles |-> FALSE]
    /\ generation = [h \in Handles |-> "none"]
    /\ busy = {} /\ orphans = {}
    /\ lock = [h \in Handles |-> None]
    /\ known = {}
    /\ pc = [c \in Calls |-> "idle"]
    /\ on = [c \in Calls |-> None]
    /\ of = [c \in Calls |-> None]
    /\ want = [c \in Calls |-> "Running"]
    /\ torn = [h \in Handles |-> {}]
    /\ losses = 0

CallStep(c) ==
    \/ Realize(c) \/ WriteRecord(c) \/ Check(c) \/ Lock(c) \/ Admit(c)
    \/ RemoveWorkspace(c) \/ Persist(c) \/ Rollback(c) \/ Evict(c)
    \/ \E h \in Handles : CacheNew(c, h)

Next ==
    \/ \E c \in Calls, i \in Ids : CreateLookup(c, i) \/ Attach(c, i) \/ DeleteById(c, i)
    \/ \E c \in Calls, h \in Handles, target \in States : Begin(c, h, target)
    \/ \E c \in Calls : CallStep(c)
    \/ \E h \in Handles : Exec(h) \/ WorkEnds(h) \/ Release(h) \/ Free(h)
    \/ \E i \in Ids : OrphansEnd(i)
    \/ Crash

Spec == Init /\ [][Next]_vars

\* Callers that may drop a call's future as well.
NextOrDrop == Next \/ \E c \in Calls : DropCall(c)

DropSpec == Init /\ [][NextOrDrop]_vars

-----------------------------------------------------------------------------
(* Properties.                                                              *)

AtRest(h) == h \in known /\ lock[h] = None

\* "... a sandbox that still reports Running admits work and one that reports
\* Stopped refuses it": the second half.  Whatever failed and whatever was
\* rolled back, a handle nobody is changing that reports Stopped or Deleted
\* admits no command.
StoppedRefusesWork ==
    \A h \in Handles : AtRest(h) /\ state[h] # "Running" => ~ accepting[h]

\* "Managed workspaces are deleted only after work stops", for the handle that
\* deletes: from its drain until its tombstone is written none of its commands
\* runs and none is admitted, however execs and other calls interleave.
OwnWorkEndsFirst ==
    \A c \in Calls : pc[c] \in {"work", "persist"} /\ want[c] # "Running" =>
        on[c] \notin busy /\ ~ accepting[on[c]]

\* A handle that reported Deleted never reports anything else.
DeletedIsFinal ==
    [][\A h \in known \cap known' : state[h] = "Deleted" => state'[h] = "Deleted"]_vars

\* "... so attached handles for one sandbox share one live state": two usable
\* handles of one id are one handle.
OneLiveState ==
    \A h, k \in known : id[h] = id[k] /\ state[h] # "Deleted" /\ state[k] # "Deleted" => h = k

\* "the registry record on disk is its durable copy": the record of a handle
\* nobody is changing holds its live state, or the state of a write that was not
\* seen to succeed: one that failed, possibly after its rename, or that was cut
\* off.  Those are the only states a crash can bring back, and the next transition
\* that completes leaves the live state alone on disk.  It is about managed
\* sandboxes: two handles of one directory write one record (OneLiveState).
RecordIsLiveState ==
    \A h \in Handles : AtRest(h) /\ id[h] \in Managed =>
        record[id[h]] \in {state[h]} \cup torn[h]
=============================================================================
