------------------------------- MODULE Catalog -------------------------------
(***************************************************************************)
(* The catalog of configured providers (sandbox-driver/src/contract):      *)
(* each entry's runtime is started by the first operation that needs it,   *)
(* under the entry's lock, and every operation asks the runtime who it is  *)
(* before it acts.  Operations of several tasks, dropped at any await, run *)
(* against a shutdown that closes the catalog and stops every runtime.     *)
(*                                                                         *)
(* What an environment asks of a provider is a record of the few fields    *)
(* admission looks at.  The factory and the runtime behind it are outside. *)
(***************************************************************************)
EXTENDS Naturals, FiniteSets

CONSTANTS
    Entries,        \* the configured provider entries
    Faulty,         \* entries whose configuration cannot be used
    Tasks,          \* the operations
    Closers,        \* the tasks that call shutdown
    MaxRuntimes,    \* bound: runtimes started in all
    MaxRefusals     \* bound: answers a factory or runtime gets wrong

ASSUME CatalogAssumption == Faulty \subseteq Entries /\ MaxRuntimes \in Nat

VARIABLES
    closed,         \* Catalog.closed
    entryLock,           \* who holds the lock of an entry's active runtime
    active,         \* the installed runtime of an entry, 0 when none
    runtimes,       \* every runtime a factory started: its entry, state and namespace
    catOp,             \* where a task is, what it asks and what it holds
    shut,           \* where each shutdown caller is
    sweeper,          \* the caller that runs the shutdown, shared by the others
    catSwept,          \* what that run learned of each entry
    result,         \* shutdown_result
    refusals

catVars == <<closed, entryLock, active, runtimes, catOp, shut, sweeper, catSwept, result, refusals>>

NoHolder == "free"

ASSUME NobodyAssumption == NoHolder \notin Tasks /\ "none" \notin Closers

NoOp == [at |-> "idle", kind |-> "none", entry |-> "none", spec |-> 0,
         rt |-> 0, out |-> "none"]

\* The specs an environment or a caller of the builder may hold.
Specs ==
    <<[source |-> "image", named |-> TRUE, owned |-> "none", dir |-> TRUE,
       gpus |-> 0, network |-> "provider_default", allow |-> 0, ready |-> "good"],
      [source |-> "image", named |-> TRUE, owned |-> "none", dir |-> TRUE,
       gpus |-> 1, network |-> "block", allow |-> 0, ready |-> "good"],
      [source |-> "host_directory", named |-> TRUE, owned |-> "designated", dir |-> FALSE,
       gpus |-> 0, network |-> "provider_default", allow |-> 0, ready |-> "good"],
      [source |-> "image", named |-> TRUE, owned |-> "none", dir |-> TRUE,
       gpus |-> 0, network |-> "cidr_allow_list", allow |-> 0, ready |-> "good"]>>

\* A readiness check fits its own deadline.
ReadyCheckValid(ready) == ready = "good"

\* SandboxSpec::validate, before any runtime is involved.
SpecValid(spec) ==
    /\ spec.source # "empty" /\ spec.named
    /\ spec.owned # "none" => spec.source = "host_directory"
    /\ spec.owned = "designated" => spec.dir
    /\ spec.network = "cidr_allow_list" => spec.allow > 0
    /\ ReadyCheckValid(spec.ready)

\* What a spec asks of the provider; no GPUs and the default network ask nothing.
Requested(spec) ==
    {spec.source}
    \cup (IF spec.gpus > 0 THEN {"gpus"} ELSE {})
    \cup (IF spec.network # "provider_default" THEN {spec.network} ELSE {})

\* What runtimes advertise, from one describe to the next.
Offers == {{"image", "host_directory"}, {"image", "gpus", "block"}}
----------------------------------------------------------------------------
RuntimeUp(r) == runtimes[r].state = "up"

CatInit ==
    /\ closed = FALSE
    /\ entryLock = [e \in Entries |-> NoHolder] /\ active = [e \in Entries |-> 0]
    /\ runtimes = [r \in {} |-> 0]
    /\ catOp = [t \in Tasks |-> NoOp]
    /\ shut = [s \in Closers |-> "idle"]
    /\ sweeper = "none" /\ catSwept = [e \in Entries |-> "no"] /\ result = "none"
    /\ refusals = 0

OpGoes(t, at) == catOp' = [catOp EXCEPT ![t].at = at]
OpReturns(t, out) == catOp' = [catOp EXCEPT ![t].at = "done", ![t].out = out]
Refused == refusals < MaxRefusals /\ refusals' = refusals + 1
Releases(e) == entryLock' = [entryLock EXCEPT ![e] = NoHolder]

(***************************************************************************)
(* A task calls the catalog.  create validates its spec at once; the rest  *)
(* go straight to the entry's runtime.                                     *)
(***************************************************************************)
OpCalled(t) ==
    /\ catOp[t].at = "idle"
    /\ \E e \in Entries, kind \in {"create", "attach", "list", "health"},
          s \in DOMAIN Specs :
          /\ kind # "create" => s = 1
          /\ catOp' = [catOp EXCEPT ![t] =
                       IF kind = "create" /\ ~SpecValid(Specs[s])
                       THEN [NoOp EXCEPT !.at = "done", !.out = "invalid_spec"]
                       ELSE [NoOp EXCEPT !.at = "opening", !.kind = kind,
                                         !.entry = e, !.spec = s]]
    /\ UNCHANGED <<closed, entryLock, active, runtimes, shut, sweeper, catSwept, result, refusals>>

ensure_open == ~closed

ActiveChecksOpen(t) ==
    /\ catOp[t].at = "opening"
    /\ IF ensure_open THEN OpGoes(t, "locking") ELSE OpReturns(t, "stale")
    /\ UNCHANGED <<closed, entryLock, active, runtimes, shut, sweeper, catSwept, result, refusals>>

\* Mutant: whoever gets the lock starts a runtime.
ActiveLocksAndStarts(t) ==
    LET e == catOp[t].entry
    IN  /\ catOp[t].at = "locking" /\ entryLock[e] = NoHolder
        /\ IF e \in Faulty THEN OpReturns(t, "invalid_config") /\ UNCHANGED entryLock
           ELSE OpGoes(t, "discovering") /\ entryLock' = [entryLock EXCEPT ![e] = t]
        /\ UNCHANGED <<closed, active, runtimes, shut, sweeper, catSwept, result, refusals>>

\* The entry's lock is taken: the catalog may have closed meanwhile, and
\* another task may have started the runtime.
ActiveLocks(t) ==
    LET e == catOp[t].entry
    IN  /\ catOp[t].at = "locking" /\ entryLock[e] = NoHolder
        /\ CASE ~ensure_open -> OpReturns(t, "stale") /\ UNCHANGED entryLock
             [] ensure_open /\ active[e] # 0 ->
                    /\ catOp' = [catOp EXCEPT ![t].at = "ready", ![t].rt = active[e]]
                    /\ UNCHANGED entryLock
             [] ensure_open /\ active[e] = 0 /\ e \in Faulty ->
                    OpReturns(t, "invalid_config") /\ UNCHANGED entryLock
             [] OTHER -> OpGoes(t, "discovering") /\ entryLock' = [entryLock EXCEPT ![e] = t]
        /\ UNCHANGED <<closed, active, runtimes, shut, sweeper, catSwept, result, refusals>>

\* Discovery answers, its metadata fits the entry and every secret resolves.
Discovers(t) ==
    /\ catOp[t].at = "discovering"
    /\ \/ OpGoes(t, "activating") /\ UNCHANGED <<entryLock, refusals>>
       \/ /\ Refused /\ OpReturns(t, "invalid_config")
          /\ Releases(catOp[t].entry)
    /\ UNCHANGED <<closed, active, runtimes, shut, sweeper, catSwept, result>>

\* The factory starts a runtime.
Activates(t) ==
    LET r == Cardinality(DOMAIN runtimes) + 1
    IN  /\ catOp[t].at = "activating"
        /\ \/ /\ r <= MaxRuntimes
              /\ runtimes' = [i \in 1..r |->
                     IF i < r THEN runtimes[i]
                     ELSE [entry |-> catOp[t].entry, state |-> "up", ns |-> "home"]]
              /\ catOp' = [catOp EXCEPT ![t].at = "checking", ![t].rt = r]
              /\ UNCHANGED <<entryLock, refusals>>
           \/ /\ Refused /\ OpReturns(t, "unavailable") /\ Releases(catOp[t].entry)
              /\ UNCHANGED runtimes
        /\ UNCHANGED <<closed, active, shut, sweeper, catSwept, result>>

\* It describes itself as discovery did and is installed, or is taken down.
InstallsRuntime(t) ==
    LET e == catOp[t].entry
    IN  /\ catOp[t].at = "checking"
        /\ \/ /\ active' = [active EXCEPT ![e] = catOp[t].rt]
              /\ Releases(e) /\ OpGoes(t, "ready") /\ UNCHANGED refusals
           \/ Refused /\ OpGoes(t, "unwinding") /\ UNCHANGED <<entryLock, active>>
        /\ UNCHANGED <<closed, runtimes, shut, sweeper, catSwept, result>>

\* Its cleanup is awaited; a cleanup that fails is what the caller learns.
Unwinds(t) ==
    /\ catOp[t].at = "unwinding"
    /\ \/ /\ runtimes' = [runtimes EXCEPT ![catOp[t].rt].state = "down"]
          /\ OpReturns(t, "invalid_config") /\ UNCHANGED refusals
       \/ /\ Refused /\ runtimes' = [runtimes EXCEPT ![catOp[t].rt].state = "told"]
          /\ OpReturns(t, "cleanup_failed")
    /\ Releases(catOp[t].entry)
    /\ UNCHANGED <<closed, active, shut, sweeper, catSwept, result>>

(***************************************************************************)
(* Before it acts, an operation looks again whether the catalog is open    *)
(* and asks the runtime to describe itself: its schemas and its namespace  *)
(* must be the ones of its activation, a reference must be of that         *)
(* namespace, and what a spec asks for must be on offer.                   *)
(***************************************************************************)
Ready(t) ==
    LET r == catOp[t].rt
    IN  /\ catOp[t].at = "ready"
        /\ CASE catOp[t].kind = "health" -> OpGoes(t, "issuing")
             [] catOp[t].kind # "health" /\ ~ensure_open -> OpReturns(t, "stale")
             [] catOp[t].kind # "health" /\ ensure_open /\ ~RuntimeUp(r) ->
                    OpReturns(t, "unavailable")
             [] OTHER ->
                    IF runtimes[r].ns # "home" THEN OpReturns(t, "namespace_mismatch")
                    ELSE \E offered \in Offers :
                            IF catOp[t].kind = "create"
                               /\ ~(Requested(Specs[catOp[t].spec]) \subseteq offered)
                            THEN OpReturns(t, "unsupported")
                            ELSE OpGoes(t, "issuing")
        /\ UNCHANGED <<closed, entryLock, active, runtimes, shut, sweeper, catSwept,
                       result, refusals>>

\* The operation reaches the runtime; attach stands for destroy too.  An answer that names another sandbox,
\* provider or namespace is not passed on.
Issues(t) ==
    LET r == catOp[t].rt
    IN  /\ catOp[t].at = "issuing"
        /\ IF ~RuntimeUp(r) THEN OpReturns(t, "unavailable") /\ UNCHANGED refusals
           ELSE \/ OpReturns(t, "ok") /\ UNCHANGED refusals
                \/ Refused /\ OpReturns(t, "transport")
        /\ UNCHANGED <<closed, entryLock, active, runtimes, shut, sweeper, catSwept, result>>

\* The task's future is dropped: by its caller, or by the deadline of find.
\* A runtime it had started and not yet installed goes with it.
OpDropped(t) ==
    LET e == catOp[t].entry
    IN  /\ catOp[t].at \notin {"idle", "done"}
        /\ entryLock' = IF entryLock[e] = t THEN [entryLock EXCEPT ![e] = NoHolder] ELSE entryLock
        /\ runtimes' = IF catOp[t].at \in {"checking", "unwinding"}
                       THEN [runtimes EXCEPT ![catOp[t].rt].state = "dropped"]
                       ELSE runtimes
        /\ OpReturns(t, "dropped")
        /\ UNCHANGED <<closed, active, shut, sweeper, catSwept, result, refusals>>
----------------------------------------------------------------------------
(* shutdown: close the catalog, then stop every entry's runtime, once.     *)

ShutdownCalled(s) ==
    /\ shut[s] = "idle"
    /\ closed' = TRUE /\ shut' = [shut EXCEPT ![s] = "waiting"]
    /\ UNCHANGED <<entryLock, active, runtimes, catOp, sweeper, catSwept, result, refusals>>

\* The first caller runs it; one that waits takes over from a dropped one.
ShutdownRuns(s) ==
    /\ shut[s] = "waiting" /\ sweeper = "none" /\ result = "none"
    /\ sweeper' = s /\ catSwept' = [e \in Entries |-> "no"]
    /\ UNCHANGED <<closed, entryLock, active, runtimes, catOp, shut, result, refusals>>

\* Mutant: an entry that is being started has nothing to stop yet.
SweepsWithoutWaiting(e) ==
    /\ sweeper # "none" /\ catSwept[e] = "no"
    /\ catSwept' = [catSwept EXCEPT ![e] = "ok"]
    /\ runtimes' = IF active[e] = 0 THEN runtimes
                   ELSE [runtimes EXCEPT ![active[e]].state = "down"]
    /\ UNCHANGED <<closed, entryLock, active, catOp, shut, sweeper, result, refusals>>

\* An entry's lock is awaited: an activation under way finishes first.
Sweeps(e) ==
    /\ sweeper # "none" /\ catSwept[e] = "no" /\ entryLock[e] = NoHolder
    /\ IF active[e] = 0
       THEN catSwept' = [catSwept EXCEPT ![e] = "ok"] /\ UNCHANGED <<runtimes, refusals>>
       ELSE \/ /\ runtimes' = [runtimes EXCEPT ![active[e]].state = "down"]
               /\ catSwept' = [catSwept EXCEPT ![e] = "ok"] /\ UNCHANGED refusals
            \/ /\ Refused /\ catSwept' = [catSwept EXCEPT ![e] = "failed"]
               /\ UNCHANGED runtimes
    /\ UNCHANGED <<closed, entryLock, active, catOp, shut, sweeper, result>>

ShutdownEnds ==
    /\ sweeper # "none" /\ \A e \in Entries : catSwept[e] # "no"
    /\ result' = IF \E e \in Entries : catSwept[e] = "failed" THEN "failed" ELSE "ok"
    /\ sweeper' = "none"
    /\ UNCHANGED <<closed, entryLock, active, runtimes, catOp, shut, catSwept, refusals>>

ShutdownReturns(s) ==
    /\ shut[s] = "waiting" /\ result # "none"
    /\ shut' = [shut EXCEPT ![s] = result]
    /\ UNCHANGED <<closed, entryLock, active, runtimes, catOp, sweeper, catSwept, result, refusals>>

ShutdownDropped(s) ==
    /\ shut[s] = "waiting" /\ shut' = [shut EXCEPT ![s] = "dropped"]
    /\ sweeper' = IF sweeper = s THEN "none" ELSE sweeper
    /\ UNCHANGED <<closed, entryLock, active, runtimes, catOp, catSwept, result, refusals>>

\* The runtime's own account changes under it.
NamespaceChanges(r) ==
    /\ runtimes[r].ns = "home" /\ Refused
    /\ runtimes' = [runtimes EXCEPT ![r].ns = "elsewhere"]
    /\ UNCHANGED <<closed, entryLock, active, catOp, shut, sweeper, catSwept, result>>

CatNext ==
    \/ \E t \in Tasks : \/ OpCalled(t) \/ ActiveChecksOpen(t) \/ ActiveLocks(t)
                        \/ Discovers(t) \/ Activates(t) \/ InstallsRuntime(t) \/ Unwinds(t)
                        \/ Ready(t) \/ Issues(t) \/ OpDropped(t)
    \/ \E s \in Closers : ShutdownCalled(s) \/ ShutdownRuns(s)
                          \/ ShutdownReturns(s) \/ ShutdownDropped(s)
    \/ \E e \in Entries : Sweeps(e)
    \/ ShutdownEnds
    \/ \E r \in DOMAIN runtimes : NamespaceChanges(r)
----------------------------------------------------------------------------
CatTypeOK ==
    /\ active \in [Entries -> 0..MaxRuntimes]
    /\ entryLock \in [Entries -> Tasks \cup {NoHolder}]
    /\ result \in {"none", "ok", "failed"}
    /\ \A e \in Entries : active[e] # 0 => active[e] \in DOMAIN runtimes

(***************************************************************************)
(* No runtime is up that nobody answers for: one that runs is installed in *)
(* its entry, and is then the only one of that entry, or is in the hands   *)
(* of the task that is starting it under the entry's lock.  And when a     *)
(* shutdown has returned Ok, none is up and none will come up, however     *)
(* late the operations that raced it (catalog.rs:385-403, 424-502).  A     *)
(* runtime dropped with its task, or whose cleanup failed and was told,    *)
(* is not counted.                                                         *)
(***************************************************************************)
NoStrayRuntime ==
    /\ \A r \in DOMAIN runtimes : RuntimeUp(r) =>
          LET e == runtimes[r].entry
          IN  \/ active[e] = r
              \/ /\ active[e] = 0
                 /\ \E t \in Tasks : entryLock[e] = t /\ catOp[t].rt = r
    /\ \A s \in Closers : shut[s] = "ok" => \A r \in DOMAIN runtimes : ~RuntimeUp(r)
=============================================================================
