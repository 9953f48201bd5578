------------------------------ MODULE HostFence ------------------------------
(***************************************************************************)
(* Process ownership of the host provider (sandbox-driver-host, fence/     *)
(* sentinel.rs): how one durable sandbox starts commands, fences them, and *)
(* recovers the commands of an owner that died.                            *)
(*                                                                         *)
(* Three kinds of actor interleave:                                        *)
(*   - the owner, a provider process holding one ProcessGroups; its drain  *)
(*     is a sequence of awaits under the state mutex and may fail or be    *)
(*     dropped at any of them, and the process may die at any step;        *)
(*   - one sentinel per command, the shell script that leads the command's *)
(*     process group;                                                      *)
(*   - the operating system, which reuses a process id as soon as no       *)
(*     process and no group has it.                                        *)
(*                                                                         *)
(* The premise of kill_owned_groups is modelled as it states it: a fork    *)
(* may publish a child after a group signal ("hidden"), one process-table  *)
(* snapshot may miss that child, and it is visible from then on ("late").  *)
(* SIGKILL is otherwise instantaneous; a process slow to die is a drain    *)
(* that runs into its deadline.                                            *)
(***************************************************************************)
EXTENDS Naturals, FiniteSets

CONSTANTS
    Pids,       \* process ids; a process-group id is its leader's process id
    MaxGroups,  \* bound: commands ever spawned
    MaxGens,    \* bound: process generations ever created
    MaxLosses,  \* bound: owner crashes and reloads
    Faults      \* environment behaviours that are switched on

AllFaults == {"escaping_fork", "late_sentinel", "hostile_work"}

ASSUME BoundsAssumption == /\ MaxGroups \in Nat
                           /\ MaxGens \in Nat
                           /\ MaxLosses \in Nat
ASSUME FaultsAssumption == Faults \subseteq AllFaults
ASSUME PidsAssumption == IsFiniteSet(Pids) /\ 0 \notin Pids

Groups == 1 .. MaxGroups
Gens == 1 .. MaxGens
None == 0       \* no process id, no generation

VARIABLES
    \* The operating system.
    sent,       \* where each sentinel's script is
    work,       \* the other members of each group: the command and its descendants
    pgid,       \* the id of each group
    boss,       \* the owner's process id each sentinel was given ($4)
    foreign,    \* ids in use by processes that are none of ours
    \* The generation directories under the sandbox's groups/ root.
    gen,        \* the generation each group was spawned in
    dirs,       \* the generations whose directory exists
    marker,     \* the generations whose `fenced` file exists
    record,     \* the groups whose N.group record exists
    \* The owner process and its ProcessGroups.
    owner,      \* its process id, None when it is dead
    accepting,  \* GroupState::accepting_work
    current,    \* GroupState::generation
    pin,        \* PinnedGroup::pin; "none": not a group of this ProcessGroups
    \* The drain in progress.
    pc, op,     \* the step it is at, and the operation that drains
    todo, found,  \* generations to fence, and fenced ones to remove
    at,         \* the generation or the group the step is on
    ids,        \* process-group ids still to be seen gone
    empty,      \* was_empty: the last look showed nothing live
    \* History for the bounds.
    losses

osVars == <<sent, work, pgid, boss, foreign>>
fsVars == <<gen, dirs, marker, record>>
ownVars == <<owner, accepting, current, pin>>
drainVars == <<pc, op, todo, found, at, ids, empty>>
vars == <<osVars, fsVars, ownVars, drainVars, losses>>

SentStates == {"unused", "spawned", "published", "checked", "forked", "active",
               "idle", "zombie", "gone"}
WorkStates == {"none", "live", "hidden", "late"}
PinStates == {"none", "held", "reaping", "reaped"}
PcStates == {"idle", "mark", "read", "kill", "look", "reap", "reaping",
             "await", "remove", "stopped"}

TypeOK ==
    /\ sent \in [Groups -> SentStates]
    /\ work \in [Groups -> WorkStates]
    /\ pgid \in [Groups -> Pids \cup {None}]
    /\ boss \in [Groups -> Pids \cup {None}]
    /\ foreign \in SUBSET Pids
    /\ gen \in [Groups -> Gens \cup {None}]
    /\ dirs \in SUBSET Gens
    /\ marker \in SUBSET Gens
    /\ record \in SUBSET Groups
    /\ owner \in Pids \cup {None}
    /\ accepting \in BOOLEAN
    /\ current \in Gens \cup {None}
    /\ pin \in [Groups -> PinStates]
    /\ pc \in PcStates
    /\ op \in {"start", "stop"}
    /\ todo \in SUBSET Gens
    /\ found \in SUBSET Gens
    /\ at \in Gens \cup Groups \cup {None}
    /\ ids \in SUBSET (Pids \cup {None})
    /\ empty \in BOOLEAN
    /\ losses \in 0 .. MaxLosses

-----------------------------------------------------------------------------
(* Processes, groups and ids.                                              *)

Alive(g) == sent[g] \in {"spawned", "published", "checked", "forked", "active", "idle"}

\* A member a process-table snapshot shows: zombies are not live, and a fork
\* in flight is missed.
Visible(g) == Alive(g) \/ work[g] \in {"live", "late"}

\* Whether anything of the group can still run.
Live(g) == Alive(g) \/ work[g] # "none"

\* An id is taken while its sentinel is unreaped or its group has a member.
Occupies(g) == sent[g] \notin {"unused", "gone"} \/ work[g] # "none"

HasProcess(p) == \/ p \in foreign
                 \/ p = owner
                 \/ \E g \in Groups : pgid[g] = p /\ sent[g] \notin {"unused", "gone"}

InUse(p) == \/ p \in foreign
            \/ p = owner
            \/ \E g \in Groups : pgid[g] = p /\ Occupies(g)

\* observation::live_groups for one id: it cannot tell whose group it is.
IdIsLive(p) == \/ p \in foreign
               \/ p = owner
               \/ \E g \in Groups : pgid[g] = p /\ Visible(g)

\* A dead sentinel stays a zombie while its parent holds it unreaped;
\* without that parent, init or tokio's orphan queue reaps it.
Dead(g) == IF pin[g] \in {"held", "reaping"} THEN "zombie" ELSE "gone"

Forking(g) == work[g] = "live" \/ sent[g] \in {"checked", "forked"}

\* SIGKILL to the group: every member dies, but a fork in flight in a group
\* of `escapes` publishes its child after the signal.
KilledWork(g, escapes) ==
    CASE work[g] = "hidden" -> "hidden"
      [] Forking(g) /\ g \in escapes -> "hidden"
      [] OTHER -> "none"
KilledSent(g) == IF Alive(g) THEN Dead(g) ELSE sent[g]

Escapes(gs) == IF "escaping_fork" \in Faults
               THEN SUBSET {g \in gs : Forking(g)} ELSE {{}}

Kill(gs) ==
    \E escapes \in Escapes(gs) :
        /\ work' = [g \in Groups |-> IF g \in gs THEN KilledWork(g, escapes) ELSE work[g]]
        /\ sent' = [g \in Groups |-> IF g \in gs THEN KilledSent(g) ELSE sent[g]]

Mine == {g \in Groups : current # None /\ gen[g] = current /\ pin[g] # "none"}
Held == {g \in Mine : pin[g] = "held"}

-----------------------------------------------------------------------------
(* The sentinel script.  Every step checks the file system or the process   *)
(* table as it is then.                                                     *)

\* The record is written before the marker is looked at.  It fails when the
\* directory is gone (exit 125).
Publish(g) ==
    /\ sent[g] = "spawned"
    /\ IF gen[g] \in dirs
       THEN /\ sent' = [sent EXCEPT ![g] = "published"]
            /\ record' = record \cup {g}
       ELSE /\ sent' = [sent EXCEPT ![g] = Dead(g)]
            /\ UNCHANGED record
    /\ UNCHANGED <<work, pgid, boss, foreign, gen, dirs, marker, ownVars, drainVars, losses>>

CheckFence(g) ==
    /\ sent[g] = "published"
    /\ sent' = [sent EXCEPT ![g] = IF gen[g] \in marker THEN Dead(g) ELSE "checked"]
    /\ UNCHANGED <<work, pgid, boss, foreign, fsVars, ownVars, drainVars, losses>>

\* The command is forked; nothing watches it yet, and a TERM to the group
\* still kills the sentinel.
StartWork(g) ==
    /\ sent[g] = "checked"
    /\ sent' = [sent EXCEPT ![g] = "forked"]
    /\ work' = [work EXCEPT ![g] = "live"]
    /\ UNCHANGED <<pgid, boss, foreign, fsVars, ownVars, drainVars, losses>>

\* The sentinel ignores TERM from now on and forks its watcher.  The two lines
\* are one step: from the first of them on no signal but KILL reaches the
\* sentinel, and the watcher looks at the fence and the owner as they are when
\* it comes to run.
SetTrap(g) ==
    /\ sent[g] = "forked"
    /\ sent' = [sent EXCEPT ![g] = "active"]
    /\ UNCHANGED <<work, pgid, boss, foreign, fsVars, ownVars, drainVars, losses>>

\* The command exits; what it left behind in its group lives on.  The status
\* file only reaches the exec that waits for it.
WorkExits(g) ==
    /\ sent[g] = "active"
    /\ sent' = [sent EXCEPT ![g] = "idle"]
    /\ work' \in {work, [work EXCEPT ![g] = "none"]}
    /\ UNCHANGED <<pgid, boss, foreign, fsVars, ownVars, drainVars, losses>>

\* Mutated form of Watch: the watcher forgets to look at its owner.
WatchFenceOnly(g) ==
    /\ sent[g] \in {"active", "idle"}
    /\ gen[g] \in marker
    /\ Kill({g})
    /\ UNCHANGED <<pgid, boss, foreign, fsVars, ownVars, drainVars, losses>>

\* The watcher beside the command and the idle loop after it: the group
\* kills itself when the marker appears or its owner's id is free.
Watch(g) ==
    /\ sent[g] \in {"active", "idle"}
    /\ gen[g] \in marker \/ ~ HasProcess(boss[g])
    /\ Kill({g})
    /\ UNCHANGED <<pgid, boss, foreign, fsVars, ownVars, drainVars, losses>>

Sentinel(g) == Publish(g) \/ CheckFence(g) \/ StartWork(g) \/ SetTrap(g) \/ Watch(g)

-----------------------------------------------------------------------------
(* The operating system.                                                    *)

\* Descendants exit by themselves, and a fork that escaped a signal appears.
MemberStep(g) ==
    /\ \/ work[g] \in {"live", "late"} /\ sent[g] # "active" /\ work' = [work EXCEPT ![g] = "none"]
       \/ work[g] = "hidden" /\ work' = [work EXCEPT ![g] = "late"]
    /\ UNCHANGED <<sent, pgid, boss, foreign, fsVars, ownVars, drainVars, losses>>

\* A command that kills the sentinel and the watcher of its own group.
KillSentinel(g) ==
    /\ "hostile_work" \in Faults
    /\ sent[g] \in {"forked", "active", "idle"} /\ work[g] = "live"
    /\ sent' = [sent EXCEPT ![g] = Dead(g)]
    /\ UNCHANGED <<work, pgid, boss, foreign, fsVars, ownVars, drainVars, losses>>

\* Unrelated processes take and release any free id.
Foreign(p) ==
    /\ \/ ~ InUse(p) /\ foreign' = foreign \cup {p}
       \/ p \in foreign /\ foreign' = foreign \ {p}
    /\ UNCHANGED <<sent, work, pgid, boss, fsVars, ownVars, drainVars, losses>>

\* Tokio reaps a child handle that was dropped unreaped.
OrphanReap(g) ==
    /\ sent[g] = "zombie" /\ pin[g] = "reaping" /\ ~ (pc = "reaping" /\ at = g)
    /\ sent' = [sent EXCEPT ![g] = "gone"]
    /\ UNCHANGED <<work, pgid, boss, foreign, fsVars, ownVars, drainVars, losses>>

-----------------------------------------------------------------------------
(* The owner.  The state mutex is free exactly when no drain is running.    *)

Unlocked == owner # None /\ pc \in {"idle", "stopped"}

\* The locals of a drain end with it.
EndDrain(end) == /\ pc' = end
                 /\ todo' = {} /\ found' = {} /\ ids' = {} /\ empty' = FALSE /\ at' = None
                 /\ UNCHANGED op

Usable(d) ==
    IF current # None THEN d = current
                      ELSE d \notin dirs /\ \A x \in Groups : gen[x] # d

\* ProcessGroups::spawn, the generation created on first use.
Spawn(g, p, d) ==
    /\ Unlocked /\ accepting
    /\ sent[g] = "unused" /\ \A h \in Groups : h < g => sent[h] # "unused"
    /\ ~ InUse(p)
    /\ Usable(d)
    /\ current' = d
    /\ dirs' = dirs \cup {d}
    /\ gen' = [gen EXCEPT ![g] = d]
    /\ sent' = [sent EXCEPT ![g] = "spawned"]
    /\ pgid' = [pgid EXCEPT ![g] = p]
    /\ boss' = [boss EXCEPT ![g] = owner]
    /\ pin' = [pin EXCEPT ![g] = "held"]
    /\ UNCHANGED <<work, foreign, marker, record, owner, accepting, drainVars, losses>>

\* A spawn whose sentinel fails to start leaves a generation without groups.
SpawnFails(d) ==
    /\ Unlocked /\ accepting
    /\ current = None /\ Usable(d)
    /\ current' = d
    /\ dirs' = dirs \cup {d}
    /\ UNCHANGED <<osVars, gen, marker, record, owner, accepting, pin, drainVars, losses>>

\* HostChild::kill, or a kill ending a terminate: it runs beside everything
\* else and needs only the pin.
HandleKill(g) ==
    /\ owner # None /\ pin[g] = "held"
    /\ Kill({g})
    /\ UNCHANGED <<pgid, boss, foreign, fsVars, ownVars, drainVars, losses>>

\* HostChild::term: a sentinel that has not yet set its trap dies of it, and a
\* command already forked then ends or goes on without one; after the trap only
\* the command's own reaction matters (WorkExits).
HandleTerm(g) ==
    /\ owner # None /\ pin[g] = "held"
    /\ sent[g] \in {"spawned", "published", "checked", "forked"}
    /\ sent' = [sent EXCEPT ![g] = Dead(g)]
    /\ work' \in {work, [work EXCEPT ![g] = IF @ = "live" THEN "none" ELSE @]}
    /\ UNCHANGED <<pgid, boss, foreign, fsVars, ownVars, drainVars, losses>>

\* Stop closes admission before it drains; start drains only when admission
\* is closed and opens it after.
BeginDrain(o) ==
    /\ Unlocked
    /\ o = "start" => ~ accepting
    /\ accepting' = FALSE
    /\ op' = o
    /\ pc' = "mark"
    /\ todo' = dirs
    /\ found' = {}
    /\ ids' = {}
    /\ empty' = FALSE
    /\ UNCHANGED <<osVars, fsVars, owner, current, pin, at, losses>>

\* fence_saved_generations, one directory at a time: the marker is written,
\* then the records present by then are read.
Mark(d) ==
    /\ pc = "mark" /\ d \in todo
    /\ marker' = marker \cup {d}
    /\ found' = found \cup {d}
    /\ todo' = todo \ {d}
    /\ at' = d
    /\ pc' = "read"
    /\ UNCHANGED <<osVars, gen, dirs, record, ownVars, op, ids, empty, losses>>

Read ==
    /\ pc = "read"
    /\ ids' = ids \cup {pgid[g] : g \in {x \in record : gen[x] = at}}
    /\ pc' = "mark"
    /\ UNCHANGED <<osVars, fsVars, ownVars, op, todo, found, at, empty, losses>>

\* With every directory fenced, an own generation's ids join the saved ones.
Fenced ==
    /\ pc = "mark" /\ todo = {}
    /\ ids' = ids \cup {pgid[g] : g \in Mine}
    /\ pc' = IF current # None THEN "kill" ELSE "await"
    /\ UNCHANGED <<osVars, fsVars, ownVars, op, todo, found, at, empty, losses>>

\* kill_owned_groups: signal every held group, look at the process table,
\* until two looks in a row show nothing live.
KillOwned ==
    /\ pc = "kill"
    /\ Kill(Held)
    /\ pc' = "look"
    /\ UNCHANGED <<pgid, boss, foreign, fsVars, ownVars, op, todo, found, ids, at, empty, losses>>

\* Mutated form of Look: one empty look is enough.
LookOnce ==
    /\ pc = "look"
    /\ LET live == \E g \in Held : Visible(g) IN
        /\ pc' = IF live THEN "kill" ELSE "reap"
        /\ empty' = ~ live
    /\ work' = [g \in Groups |-> IF work[g] = "hidden" THEN "late" ELSE work[g]]
    /\ UNCHANGED <<sent, pgid, boss, foreign, fsVars, ownVars, op, todo, found, ids, at, losses>>

\* A fork this look missed is visible to the next.
Look ==
    /\ pc = "look"
    /\ LET live == \E g \in Held : Visible(g) IN
        /\ pc' = IF ~ live /\ empty THEN "reap" ELSE "kill"
        /\ empty' = ~ live
    /\ work' = [g \in Groups |-> IF work[g] = "hidden" THEN "late" ELSE work[g]]
    /\ UNCHANGED <<sent, pgid, boss, foreign, fsVars, ownVars, op, todo, found, ids, at, losses>>

\* kill_and_reap_owned: the pin leaves "held" before the child is waited on.
TakeForReap(g) ==
    /\ pc = "reap" /\ g \in Held
    /\ pin' = [pin EXCEPT ![g] = "reaping"]
    /\ at' = g
    /\ pc' = "reaping"
    /\ UNCHANGED <<osVars, fsVars, owner, accepting, current, op, todo, found, ids, empty, losses>>

\* Mutated form of Reap: the pin is put back although the child was reaped.
ReapAndRestore ==
    /\ pc = "reaping" /\ sent[at] = "zombie"
    /\ sent' = [sent EXCEPT ![at] = "gone"]
    /\ pin' = [pin EXCEPT ![at] = "held"]
    /\ pc' = "await"
    /\ UNCHANGED <<work, pgid, boss, foreign, fsVars, owner, accepting, current,
                   op, todo, found, ids, at, empty, losses>>

Reap ==
    /\ pc = "reaping" /\ sent[at] = "zombie"
    /\ sent' = [sent EXCEPT ![at] = "gone"]
    /\ pin' = [pin EXCEPT ![at] = "reaped"]
    /\ pc' = "reap"
    /\ UNCHANGED <<work, pgid, boss, foreign, fsVars, owner, accepting, current,
                   op, todo, found, ids, at, empty, losses>>

AllReaped ==
    /\ pc = "reap" /\ Held = {}
    /\ pc' = "await"
    /\ UNCHANGED <<osVars, fsVars, ownVars, op, todo, found, ids, at, empty, losses>>

\* Mutated form of AwaitGone: saved ids are not waited for.
AwaitNothing ==
    /\ pc = "await"
    /\ ids' = {}
    /\ pc' = "remove"
    /\ UNCHANGED <<osVars, fsVars, ownVars, op, todo, found, at, empty, losses>>

\* await_groups_gone only looks: an id seen without live members is dropped.
AwaitGone ==
    /\ pc = "await"
    /\ ids' = {p \in ids : IdIsLive(p)}
    /\ pc' = IF ids' = {} THEN "remove" ELSE "await"
    /\ UNCHANGED <<osVars, fsVars, ownVars, op, todo, found, at, empty, losses>>

\* remove_generation_dirs: remove_dir_all unlinks the entries in directory
\* order, then removes the directory.
Unlink(d) ==
    /\ pc = "remove" /\ d \in found
    /\ \/ marker' = marker \ {d} /\ UNCHANGED record
       \/ record' = {g \in record : gen[g] # d} /\ UNCHANGED marker
    /\ UNCHANGED <<osVars, gen, dirs, ownVars, drainVars, losses>>

Rmdir(d) ==
    /\ pc = "remove" /\ d \in found
    /\ d \notin marker /\ \A g \in record : gen[g] # d
    /\ dirs' = dirs \ {d}
    /\ found' = found \ {d}
    /\ UNCHANGED <<osVars, gen, marker, record, ownVars, pc, op, todo, ids, at, empty, losses>>

\* Mutated form of Drained: the next generation is numbered, not forgotten.
DrainedAndNumbered ==
    /\ pc = "remove" /\ found = {}
    /\ current' = current + 1
    /\ accepting' = (op = "start")
    /\ EndDrain(IF op = "start" THEN "idle" ELSE "stopped")
    /\ UNCHANGED <<osVars, fsVars, owner, pin, losses>>

\* The drain succeeds and forgets the generation.
Drained ==
    /\ pc = "remove" /\ found = {}
    /\ current' = None
    /\ accepting' = (op = "start")
    /\ EndDrain(IF op = "start" THEN "idle" ELSE "stopped")
    /\ UNCHANGED <<osVars, fsVars, owner, pin, losses>>

\* An I/O error, the deadline, or the caller dropping the future: the
\* generation stays for a retry.  An error while reaping puts the child back;
\* a dropped future leaves it to tokio.
DrainFails ==
    /\ owner # None /\ ~ Unlocked
    /\ pin' \in {pin, IF pc = "reaping" THEN [pin EXCEPT ![at] = "held"] ELSE pin}
    /\ EndDrain("idle")
    /\ UNCHANGED <<osVars, fsVars, owner, accepting, current, losses>>

-----------------------------------------------------------------------------
(* Losing the owner.                                                        *)

\* The sentinels an owner lets go of; "late_sentinel" switches off the
\* assumption that each has got past its fence check by then.
MayLose == "late_sentinel" \in Faults \/ \A g \in Groups : sent[g] \notin {"spawned", "published"}

LetGo == /\ MayLose
         /\ losses < MaxLosses
         /\ losses' = losses + 1
         /\ sent' = [g \in Groups |-> IF sent[g] = "zombie" THEN "gone" ELSE sent[g]]
         /\ pin' = [g \in Groups |-> "none"]
         /\ current' = None
         /\ EndDrain("idle")
         /\ UNCHANGED <<work, pgid, boss, foreign, fsVars>>

\* The owner process dies, at any step.
Crash ==
    /\ owner # None
    /\ owner' = None
    /\ accepting' = FALSE
    /\ LetGo

\* A durable provider is dropped and its registry opened again by the same
\* process; admission follows the state the record holds.
Reload ==
    /\ Unlocked
    /\ accepting' \in BOOLEAN
    /\ LetGo
    /\ UNCHANGED owner

\* Another process opens the registry and loads the sandbox.
Restart(p) ==
    /\ owner = None /\ ~ InUse(p)
    /\ owner' = p
    /\ accepting' \in BOOLEAN
    /\ UNCHANGED <<osVars, fsVars, current, pin, drainVars, losses>>

-----------------------------------------------------------------------------
Init ==
    /\ sent = [g \in Groups |-> "unused"]
    /\ work = [g \in Groups |-> "none"]
    /\ pgid = [g \in Groups |-> None]
    /\ boss = [g \in Groups |-> None]
    /\ foreign = {}
    /\ gen = [g \in Groups |-> None]
    /\ dirs = {} /\ marker = {} /\ record = {}
    /\ owner \in Pids
    /\ accepting = TRUE
    /\ current = None
    /\ pin = [g \in Groups |-> "none"]
    /\ pc = "idle" /\ op = "stop" /\ at = None
    /\ todo = {} /\ found = {} /\ ids = {} /\ empty = FALSE
    /\ losses = 0

GroupStep(g) ==
    \/ Sentinel(g) \/ WorkExits(g) \/ MemberStep(g) \/ KillSentinel(g) \/ OrphanReap(g)
    \/ HandleKill(g) \/ HandleTerm(g) \/ TakeForReap(g)

DrainStep ==
    \/ \E d \in Gens : Mark(d) \/ Unlink(d) \/ Rmdir(d)
    \/ Read \/ Fenced \/ KillOwned \/ Look \/ Reap \/ AllReaped \/ AwaitGone \/ Drained

Next ==
    \/ \E g \in Groups : GroupStep(g)
    \/ \E p \in Pids : Foreign(p) \/ Restart(p)
    \/ \E g \in Groups, p \in Pids, d \in Gens : Spawn(g, p, d)
    \/ \E d \in Gens : SpawnFails(d)
    \/ \E o \in {"start", "stop"} : BeginDrain(o)
    \/ DrainStep
    \/ DrainFails
    \/ Crash
    \/ Reload

Spec == Init /\ [][Next]_vars

\* A sentinel is an operating-system process: it keeps running.
Fairness == \A g \in Groups : WF_vars(Sentinel(g))

FairSpec == Spec /\ Fairness

-----------------------------------------------------------------------------
(* What the fence promises.                                                 *)

\* A group signal is sent exactly while the pin is "held" (PinnedGroup::signal).
\* Then the id is still the group's own: no other group, no unrelated process
\* and not the owner itself has it, so no signal ever reaches a recycled id.
SignalsReachOwnGroup ==
    \A g \in Groups : pin[g] = "held" =>
        /\ sent[g] \notin {"unused", "gone"}
        /\ pgid[g] \notin foreign \cup {owner}
        /\ \A h \in Groups \ {g} : pgid[h] = pgid[g] => ~ Occupies(h)

\* Whatever a failed, abandoned or repeated drain did, work this owner spawned
\* and that can still run is work it can still signal and will drain: its pin
\* is held and its generation is the current one.  After a successful stop
\* (no generation) nothing this owner spawned is left, forks that escaped a
\* kill included.
LiveWorkIsHeld ==
    \A g \in Groups : pin[g] # "none" /\ Live(g) => pin[g] = "held" /\ gen[g] = current

\* ProcessGroups::stop ends all work of the sandbox, the work of earlier
\* owners included, and none of it starts or reappears afterwards.
StopEndsAllWork ==
    pc = "stopped" => \A g \in Groups : work[g] = "none"

\* "Its in-group watcher ends active work when the owning provider dies": a
\* group whose sentinel got as far as its trap ends for good once the owner's
\* process id stays free, whichever fork, crash, reload, drain or restart came in
\* between.  The sentinel's step from the fork of the command to the trap is
\* left out on purpose: a TERM in that gap kills the sentinel alone, and a
\* command that survives it is then watched by nobody.
OrphansEnd ==
    \A g \in Groups :
        /\ <>(sent[g] \in {"active", "idle"})
        /\ <>[](boss[g] # None /\ ~ HasProcess(boss[g]))
        => <>[](~ Live(g))

-----------------------------------------------------------------------------
(* The inductive strengthening of the two invariants about this owner.      *)

\* Ids in use are distinct.
IdsDistinct ==
    /\ owner \notin foreign
    /\ \A g \in Groups : Occupies(g) => pgid[g] # None /\ pgid[g] \notin foreign \cup {owner}
    /\ \A g, h \in Groups : g # h /\ Occupies(g) /\ Occupies(h) => pgid[g] # pgid[h]

\* A held child is unreaped and belongs to the current generation.
HeldIsCurrent ==
    \A g \in Groups : pin[g] = "held" =>
        sent[g] \notin {"unused", "gone"} /\ current # None /\ gen[g] = current

\* What each step of a drain may rely on.
DrainKnows ==
    /\ pc \in {"mark", "read"} => ~ empty
    /\ pc = "look" => \A g \in Groups : pin[g] = "held" => ~ Alive(g) /\ work[g] # "live"
    /\ pc = "kill" /\ empty =>
        \A g \in Groups : pin[g] = "held" => ~ Alive(g) /\ work[g] \in {"none", "late"}
    /\ pc = "look" /\ empty => \A g \in Groups : pin[g] = "held" => ~ Live(g)
    /\ pc \in {"reap", "reaping"} => \A g \in Groups : pin[g] = "held" => ~ Live(g)
    /\ pc = "reaping" =>
        /\ at \in Groups /\ pin[at] = "reaping" /\ ~ Live(at)
        /\ sent[at] \notin {"unused", "gone"}
        /\ current # None /\ gen[at] = current
    /\ pc \in {"await", "remove"} => \A g \in Groups : pin[g] # "held"

IInv == TypeOK /\ IdsDistinct /\ HeldIsCurrent /\ LiveWorkIsHeld /\ DrainKnows
=============================================================================
