--------------------------- MODULE HostFenceProofs ---------------------------
(* Proofs about HostFence for any number of process ids, commands,          *)
(* generations and crashes, and with every fault switched on.  The theorem  *)
(* about a completed stop is the exception: it needs the two faults that    *)
(* refute it to be off (StopPremise).                                       *)
EXTENDS HostFence, TLAPS

\* The initial state satisfies the inductive invariant.
LEMMA InitIInv == Init => IInv
<1> SUFFICES ASSUME Init PROVE IInv
    OBVIOUS
<1> USE DEF Init
<1>1. losses \in 0 .. MaxLosses
    BY BoundsAssumption DEF BoundsAssumption
<1>2. TypeOK
    BY <1>1 DEF TypeOK, SentStates, WorkStates, PinStates, PcStates, None
<1>3. IdsDistinct
    BY DEF IdsDistinct, Occupies
<1>4. HeldIsCurrent /\ LiveWorkIsHeld /\ DrainKnows
    BY DEF HeldIsCurrent, LiveWorkIsHeld, DrainKnows
<1> QED
    BY <1>2, <1>3, <1>4 DEF IInv

\* The sentinel's own steps.
LEMMA SentinelStepIInv ==
    ASSUME IInv, NEW g \in Groups, Publish(g) \/ CheckFence(g) \/ StartWork(g) \/ SetTrap(g)
    PROVE  IInv'
<1> USE DEF IInv
<1> USE DEF Publish, CheckFence, StartWork, SetTrap, ownVars, drainVars, fsVars
<1>1. TypeOK'
    BY DEF TypeOK, SentStates, WorkStates, PinStates, Dead
<1>2. IdsDistinct'
    BY DEF TypeOK, SentStates, IdsDistinct, Occupies, Dead
<1>3. HeldIsCurrent'
    BY DEF TypeOK, SentStates, HeldIsCurrent, Dead
<1>4. LiveWorkIsHeld'
    BY DEF TypeOK, SentStates, LiveWorkIsHeld, Live, Alive, Dead
<1>5. DrainKnows'
    BY DEF TypeOK, SentStates, DrainKnows, Live, Alive, Dead
<1> QED
    BY <1>1, <1>2, <1>3, <1>4, <1>5

\* Steps of the command, of its descendants and of unrelated processes.
LEMMA ProcessStepIInv ==
    ASSUME IInv, NEW g \in Groups,
           WorkExits(g) \/ MemberStep(g) \/ KillSentinel(g) \/ OrphanReap(g) \/ HandleTerm(g)
    PROVE  IInv'
<1> USE DEF IInv
<1> USE DEF WorkExits, MemberStep, KillSentinel, OrphanReap, HandleTerm, ownVars, drainVars,
   fsVars, osVars
<1>1. TypeOK'
    BY DEF TypeOK, SentStates, WorkStates, PinStates, PcStates, Dead
<1>2. IdsDistinct'
    BY DEF TypeOK, SentStates, IdsDistinct, Occupies, Dead
<1>3. HeldIsCurrent'
    BY DEF TypeOK, SentStates, HeldIsCurrent, Dead
<1>4. LiveWorkIsHeld'
    BY DEF TypeOK, SentStates, LiveWorkIsHeld, Live, Alive, Dead
<1>5. DrainKnows'
    BY DEF TypeOK, SentStates, DrainKnows, Live, Alive, Dead
<1> QED
    BY <1>1, <1>2, <1>3, <1>4, <1>5

\* Unrelated processes only take ids that nothing uses.
LEMMA ForeignIInv ==
    ASSUME IInv, NEW p \in Pids, Foreign(p) \/ Restart(p)
    PROVE  IInv'
<1> USE DEF IInv
<1> USE DEF Foreign, Restart, InUse, ownVars, drainVars, fsVars, osVars
<1>1. TypeOK'
    BY DEF TypeOK, SentStates, WorkStates, PinStates, PcStates, Dead
<1>2. IdsDistinct'
    BY DEF TypeOK, SentStates, IdsDistinct, Occupies, Dead
<1>3. HeldIsCurrent'
    BY DEF TypeOK, SentStates, HeldIsCurrent, Dead
<1>4. LiveWorkIsHeld'
    BY DEF TypeOK, SentStates, LiveWorkIsHeld, Live, Alive, Dead
<1>5. DrainKnows'
    BY DEF TypeOK, SentStates, DrainKnows, Live, Alive, Dead
<1> QED
    BY <1>1, <1>2, <1>3, <1>4, <1>5

\* A new command gets an unused id and joins the current generation.
LEMMA SpawnIInv ==
    ASSUME IInv, NEW g \in Groups, NEW p \in Pids, NEW d \in Gens, Spawn(g, p, d)
    PROVE  IInv'
<1> USE DEF IInv
<1> USE DEF Spawn, Usable, Unlocked, InUse, None, Gens, ownVars, drainVars, fsVars, osVars
<1>0. None \notin Pids
    BY PidsAssumption DEF PidsAssumption, None
<1>1. TypeOK'
    BY DEF TypeOK, SentStates, WorkStates, PinStates, PcStates, Dead
<1>2. IdsDistinct'
    BY <1>0 DEF TypeOK, SentStates, IdsDistinct, Occupies, Dead
<1>3. HeldIsCurrent'
    BY DEF TypeOK, SentStates, HeldIsCurrent, Dead
<1>4. LiveWorkIsHeld'
    BY DEF TypeOK, SentStates, LiveWorkIsHeld, HeldIsCurrent, Live, Alive, Dead
<1>5. DrainKnows'
    BY DEF TypeOK, SentStates, DrainKnows, Live, Alive, Dead
<1> QED
    BY <1>1, <1>2, <1>3, <1>4, <1>5

\* A failed spawn only creates the generation.
LEMMA SpawnFailsIInv ==
    ASSUME IInv, NEW d \in Gens, SpawnFails(d)
    PROVE  IInv'
<1> USE DEF IInv
<1> USE DEF SpawnFails, Usable, Unlocked, None, Gens, ownVars, drainVars, fsVars, osVars
<1>1. TypeOK'
    BY DEF TypeOK, SentStates, WorkStates, PinStates, PcStates, Dead
<1>2. IdsDistinct'
    BY DEF TypeOK, SentStates, IdsDistinct, Occupies, Dead
<1>3. HeldIsCurrent'
    BY DEF TypeOK, SentStates, HeldIsCurrent, Dead
<1>4. LiveWorkIsHeld'
    BY DEF TypeOK, SentStates, LiveWorkIsHeld, HeldIsCurrent, Live, Alive, Dead
<1>5. DrainKnows'
    BY DEF TypeOK, SentStates, DrainKnows, Live, Alive, Dead
<1> QED
    BY <1>1, <1>2, <1>3, <1>4, <1>5

\* What a group kill leaves of each group: a group outside the signal is
\* untouched; inside it, no sentinel lives and no member but a fork in flight.
LEMMA KillEffect ==
    ASSUME TypeOK, NEW gs \in SUBSET Groups, Kill(gs)
    PROVE  /\ sent' \in [Groups -> SentStates]
           /\ work' \in [Groups -> WorkStates]
           /\ \A g \in Groups \ gs : sent'[g] = sent[g] /\ work'[g] = work[g]
           /\ \A g \in gs :
                /\ sent'[g] = IF Alive(g) THEN Dead(g) ELSE sent[g]
                /\ work'[g] \in {"none", "hidden"}
                /\ work[g] = "hidden" => work'[g] = "hidden"
                /\ work'[g] = "hidden" => work[g] = "hidden" \/ work[g] = "live" \/ sent[g] \in {"checked", "forked"}
<1>1. PICK escapes \in Escapes(gs) :
        /\ work' = [g \in Groups |-> IF g \in gs THEN KilledWork(g, escapes) ELSE work[g]]
        /\ sent' = [g \in Groups |-> IF g \in gs THEN KilledSent(g) ELSE sent[g]]
    BY DEF Kill
<1>2. \A g \in Groups : /\ KilledWork(g, escapes) \in {"none", "hidden"}
                        /\ work[g] = "hidden" => KilledWork(g, escapes) = "hidden"
                        /\ KilledWork(g, escapes) = "hidden" =>
                              work[g] = "hidden" \/ work[g] = "live" \/ sent[g] \in {"checked", "forked"}
    BY DEF KilledWork, Forking
<1>3. \A g \in Groups : KilledSent(g) = IF Alive(g) THEN Dead(g) ELSE sent[g]
    BY DEF KilledSent
<1>4. \A g \in Groups : KilledSent(g) \in SentStates
    BY <1>3 DEF TypeOK, Dead, SentStates
<1> QED
    BY <1>1, <1>2, <1>3, <1>4 DEF TypeOK, WorkStates, SentStates

\* A group killed by its own watcher or by an exec's handle.
LEMMA KillGroupIInv ==
    ASSUME IInv, NEW g \in Groups, Watch(g) \/ HandleKill(g)
    PROVE  IInv'
<1> USE DEF IInv
<1> USE DEF Watch, HandleKill, ownVars, drainVars, fsVars
<1>a. Kill({g}) /\ {g} \in SUBSET Groups
    OBVIOUS
<1>0. /\ sent' \in [Groups -> SentStates]
      /\ work' \in [Groups -> WorkStates]
      /\ \A h \in Groups \ {g} : sent'[h] = sent[h] /\ work'[h] = work[h]
      /\ sent'[g] = IF Alive(g) THEN Dead(g) ELSE sent[g]
      /\ work'[g] \in {"none", "hidden"}
      /\ work'[g] = "hidden" => work[g] = "hidden" \/ work[g] = "live" \/ sent[g] \in {"checked", "forked"}
    BY <1>a, KillEffect
<1>1. TypeOK'
    BY <1>0 DEF TypeOK
<1>2. IdsDistinct'
    BY <1>0 DEF TypeOK, SentStates, IdsDistinct, Occupies, Alive, Dead
<1>3. HeldIsCurrent'
    BY <1>0 DEF TypeOK, SentStates, HeldIsCurrent, Alive, Dead
<1>4. LiveWorkIsHeld'
    BY <1>0 DEF TypeOK, SentStates, LiveWorkIsHeld, Live, Alive, Dead
<1>5. DrainKnows'
    BY <1>0 DEF TypeOK, SentStates, DrainKnows, Live, Alive, Dead
<1> QED
    BY <1>1, <1>2, <1>3, <1>4, <1>5

\* The drain's signal to every held group.
LEMMA KillOwnedIInv ==
    ASSUME IInv, KillOwned
    PROVE  IInv'
<1> USE DEF IInv
<1> USE DEF KillOwned, ownVars, drainVars, fsVars
<1>a. Held \in SUBSET Groups /\ \A g \in Groups : pin[g] = "held" <=> g \in Held
    BY DEF Held, Mine, HeldIsCurrent
<1>0. /\ sent' \in [Groups -> SentStates]
      /\ work' \in [Groups -> WorkStates]
      /\ \A g \in Groups \ Held : sent'[g] = sent[g] /\ work'[g] = work[g]
      /\ \A g \in Held :
            /\ sent'[g] = IF Alive(g) THEN Dead(g) ELSE sent[g]
            /\ work'[g] \in {"none", "hidden"}
            /\ work'[g] = "hidden" => work[g] = "hidden" \/ work[g] = "live" \/ sent[g] \in {"checked", "forked"}
    BY <1>a, KillEffect
<1>1. TypeOK'
    BY <1>0 DEF TypeOK, PcStates
<1>2. IdsDistinct'
    BY <1>a, <1>0 DEF TypeOK, SentStates, IdsDistinct, HeldIsCurrent, Occupies, Alive, Dead
<1>3. HeldIsCurrent'
    BY <1>a, <1>0 DEF TypeOK, SentStates, HeldIsCurrent, Alive, Dead
<1>4. LiveWorkIsHeld'
    BY <1>a, <1>0 DEF TypeOK, SentStates, LiveWorkIsHeld, HeldIsCurrent, Live, Alive, Dead
<1>5. DrainKnows'
    BY <1>a, <1>0 DEF TypeOK, SentStates, DrainKnows, Live, Alive, Dead
<1> QED
    BY <1>1, <1>2, <1>3, <1>4, <1>5

\* Fencing the saved generations touches no process and no pin.
LEMMA FenceStepIInv ==
    ASSUME IInv, BeginDrain("start") \/ BeginDrain("stop") \/ (\E d \in Gens : Mark(d) \/ Unlink(d) \/ Rmdir(d))
    PROVE  IInv'
<1> USE DEF IInv
<1> USE DEF BeginDrain, Mark, Unlink, Rmdir, Unlocked, ownVars, drainVars, fsVars, osVars
<1>1. TypeOK'
    BY DEF TypeOK, SentStates, WorkStates, PinStates, PcStates
<1>2. IdsDistinct'
    BY DEF TypeOK, SentStates, IdsDistinct, Occupies
<1>3. HeldIsCurrent'
    BY DEF TypeOK, SentStates, HeldIsCurrent, DrainKnows
<1>4. LiveWorkIsHeld'
    BY DEF TypeOK, SentStates, LiveWorkIsHeld, HeldIsCurrent, DrainKnows, Live, Alive
<1>5. DrainKnows'
    BY DEF TypeOK, SentStates, DrainKnows, HeldIsCurrent, LiveWorkIsHeld, Live, Alive
<1> QED
    BY <1>1, <1>2, <1>3, <1>4, <1>5

\* The look that finds two empty tables in a row finds every held group dead.
LEMMA LookIInv ==
    ASSUME IInv, Look
    PROVE  IInv'
<1> USE DEF IInv
<1> USE DEF Look, ownVars, drainVars, fsVars, osVars
<1>a. Held \in SUBSET Groups /\ \A g \in Groups : pin[g] = "held" <=> g \in Held
    BY DEF Held, Mine, HeldIsCurrent
<1>1. TypeOK'
    BY <1>a DEF TypeOK, SentStates, WorkStates, PinStates, PcStates
<1>2. IdsDistinct'
    BY <1>a DEF TypeOK, SentStates, IdsDistinct, Occupies
<1>3. HeldIsCurrent'
    BY <1>a DEF TypeOK, SentStates, HeldIsCurrent, DrainKnows
<1>4. LiveWorkIsHeld'
    BY <1>a DEF TypeOK, SentStates, LiveWorkIsHeld, HeldIsCurrent, DrainKnows, Live, Alive, Visible
<1>5. DrainKnows'
  <2>1. \A g \in Groups : pin[g] = "held" => ~ Alive(g) /\ ~ Alive(g)' /\ work[g] # "live"
      BY DEF DrainKnows, Alive
  <2>2. CASE pc' = "reap"
    <3>1. \A g \in Groups : pin[g] = "held" => ~ Live(g)
        BY <2>2 DEF DrainKnows
    <3> QED
        BY <2>2, <3>1 DEF TypeOK, DrainKnows, Live, Alive
  <2>3. CASE pc' = "kill"
    <3>1. \A g \in Groups : pin[g] = "held" => work'[g] \in {"none", "late"}
        BY <2>1 DEF TypeOK, WorkStates
    <3> QED
        BY <2>1, <2>3, <3>1 DEF DrainKnows
  <2> QED
      BY <2>2, <2>3
<1> QED
    BY <1>1, <1>2, <1>3, <1>4, <1>5

\* Reaping takes the pin before the child is waited for.
LEMMA ReapIInv ==
    ASSUME IInv, (\E g \in Groups : TakeForReap(g)) \/ Reap
    PROVE  IInv'
<1> USE DEF IInv
<1> USE DEF TakeForReap, Reap, ownVars, drainVars, fsVars, osVars
<1>a. Held \in SUBSET Groups /\ \A g \in Groups : pin[g] = "held" <=> g \in Held
    BY DEF Held, Mine, HeldIsCurrent
<1>1. TypeOK'
    BY <1>a DEF TypeOK, SentStates, WorkStates, PinStates, PcStates
<1>2. IdsDistinct'
    BY <1>a DEF TypeOK, SentStates, IdsDistinct, Occupies
<1>3. HeldIsCurrent'
    BY <1>a DEF TypeOK, SentStates, HeldIsCurrent, DrainKnows
<1>4. LiveWorkIsHeld'
    BY <1>a DEF TypeOK, SentStates, LiveWorkIsHeld, HeldIsCurrent, DrainKnows, Live, Alive
<1>5. DrainKnows'
    BY <1>a DEF TypeOK, SentStates, DrainKnows, HeldIsCurrent, LiveWorkIsHeld, Live, Alive
<1> QED
    BY <1>1, <1>2, <1>3, <1>4, <1>5

\* With every child reaped no pin is held.
LEMMA AllReapedIInv ==
    ASSUME IInv, AllReaped
    PROVE  IInv'
<1> USE DEF IInv
<1> USE DEF AllReaped, ownVars, drainVars, fsVars, osVars
<1>a. Held \in SUBSET Groups /\ \A g \in Groups : pin[g] = "held" <=> g \in Held
    BY DEF Held, Mine, HeldIsCurrent
<1>1. TypeOK'
    BY <1>a DEF TypeOK, SentStates, WorkStates, PinStates, PcStates
<1>2. IdsDistinct'
    BY <1>a DEF TypeOK, SentStates, IdsDistinct, Occupies
<1>3. HeldIsCurrent'
    BY <1>a DEF TypeOK, SentStates, HeldIsCurrent, DrainKnows
<1>4. LiveWorkIsHeld'
    BY <1>a DEF TypeOK, SentStates, LiveWorkIsHeld, HeldIsCurrent, DrainKnows, Live, Alive
<1>5. DrainKnows'
    BY <1>a DEF TypeOK, SentStates, DrainKnows, HeldIsCurrent, LiveWorkIsHeld, Live, Alive
<1> QED
    BY <1>1, <1>2, <1>3, <1>4, <1>5

\* A drain that succeeds forgets its generation, one that fails keeps it.
LEMMA EndIInv ==
    ASSUME IInv, Drained \/ DrainFails
    PROVE  IInv'
<1> USE DEF IInv
<1> USE DEF Drained, DrainFails, EndDrain, Unlocked, ownVars, drainVars, fsVars, osVars
<1>1. TypeOK'
    BY DEF TypeOK, SentStates, WorkStates, PinStates, PcStates
<1>2. IdsDistinct'
    BY DEF TypeOK, SentStates, IdsDistinct, Occupies
<1>3. HeldIsCurrent'
    BY DEF TypeOK, SentStates, HeldIsCurrent, DrainKnows
<1>4. LiveWorkIsHeld'
    BY DEF TypeOK, SentStates, LiveWorkIsHeld, HeldIsCurrent, DrainKnows, Live, Alive
<1>5. DrainKnows'
    BY DEF TypeOK, SentStates, DrainKnows, HeldIsCurrent, LiveWorkIsHeld, Live, Alive
<1> QED
    BY <1>1, <1>2, <1>3, <1>4, <1>5

\* Losing the owner drops every pin.
LEMMA LossIInv ==
    ASSUME IInv, Crash \/ Reload
    PROVE  IInv'
<1> USE DEF IInv
<1> USE DEF Crash, Reload, LetGo, EndDrain, Unlocked, ownVars, drainVars, fsVars, osVars
<1>0. None \notin Pids
    BY PidsAssumption DEF PidsAssumption, None
<1>1. TypeOK'
  <2>1. losses' \in 0 .. MaxLosses
      BY BoundsAssumption DEF BoundsAssumption, TypeOK
  <2>2. accepting' \in BOOLEAN /\ owner' \in Pids \cup {None}
      BY DEF TypeOK
  <2> QED
      BY <2>1, <2>2 DEF TypeOK, SentStates, PinStates, PcStates, None
<1>2. IdsDistinct'
    BY <1>0 DEF TypeOK, SentStates, IdsDistinct, Occupies
<1>3. HeldIsCurrent'
    BY DEF TypeOK, SentStates, HeldIsCurrent, DrainKnows
<1>4. LiveWorkIsHeld'
    BY DEF TypeOK, SentStates, LiveWorkIsHeld, HeldIsCurrent, DrainKnows, Live, Alive
<1>5. DrainKnows'
    BY DEF TypeOK, SentStates, DrainKnows, HeldIsCurrent, LiveWorkIsHeld, Live, Alive
<1> QED
    BY <1>1, <1>2, <1>3, <1>4, <1>5

\* Reading the saved ids, adding the own ones, and watching them go.
LEMMA IdsStepIInv ==
    ASSUME IInv, Read \/ Fenced \/ AwaitGone
    PROVE  IInv'
<1> USE DEF IInv
<1> USE DEF Read, Fenced, AwaitGone, ownVars, drainVars, fsVars, osVars
<1>1. TypeOK'
  <2>1. ids' \in SUBSET (Pids \cup {None})
      BY DEF TypeOK, Mine
  <2> QED
      BY <2>1 DEF TypeOK, PcStates
<1>2. IdsDistinct'
    BY DEF IdsDistinct, Occupies
<1>3. HeldIsCurrent'
    BY DEF HeldIsCurrent
<1>4. LiveWorkIsHeld'
    BY DEF LiveWorkIsHeld, Live, Alive
<1>5. DrainKnows'
    BY DEF TypeOK, DrainKnows, HeldIsCurrent, Live, Alive
<1> QED
    BY <1>1, <1>2, <1>3, <1>4, <1>5

\* Every step, and every stuttering step, preserves the inductive invariant.
LEMMA NextIInv == IInv /\ [Next]_vars => IInv'
<1> SUFFICES ASSUME IInv, [Next]_vars PROVE IInv'
    OBVIOUS
<1>1. CASE UNCHANGED vars
    BY <1>1 DEF IInv, TypeOK, IdsDistinct, HeldIsCurrent, LiveWorkIsHeld, DrainKnows,
                Occupies, Live, Alive, vars, osVars, fsVars, ownVars, drainVars
<1>2. CASE \E g \in Groups : GroupStep(g)
    BY <1>2, SentinelStepIInv, ProcessStepIInv, KillGroupIInv, ReapIInv DEF GroupStep, Sentinel
<1>3. CASE \E p \in Pids : Foreign(p) \/ Restart(p)
    BY <1>3, ForeignIInv
<1>4. CASE \E g \in Groups, p \in Pids, d \in Gens : Spawn(g, p, d)
    BY <1>4, SpawnIInv
<1>5. CASE \E d \in Gens : SpawnFails(d)
    BY <1>5, SpawnFailsIInv
<1>6. CASE \E o \in {"start", "stop"} : BeginDrain(o)
    BY <1>6, FenceStepIInv
<1>7. CASE DrainStep
    BY <1>7, FenceStepIInv, IdsStepIInv, KillOwnedIInv, LookIInv, ReapIInv, AllReapedIInv, EndIInv
       DEF DrainStep
<1>8. CASE DrainFails \/ Crash \/ Reload
    BY <1>8, EndIInv, LossIInv
<1> QED
    BY <1>1, <1>2, <1>3, <1>4, <1>5, <1>6, <1>7, <1>8 DEF Next

\* The inductive invariant holds in every reachable state.
THEOREM Invariance == Spec => []IInv
<1>1. Init => IInv
    BY InitIInv
<1>2. IInv /\ [Next]_vars => IInv'
    BY NextIInv
<1> QED
    BY <1>1, <1>2, PTL DEF Spec

\* Type correctness of the process fence.
THEOREM TypeCorrect == Spec => []TypeOK
<1>1. IInv => TypeOK
    BY DEF IInv
<1> QED
    BY <1>1, Invariance, PTL

\* No signal of the host provider ever reaches a recycled process-group id,
\* whatever the interleaving of stops, kills, failures and crashes.
THEOREM NoStraySignal == Spec => []SignalsReachOwnGroup
<1>1. IInv => SignalsReachOwnGroup
    BY DEF IInv, IdsDistinct, HeldIsCurrent, SignalsReachOwnGroup, Occupies
<1> QED
    BY <1>1, Invariance, PTL

\* Work that can still run stays within reach of the owner that spawned it:
\* no failed or abandoned drain loses it and no successful one leaves it.
THEOREM OwnedWorkIsHeld == Spec => []LiveWorkIsHeld
<1>1. IInv => LiveWorkIsHeld
    BY DEF IInv
<1> QED
    BY <1>1, Invariance, PTL

-----------------------------------------------------------------------------
(* ProcessGroups::stop, under its two premises: signals are not outrun by   *)
(* forks, and no owner lets go of a sentinel before its fence check.  What  *)
(* the first invariant says of this owner's work has to be said of the work *)
(* of earlier owners, which is known only by its records.                   *)

StopPremise == "escaping_fork" \notin Faults /\ "late_sentinel" \notin Faults

\* No fork is ever missed.
NoHiddenWork == \A g \in Groups : work[g] # "hidden"

\* Work past its first step is on record, in a directory that is there.
LiveWorkIsRecorded ==
    \A g \in Groups : Live(g) /\ sent[g] # "spawned" => g \in record /\ gen[g] \in dirs

\* A sentinel that has not looked at its fence has started nothing and still
\* has its owner.
EarlySentinelIsOwned ==
    /\ \A g \in Groups : sent[g] \in {"unused", "spawned", "published"} => work[g] = "none"
    /\ \A g \in Groups : sent[g] \in {"spawned", "published"} => pin[g] # "none"

Orphan(g) == pin[g] = "none" /\ Live(g)

\* A drain loses no work of an earlier owner from sight before it has ended.
DrainSeesOrphans ==
    /\ pc = "mark" => \A g \in Groups : Orphan(g) => gen[g] \in todo \/ pgid[g] \in ids
    /\ pc = "read" => \A g \in Groups : Orphan(g) => gen[g] \in todo \cup {at} \/ pgid[g] \in ids
    /\ pc \in {"kill", "look", "reap", "reaping", "await"} =>
         \A g \in Groups : Orphan(g) => pgid[g] \in ids
    /\ pc \in {"remove", "stopped"} => \A g \in Groups : ~ Live(g)

\* A drain has an owner, and a stop that succeeded leaves admission closed.
StoppedIsClosed == (pc = "stopped" => ~ accepting) /\ (pc # "idle" => owner # None)

SInv == NoHiddenWork /\ LiveWorkIsRecorded /\ EarlySentinelIsOwned /\ DrainSeesOrphans
        /\ StoppedIsClosed

\* Without escaping forks a group signal ends the whole group.
LEMMA KillEndsWork ==
    ASSUME StopPremise, TypeOK, NoHiddenWork, NEW gs \in SUBSET Groups, Kill(gs)
    PROVE  /\ \A g \in Groups : work'[g] = IF g \in gs THEN "none" ELSE work[g]
           /\ \A g \in Groups : sent'[g] = sent[g] \/ sent'[g] \in {"zombie", "gone"}
<1>1. Escapes(gs) = {{}}
    BY DEF Escapes, StopPremise
<1>2. work' = [g \in Groups |-> IF g \in gs THEN KilledWork(g, {}) ELSE work[g]]
    BY <1>1 DEF Kill
<1>3. \A g \in Groups : KilledWork(g, {}) = "none"
    BY DEF KilledWork, NoHiddenWork
<1>4. \A g \in Groups : sent'[g] = sent[g] \/ sent'[g] \in {"zombie", "gone"}
    BY KillEffect DEF Dead
<1> QED
    BY <1>2, <1>3, <1>4

\* Steps of a sentinel, its command and the operating system.
LEMMA GroupStop ==
    ASSUME StopPremise, IInv, SInv,
           \/ \E g \in Groups : Publish(g)
           \/ \E g \in Groups : CheckFence(g)
           \/ \E g \in Groups : StartWork(g)
           \/ \E g \in Groups : SetTrap(g)
           \/ \E g \in Groups : WorkExits(g)
           \/ \E g \in Groups : MemberStep(g)
           \/ \E g \in Groups : KillSentinel(g)
           \/ \E g \in Groups : OrphanReap(g)
           \/ \E g \in Groups : HandleTerm(g)
           \/ \E g \in Groups : Watch(g)
           \/ \E g \in Groups : HandleKill(g)
           \/ \E p \in Pids : Foreign(p)
    PROVE  SInv'
<1> USE DEF IInv, SInv, Orphan, Live, Alive, osVars, fsVars, ownVars, drainVars
<1>1. ASSUME NEW g \in Groups, Publish(g)
      PROVE  SInv'
  <2>1. NoHiddenWork'
    BY <1>1 DEF Publish, Dead, NoHiddenWork, TypeOK
  <2>2. LiveWorkIsRecorded'
    BY <1>1 DEF Publish, Dead, LiveWorkIsRecorded, EarlySentinelIsOwned, DrainSeesOrphans, TypeOK,
       SentStates
  <2>3. EarlySentinelIsOwned'
    BY <1>1 DEF Publish, Dead, EarlySentinelIsOwned, TypeOK
  <2>4. DrainSeesOrphans'
    BY <1>1 DEF Publish, Dead, DrainSeesOrphans, EarlySentinelIsOwned, LiveWorkIsRecorded, TypeOK,
       SentStates
  <2>5. StoppedIsClosed'
    BY <1>1 DEF Publish, Dead, StoppedIsClosed, TypeOK
  <2> QED
    BY <2>1, <2>2, <2>3, <2>4, <2>5
<1>2. ASSUME NEW g \in Groups, CheckFence(g)
      PROVE  SInv'
  <2>1. NoHiddenWork'
    BY <1>2 DEF CheckFence, Dead, NoHiddenWork, TypeOK
  <2>2. LiveWorkIsRecorded'
    BY <1>2 DEF CheckFence, Dead, LiveWorkIsRecorded, EarlySentinelIsOwned, DrainSeesOrphans,
       TypeOK, SentStates
  <2>3. EarlySentinelIsOwned'
    BY <1>2 DEF CheckFence, Dead, EarlySentinelIsOwned, TypeOK
  <2>4. DrainSeesOrphans'
    BY <1>2 DEF CheckFence, Dead, DrainSeesOrphans, EarlySentinelIsOwned, LiveWorkIsRecorded,
       TypeOK, SentStates
  <2>5. StoppedIsClosed'
    BY <1>2 DEF CheckFence, Dead, StoppedIsClosed, TypeOK
  <2> QED
    BY <2>1, <2>2, <2>3, <2>4, <2>5
<1>3. ASSUME NEW g \in Groups, StartWork(g)
      PROVE  SInv'
  <2>1. NoHiddenWork'
    BY <1>3 DEF StartWork, NoHiddenWork, TypeOK
  <2>2. LiveWorkIsRecorded'
    BY <1>3 DEF StartWork, LiveWorkIsRecorded, EarlySentinelIsOwned, DrainSeesOrphans, TypeOK,
       SentStates
  <2>3. EarlySentinelIsOwned'
    BY <1>3 DEF StartWork, EarlySentinelIsOwned, TypeOK
  <2>4. DrainSeesOrphans'
    BY <1>3 DEF StartWork, DrainSeesOrphans, EarlySentinelIsOwned, LiveWorkIsRecorded, TypeOK,
       SentStates
  <2>5. StoppedIsClosed'
    BY <1>3 DEF StartWork, StoppedIsClosed, TypeOK
  <2> QED
    BY <2>1, <2>2, <2>3, <2>4, <2>5
<1>4. ASSUME NEW g \in Groups, WorkExits(g)
      PROVE  SInv'
  <2>1. NoHiddenWork'
    BY <1>4 DEF WorkExits, NoHiddenWork, TypeOK
  <2>2. LiveWorkIsRecorded'
    BY <1>4 DEF WorkExits, LiveWorkIsRecorded, EarlySentinelIsOwned, DrainSeesOrphans, TypeOK,
       SentStates
  <2>3. EarlySentinelIsOwned'
    BY <1>4 DEF WorkExits, EarlySentinelIsOwned, TypeOK
  <2>4. DrainSeesOrphans'
    BY <1>4 DEF WorkExits, DrainSeesOrphans, EarlySentinelIsOwned, LiveWorkIsRecorded, TypeOK,
       SentStates
  <2>5. StoppedIsClosed'
    BY <1>4 DEF WorkExits, StoppedIsClosed, TypeOK
  <2> QED
    BY <2>1, <2>2, <2>3, <2>4, <2>5
<1>5. ASSUME NEW g \in Groups, MemberStep(g)
      PROVE  SInv'
  <2>1. NoHiddenWork'
    BY <1>5 DEF MemberStep, NoHiddenWork, TypeOK
  <2>2. LiveWorkIsRecorded'
    BY <1>5 DEF MemberStep, LiveWorkIsRecorded, EarlySentinelIsOwned, DrainSeesOrphans, TypeOK,
       SentStates
  <2>3. EarlySentinelIsOwned'
    BY <1>5 DEF MemberStep, EarlySentinelIsOwned, TypeOK
  <2>4. DrainSeesOrphans'
    BY <1>5 DEF MemberStep, DrainSeesOrphans, EarlySentinelIsOwned, LiveWorkIsRecorded, TypeOK,
       SentStates
  <2>5. StoppedIsClosed'
    BY <1>5 DEF MemberStep, StoppedIsClosed, TypeOK
  <2> QED
    BY <2>1, <2>2, <2>3, <2>4, <2>5
<1>6. ASSUME NEW g \in Groups, KillSentinel(g)
      PROVE  SInv'
  <2>1. NoHiddenWork'
    BY <1>6 DEF KillSentinel, Dead, NoHiddenWork, TypeOK
  <2>2. LiveWorkIsRecorded'
    BY <1>6 DEF KillSentinel, Dead, LiveWorkIsRecorded, EarlySentinelIsOwned, DrainSeesOrphans,
       TypeOK, SentStates
  <2>3. EarlySentinelIsOwned'
    BY <1>6 DEF KillSentinel, Dead, EarlySentinelIsOwned, TypeOK
  <2>4. DrainSeesOrphans'
    BY <1>6 DEF KillSentinel, Dead, DrainSeesOrphans, EarlySentinelIsOwned, LiveWorkIsRecorded,
       TypeOK, SentStates
  <2>5. StoppedIsClosed'
    BY <1>6 DEF KillSentinel, Dead, StoppedIsClosed, TypeOK
  <2> QED
    BY <2>1, <2>2, <2>3, <2>4, <2>5
<1>7. ASSUME NEW g \in Groups, OrphanReap(g)
      PROVE  SInv'
  <2>1. NoHiddenWork'
    BY <1>7 DEF OrphanReap, NoHiddenWork, TypeOK
  <2>2. LiveWorkIsRecorded'
    BY <1>7 DEF OrphanReap, LiveWorkIsRecorded, EarlySentinelIsOwned, DrainSeesOrphans, TypeOK,
       SentStates
  <2>3. EarlySentinelIsOwned'
    BY <1>7 DEF OrphanReap, EarlySentinelIsOwned, TypeOK
  <2>4. DrainSeesOrphans'
    BY <1>7 DEF OrphanReap, DrainSeesOrphans, EarlySentinelIsOwned, LiveWorkIsRecorded, TypeOK,
       SentStates
  <2>5. StoppedIsClosed'
    BY <1>7 DEF OrphanReap, StoppedIsClosed, TypeOK
  <2> QED
    BY <2>1, <2>2, <2>3, <2>4, <2>5
<1>8. ASSUME NEW g \in Groups, HandleTerm(g)
      PROVE  SInv'
  <2>1. NoHiddenWork'
    BY <1>8 DEF HandleTerm, Dead, NoHiddenWork, TypeOK
  <2>2. LiveWorkIsRecorded'
    BY <1>8 DEF HandleTerm, Dead, LiveWorkIsRecorded, EarlySentinelIsOwned, DrainSeesOrphans,
       TypeOK, SentStates
  <2>3. EarlySentinelIsOwned'
    BY <1>8 DEF HandleTerm, Dead, EarlySentinelIsOwned, TypeOK
  <2>4. DrainSeesOrphans'
    BY <1>8 DEF HandleTerm, Dead, DrainSeesOrphans, EarlySentinelIsOwned, LiveWorkIsRecorded,
       TypeOK, SentStates
  <2>5. StoppedIsClosed'
    BY <1>8 DEF HandleTerm, Dead, StoppedIsClosed, TypeOK
  <2> QED
    BY <2>1, <2>2, <2>3, <2>4, <2>5
<1>9. ASSUME NEW g \in Groups, Watch(g)
      PROVE  SInv'
  <2>0. /\ \A h \in Groups : work'[h] = IF h \in {g} THEN "none" ELSE work[h]
        /\ \A h \in Groups : sent'[h] = sent[h] \/ sent'[h] \in {"zombie", "gone"}
    BY <1>9, KillEndsWork DEF Watch
  <2>1. NoHiddenWork'
    BY <1>9, <2>0 DEF Watch, NoHiddenWork, TypeOK
  <2>2. LiveWorkIsRecorded'
    BY <1>9, <2>0 DEF Watch, LiveWorkIsRecorded, EarlySentinelIsOwned, DrainSeesOrphans, TypeOK,
       SentStates
  <2>3. EarlySentinelIsOwned'
    BY <1>9, <2>0 DEF Watch, EarlySentinelIsOwned, TypeOK
  <2>4. DrainSeesOrphans'
    BY <1>9, <2>0 DEF Watch, DrainSeesOrphans, EarlySentinelIsOwned, LiveWorkIsRecorded, TypeOK,
       SentStates
  <2>5. StoppedIsClosed'
    BY <1>9, <2>0 DEF Watch, StoppedIsClosed, TypeOK
  <2> QED
    BY <2>1, <2>2, <2>3, <2>4, <2>5
<1>10. ASSUME NEW g \in Groups, HandleKill(g)
      PROVE  SInv'
  <2>0. /\ \A h \in Groups : work'[h] = IF h \in {g} THEN "none" ELSE work[h]
        /\ \A h \in Groups : sent'[h] = sent[h] \/ sent'[h] \in {"zombie", "gone"}
    BY <1>10, KillEndsWork DEF HandleKill
  <2>1. NoHiddenWork'
    BY <1>10, <2>0 DEF HandleKill, NoHiddenWork, TypeOK
  <2>2. LiveWorkIsRecorded'
    BY <1>10, <2>0 DEF HandleKill, LiveWorkIsRecorded, EarlySentinelIsOwned, DrainSeesOrphans,
       TypeOK, SentStates
  <2>3. EarlySentinelIsOwned'
    BY <1>10, <2>0 DEF HandleKill, EarlySentinelIsOwned, TypeOK
  <2>4. DrainSeesOrphans'
    BY <1>10, <2>0 DEF HandleKill, DrainSeesOrphans, EarlySentinelIsOwned, LiveWorkIsRecorded,
       TypeOK, SentStates
  <2>5. StoppedIsClosed'
    BY <1>10, <2>0 DEF HandleKill, StoppedIsClosed, TypeOK
  <2> QED
    BY <2>1, <2>2, <2>3, <2>4, <2>5
<1>11. ASSUME NEW p \in Pids, Foreign(p)
      PROVE  SInv'
  <2>1. NoHiddenWork'
    BY <1>11 DEF Foreign, NoHiddenWork, TypeOK
  <2>2. LiveWorkIsRecorded'
    BY <1>11 DEF Foreign, LiveWorkIsRecorded, EarlySentinelIsOwned, DrainSeesOrphans, TypeOK,
       SentStates
  <2>3. EarlySentinelIsOwned'
    BY <1>11 DEF Foreign, EarlySentinelIsOwned, TypeOK
  <2>4. DrainSeesOrphans'
    BY <1>11 DEF Foreign, DrainSeesOrphans, EarlySentinelIsOwned, LiveWorkIsRecorded, TypeOK,
       SentStates
  <2>5. StoppedIsClosed'
    BY <1>11 DEF Foreign, StoppedIsClosed, TypeOK
  <2> QED
    BY <2>1, <2>2, <2>3, <2>4, <2>5
<1>12. ASSUME NEW g \in Groups, SetTrap(g)
      PROVE  SInv'
  <2>1. NoHiddenWork'
    BY <1>12 DEF SetTrap, NoHiddenWork, TypeOK
  <2>2. LiveWorkIsRecorded'
    BY <1>12 DEF SetTrap, LiveWorkIsRecorded, EarlySentinelIsOwned, DrainSeesOrphans, TypeOK,
       SentStates
  <2>3. EarlySentinelIsOwned'
    BY <1>12 DEF SetTrap, EarlySentinelIsOwned, TypeOK
  <2>4. DrainSeesOrphans'
    BY <1>12 DEF SetTrap, DrainSeesOrphans, EarlySentinelIsOwned, LiveWorkIsRecorded, TypeOK,
       SentStates
  <2>5. StoppedIsClosed'
    BY <1>12 DEF SetTrap, StoppedIsClosed, TypeOK
  <2> QED
    BY <2>1, <2>2, <2>3, <2>4, <2>5
<1> QED
    BY <1>1, <1>2, <1>3, <1>4, <1>5, <1>6, <1>7, <1>8, <1>9, <1>10, <1>11, <1>12

\* Spawning, and losing or changing the owner.
LEMMA OwnerStop ==
    ASSUME StopPremise, IInv, SInv,
           \/ \E g \in Groups, p \in Pids, d \in Gens : Spawn(g, p, d)
           \/ \E d \in Gens : SpawnFails(d)
           \/ \E p \in Pids : Restart(p)
           \/ Crash
           \/ Reload
    PROVE  SInv'
<1> USE DEF IInv, SInv, Orphan, Live, Alive, osVars, fsVars, ownVars, drainVars
<1>1. ASSUME NEW g \in Groups, NEW p \in Pids, NEW d \in Gens, Spawn(g, p, d)
      PROVE  SInv'
  <2>1. NoHiddenWork'
    BY <1>1 DEF Spawn, Unlocked, Usable, NoHiddenWork, TypeOK
  <2>2. LiveWorkIsRecorded'
    BY <1>1 DEF Spawn, Unlocked, Usable, LiveWorkIsRecorded, EarlySentinelIsOwned,
       DrainSeesOrphans, TypeOK, SentStates
  <2>3. EarlySentinelIsOwned'
    BY <1>1 DEF Spawn, Unlocked, Usable, EarlySentinelIsOwned, TypeOK
  <2>4. DrainSeesOrphans'
    BY <1>1 DEF Spawn, Unlocked, StoppedIsClosed, DrainSeesOrphans, TypeOK
  <2>5. StoppedIsClosed'
    BY <1>1 DEF Spawn, Unlocked, Usable, StoppedIsClosed, TypeOK
  <2> QED
    BY <2>1, <2>2, <2>3, <2>4, <2>5
<1>2. ASSUME NEW d \in Gens, SpawnFails(d)
      PROVE  SInv'
  <2>1. NoHiddenWork'
    BY <1>2 DEF SpawnFails, Unlocked, NoHiddenWork, TypeOK
  <2>2. LiveWorkIsRecorded'
    BY <1>2 DEF SpawnFails, Unlocked, LiveWorkIsRecorded, EarlySentinelIsOwned, DrainSeesOrphans,
       TypeOK, SentStates
  <2>3. EarlySentinelIsOwned'
    BY <1>2 DEF SpawnFails, Unlocked, EarlySentinelIsOwned, TypeOK
  <2>4. DrainSeesOrphans'
    BY <1>2 DEF SpawnFails, Unlocked, DrainSeesOrphans, EarlySentinelIsOwned, LiveWorkIsRecorded,
       TypeOK, SentStates
  <2>5. StoppedIsClosed'
    BY <1>2 DEF SpawnFails, Unlocked, StoppedIsClosed, TypeOK
  <2> QED
    BY <2>1, <2>2, <2>3, <2>4, <2>5
<1>3. ASSUME NEW p \in Pids, Restart(p)
      PROVE  SInv'
  <2>1. NoHiddenWork'
    BY <1>3 DEF Restart, NoHiddenWork, TypeOK
  <2>2. LiveWorkIsRecorded'
    BY <1>3 DEF Restart, LiveWorkIsRecorded, EarlySentinelIsOwned, DrainSeesOrphans, TypeOK,
       SentStates
  <2>3. EarlySentinelIsOwned'
    BY <1>3 DEF Restart, EarlySentinelIsOwned, TypeOK
  <2>4. DrainSeesOrphans'
    BY <1>3 DEF Restart, DrainSeesOrphans, EarlySentinelIsOwned, LiveWorkIsRecorded, TypeOK,
       SentStates
  <2>5. StoppedIsClosed'
    BY <1>3 DEF Restart, StoppedIsClosed, TypeOK
  <2> QED
    BY <2>1, <2>2, <2>3, <2>4, <2>5
<1>4. CASE Crash
  <2>1. NoHiddenWork'
    BY <1>4 DEF Crash, LetGo, MayLose, EndDrain, StopPremise, NoHiddenWork, TypeOK
  <2>2. LiveWorkIsRecorded'
    BY <1>4 DEF Crash, LetGo, MayLose, EndDrain, StopPremise, LiveWorkIsRecorded,
       EarlySentinelIsOwned, DrainSeesOrphans, TypeOK, SentStates
  <2>3. EarlySentinelIsOwned'
    BY <1>4 DEF Crash, LetGo, MayLose, EndDrain, StopPremise, EarlySentinelIsOwned, TypeOK
  <2>4. DrainSeesOrphans'
    BY <1>4 DEF Crash, LetGo, MayLose, EndDrain, StopPremise, DrainSeesOrphans,
       EarlySentinelIsOwned, LiveWorkIsRecorded, TypeOK, SentStates
  <2>5. StoppedIsClosed'
    BY <1>4 DEF Crash, LetGo, MayLose, EndDrain, StopPremise, StoppedIsClosed, TypeOK
  <2> QED
    BY <2>1, <2>2, <2>3, <2>4, <2>5
<1>5. CASE Reload
  <2>1. NoHiddenWork'
    BY <1>5 DEF Reload, LetGo, MayLose, EndDrain, StopPremise, NoHiddenWork, TypeOK
  <2>2. LiveWorkIsRecorded'
    BY <1>5 DEF Reload, LetGo, MayLose, EndDrain, StopPremise, LiveWorkIsRecorded,
       EarlySentinelIsOwned, DrainSeesOrphans, TypeOK, SentStates
  <2>3. EarlySentinelIsOwned'
    BY <1>5 DEF Reload, LetGo, MayLose, EndDrain, StopPremise, EarlySentinelIsOwned, TypeOK
  <2>4. DrainSeesOrphans'
    BY <1>5 DEF Reload, LetGo, MayLose, EndDrain, StopPremise, DrainSeesOrphans,
       EarlySentinelIsOwned, LiveWorkIsRecorded, TypeOK, SentStates
  <2>5. StoppedIsClosed'
    BY <1>5 DEF Reload, LetGo, MayLose, EndDrain, StopPremise, StoppedIsClosed, TypeOK
  <2> QED
    BY <2>1, <2>2, <2>3, <2>4, <2>5
<1> QED
    BY <1>1, <1>2, <1>3, <1>4, <1>5

\* Steps of a drain.
LEMMA DrainStop ==
    ASSUME StopPremise, IInv, SInv,
           \/ \E o \in {"start", "stop"} : BeginDrain(o)
           \/ \E d \in Gens : Mark(d)
           \/ Read
           \/ Fenced
           \/ KillOwned
           \/ Look
           \/ \E g \in Groups : TakeForReap(g)
           \/ Reap
           \/ AllReaped
           \/ AwaitGone
           \/ \E d \in Gens : Unlink(d)
           \/ \E d \in Gens : Rmdir(d)
           \/ Drained
           \/ DrainFails
    PROVE  SInv'
<1> USE DEF IInv, SInv, Orphan, Live, Alive, osVars, fsVars, ownVars, drainVars
<1>1. ASSUME NEW o \in {"start", "stop"}, BeginDrain(o)
      PROVE  SInv'
  <2>1. NoHiddenWork'
    BY <1>1 DEF BeginDrain, Unlocked, NoHiddenWork, TypeOK
  <2>2. LiveWorkIsRecorded'
    BY <1>1 DEF BeginDrain, Unlocked, LiveWorkIsRecorded, EarlySentinelIsOwned, DrainSeesOrphans,
       TypeOK, SentStates
  <2>3. EarlySentinelIsOwned'
    BY <1>1 DEF BeginDrain, Unlocked, EarlySentinelIsOwned, TypeOK
  <2>4. DrainSeesOrphans'
    BY <1>1 DEF BeginDrain, Unlocked, DrainSeesOrphans, EarlySentinelIsOwned, LiveWorkIsRecorded,
       TypeOK, SentStates
  <2>5. StoppedIsClosed'
    BY <1>1 DEF BeginDrain, Unlocked, StoppedIsClosed, TypeOK
  <2> QED
    BY <2>1, <2>2, <2>3, <2>4, <2>5
<1>2. ASSUME NEW d \in Gens, Mark(d)
      PROVE  SInv'
  <2>1. NoHiddenWork'
    BY <1>2 DEF Mark, NoHiddenWork, TypeOK
  <2>2. LiveWorkIsRecorded'
    BY <1>2 DEF Mark, LiveWorkIsRecorded, EarlySentinelIsOwned, DrainSeesOrphans, TypeOK, SentStates
  <2>3. EarlySentinelIsOwned'
    BY <1>2 DEF Mark, EarlySentinelIsOwned, TypeOK
  <2>4. DrainSeesOrphans'
    BY <1>2 DEF Mark, DrainSeesOrphans, EarlySentinelIsOwned, LiveWorkIsRecorded, TypeOK, SentStates
  <2>5. StoppedIsClosed'
    BY <1>2 DEF Mark, StoppedIsClosed, TypeOK
  <2> QED
    BY <2>1, <2>2, <2>3, <2>4, <2>5
<1>3. CASE Read
  <2>1. NoHiddenWork'
    BY <1>3 DEF Read, NoHiddenWork, TypeOK
  <2>2. LiveWorkIsRecorded'
    BY <1>3 DEF Read, LiveWorkIsRecorded, EarlySentinelIsOwned, DrainSeesOrphans, TypeOK, SentStates
  <2>3. EarlySentinelIsOwned'
    BY <1>3 DEF Read, EarlySentinelIsOwned, TypeOK
  <2>4. DrainSeesOrphans'
    BY <1>3 DEF Read, DrainSeesOrphans, EarlySentinelIsOwned, LiveWorkIsRecorded, TypeOK, SentStates
  <2>5. StoppedIsClosed'
    BY <1>3 DEF Read, StoppedIsClosed, TypeOK
  <2> QED
    BY <2>1, <2>2, <2>3, <2>4, <2>5
<1>4. CASE Fenced
  <2>1. NoHiddenWork'
    BY <1>4 DEF Fenced, NoHiddenWork, TypeOK
  <2>2. LiveWorkIsRecorded'
    BY <1>4 DEF Fenced, LiveWorkIsRecorded, EarlySentinelIsOwned, DrainSeesOrphans, TypeOK,
       SentStates
  <2>3. EarlySentinelIsOwned'
    BY <1>4 DEF Fenced, EarlySentinelIsOwned, TypeOK
  <2>4. DrainSeesOrphans'
    BY <1>4 DEF Fenced, DrainSeesOrphans, EarlySentinelIsOwned, LiveWorkIsRecorded, TypeOK,
       SentStates
  <2>5. StoppedIsClosed'
    BY <1>4 DEF Fenced, StoppedIsClosed, TypeOK
  <2> QED
    BY <2>1, <2>2, <2>3, <2>4, <2>5
<1>5. CASE KillOwned
  <2>0. /\ \A h \in Groups : work'[h] = IF h \in Held THEN "none" ELSE work[h]
        /\ \A h \in Groups : sent'[h] = sent[h] \/ sent'[h] \in {"zombie", "gone"}
    BY <1>5, KillEndsWork DEF KillOwned, Held, Mine
  <2>1. NoHiddenWork'
    BY <1>5, <2>0 DEF KillOwned, NoHiddenWork, TypeOK
  <2>2. LiveWorkIsRecorded'
    BY <1>5, <2>0 DEF KillOwned, LiveWorkIsRecorded, EarlySentinelIsOwned, DrainSeesOrphans,
       TypeOK, SentStates
  <2>3. EarlySentinelIsOwned'
    BY <1>5, <2>0 DEF KillOwned, EarlySentinelIsOwned, TypeOK
  <2>4. DrainSeesOrphans'
    BY <1>5, <2>0 DEF KillOwned, DrainSeesOrphans, EarlySentinelIsOwned, LiveWorkIsRecorded,
       TypeOK, SentStates
  <2>5. StoppedIsClosed'
    BY <1>5, <2>0 DEF KillOwned, StoppedIsClosed, TypeOK
  <2> QED
    BY <2>1, <2>2, <2>3, <2>4, <2>5
<1>6. CASE Look
  <2>1. NoHiddenWork'
    BY <1>6 DEF Look, NoHiddenWork, TypeOK
  <2>2. LiveWorkIsRecorded'
    BY <1>6 DEF Look, LiveWorkIsRecorded, EarlySentinelIsOwned, DrainSeesOrphans, TypeOK, SentStates
  <2>3. EarlySentinelIsOwned'
    BY <1>6 DEF Look, EarlySentinelIsOwned, TypeOK
  <2>4. DrainSeesOrphans'
    BY <1>6 DEF Look, DrainSeesOrphans, EarlySentinelIsOwned, LiveWorkIsRecorded, TypeOK, SentStates
  <2>5. StoppedIsClosed'
    BY <1>6 DEF Look, StoppedIsClosed, TypeOK
  <2> QED
    BY <2>1, <2>2, <2>3, <2>4, <2>5
<1>7. ASSUME NEW g \in Groups, TakeForReap(g)
      PROVE  SInv'
  <2>1. NoHiddenWork'
    BY <1>7 DEF TakeForReap, Held, Mine, NoHiddenWork, TypeOK
  <2>2. LiveWorkIsRecorded'
    BY <1>7 DEF TakeForReap, Held, Mine, LiveWorkIsRecorded, EarlySentinelIsOwned,
       DrainSeesOrphans, TypeOK, SentStates
  <2>3. EarlySentinelIsOwned'
    BY <1>7 DEF TakeForReap, Held, Mine, EarlySentinelIsOwned, TypeOK
  <2>4. DrainSeesOrphans'
    BY <1>7 DEF TakeForReap, Held, Mine, DrainSeesOrphans, EarlySentinelIsOwned,
       LiveWorkIsRecorded, TypeOK, SentStates
  <2>5. StoppedIsClosed'
    BY <1>7 DEF TakeForReap, Held, Mine, StoppedIsClosed, TypeOK
  <2> QED
    BY <2>1, <2>2, <2>3, <2>4, <2>5
<1>8. CASE Reap
  <2>1. NoHiddenWork'
    BY <1>8 DEF Reap, NoHiddenWork, TypeOK
  <2>2. LiveWorkIsRecorded'
    BY <1>8 DEF Reap, LiveWorkIsRecorded, EarlySentinelIsOwned, DrainSeesOrphans, TypeOK, SentStates
  <2>3. EarlySentinelIsOwned'
    BY <1>8 DEF Reap, EarlySentinelIsOwned, TypeOK
  <2>4. DrainSeesOrphans'
    BY <1>8 DEF Reap, DrainSeesOrphans, EarlySentinelIsOwned, LiveWorkIsRecorded, TypeOK, SentStates
  <2>5. StoppedIsClosed'
    BY <1>8 DEF Reap, StoppedIsClosed, TypeOK
  <2> QED
    BY <2>1, <2>2, <2>3, <2>4, <2>5
<1>9. CASE AllReaped
  <2>1. NoHiddenWork'
    BY <1>9 DEF AllReaped, NoHiddenWork, TypeOK
  <2>2. LiveWorkIsRecorded'
    BY <1>9 DEF AllReaped, LiveWorkIsRecorded, EarlySentinelIsOwned, DrainSeesOrphans, TypeOK,
       SentStates
  <2>3. EarlySentinelIsOwned'
    BY <1>9 DEF AllReaped, EarlySentinelIsOwned, TypeOK
  <2>4. DrainSeesOrphans'
    BY <1>9 DEF AllReaped, DrainSeesOrphans, EarlySentinelIsOwned, LiveWorkIsRecorded, TypeOK,
       SentStates
  <2>5. StoppedIsClosed'
    BY <1>9 DEF AllReaped, StoppedIsClosed, TypeOK
  <2> QED
    BY <2>1, <2>2, <2>3, <2>4, <2>5
<1>10. CASE AwaitGone
  <2>1. NoHiddenWork'
    BY <1>10 DEF AwaitGone, NoHiddenWork, TypeOK
  <2>2. LiveWorkIsRecorded'
    BY <1>10 DEF AwaitGone, LiveWorkIsRecorded, EarlySentinelIsOwned, DrainSeesOrphans, TypeOK,
       SentStates
  <2>3. EarlySentinelIsOwned'
    BY <1>10 DEF AwaitGone, EarlySentinelIsOwned, TypeOK
  <2>4. DrainSeesOrphans'
    <3>1. \A g \in Groups : Orphan(g) => pgid[g] \in ids /\ IdIsLive(pgid[g])
      BY <1>10 DEF AwaitGone, DrainSeesOrphans, IdIsLive, Visible, NoHiddenWork, TypeOK, WorkStates
    <3>2. \A g \in Groups : Live(g) => Orphan(g)
      BY <1>10 DEF AwaitGone, LiveWorkIsHeld, DrainKnows
    <3>3. ids' = {p \in ids : IdIsLive(p)} /\ pc' = IF ids' = {} THEN "remove" ELSE "await"
      BY <1>10 DEF AwaitGone
    <3>4. UNCHANGED <<sent, work, pin, pgid>>
      BY <1>10 DEF AwaitGone
    <3> QED
      BY <3>1, <3>2, <3>3, <3>4 DEF DrainSeesOrphans
  <2>5. StoppedIsClosed'
    BY <1>10 DEF AwaitGone, StoppedIsClosed, TypeOK
  <2> QED
    BY <2>1, <2>2, <2>3, <2>4, <2>5
<1>11. ASSUME NEW d \in Gens, Unlink(d)
      PROVE  SInv'
  <2>1. NoHiddenWork'
    BY <1>11 DEF Unlink, NoHiddenWork, TypeOK
  <2>2. LiveWorkIsRecorded'
    BY <1>11 DEF Unlink, LiveWorkIsRecorded, EarlySentinelIsOwned, DrainSeesOrphans, TypeOK,
       SentStates
  <2>3. EarlySentinelIsOwned'
    BY <1>11 DEF Unlink, EarlySentinelIsOwned, TypeOK
  <2>4. DrainSeesOrphans'
    BY <1>11 DEF Unlink, DrainSeesOrphans, EarlySentinelIsOwned, LiveWorkIsRecorded, TypeOK,
       SentStates
  <2>5. StoppedIsClosed'
    BY <1>11 DEF Unlink, StoppedIsClosed, TypeOK
  <2> QED
    BY <2>1, <2>2, <2>3, <2>4, <2>5
<1>12. ASSUME NEW d \in Gens, Rmdir(d)
      PROVE  SInv'
  <2>1. NoHiddenWork'
    BY <1>12 DEF Rmdir, NoHiddenWork, TypeOK
  <2>2. LiveWorkIsRecorded'
    BY <1>12 DEF Rmdir, LiveWorkIsRecorded, EarlySentinelIsOwned, DrainSeesOrphans, TypeOK,
       SentStates
  <2>3. EarlySentinelIsOwned'
    BY <1>12 DEF Rmdir, EarlySentinelIsOwned, TypeOK
  <2>4. DrainSeesOrphans'
    BY <1>12 DEF Rmdir, DrainSeesOrphans, EarlySentinelIsOwned, LiveWorkIsRecorded, TypeOK,
       SentStates
  <2>5. StoppedIsClosed'
    BY <1>12 DEF Rmdir, StoppedIsClosed, TypeOK
  <2> QED
    BY <2>1, <2>2, <2>3, <2>4, <2>5
<1>13. CASE Drained
  <2>1. NoHiddenWork'
    BY <1>13 DEF Drained, EndDrain, NoHiddenWork, TypeOK
  <2>2. LiveWorkIsRecorded'
    BY <1>13 DEF Drained, EndDrain, LiveWorkIsRecorded, EarlySentinelIsOwned, DrainSeesOrphans,
       TypeOK, SentStates
  <2>3. EarlySentinelIsOwned'
    BY <1>13 DEF Drained, EndDrain, EarlySentinelIsOwned, TypeOK
  <2>4. DrainSeesOrphans'
    BY <1>13 DEF Drained, EndDrain, DrainSeesOrphans, EarlySentinelIsOwned, LiveWorkIsRecorded,
       TypeOK, SentStates
  <2>5. StoppedIsClosed'
    BY <1>13 DEF Drained, EndDrain, StoppedIsClosed, TypeOK
  <2> QED
    BY <2>1, <2>2, <2>3, <2>4, <2>5
<1>14. CASE DrainFails
  <2>1. NoHiddenWork'
    BY <1>14 DEF DrainFails, EndDrain, Unlocked, NoHiddenWork, TypeOK
  <2>2. LiveWorkIsRecorded'
    BY <1>14 DEF DrainFails, EndDrain, Unlocked, LiveWorkIsRecorded, EarlySentinelIsOwned,
       DrainSeesOrphans, TypeOK, SentStates
  <2>3. EarlySentinelIsOwned'
    BY <1>14 DEF DrainFails, EndDrain, Unlocked, EarlySentinelIsOwned, TypeOK
  <2>4. DrainSeesOrphans'
    BY <1>14 DEF DrainFails, EndDrain, Unlocked, DrainSeesOrphans, EarlySentinelIsOwned,
       LiveWorkIsRecorded, TypeOK, SentStates
  <2>5. StoppedIsClosed'
    BY <1>14 DEF DrainFails, EndDrain, Unlocked, StoppedIsClosed, TypeOK
  <2> QED
    BY <2>1, <2>2, <2>3, <2>4, <2>5
<1> QED
    BY <1>1, <1>2, <1>3, <1>4, <1>5, <1>6, <1>7, <1>8, <1>9, <1>10, <1>11, <1>12, <1>13, <1>14

\* Every step keeps the invariant of the stop theorem.
LEMMA NextSInv ==
    ASSUME StopPremise, IInv, SInv, [Next]_vars
    PROVE  SInv'
<1>1. CASE UNCHANGED vars
    BY <1>1 DEF SInv, NoHiddenWork, LiveWorkIsRecorded, EarlySentinelIsOwned, DrainSeesOrphans,
       StoppedIsClosed, Orphan, Live, Alive, vars, osVars, fsVars, ownVars, drainVars
<1>2. CASE \E g \in Groups : GroupStep(g)
    BY <1>2, GroupStop, DrainStop DEF GroupStep, Sentinel
<1>3. CASE \E p \in Pids : Foreign(p) \/ Restart(p)
    BY <1>3, GroupStop, OwnerStop
<1>4. CASE \E g \in Groups, p \in Pids, d \in Gens : Spawn(g, p, d)
    BY <1>4, OwnerStop
<1>5. CASE (\E d \in Gens : SpawnFails(d)) \/ Crash \/ Reload
    BY <1>5, OwnerStop
<1>6. CASE (\E o \in {"start", "stop"} : BeginDrain(o)) \/ DrainFails
    BY <1>6, DrainStop
<1>7. CASE DrainStep
    BY <1>7, DrainStop DEF DrainStep
<1> QED
    BY <1>1, <1>2, <1>3, <1>4, <1>5, <1>6, <1>7 DEF Next

\* ProcessGroups::stop ends all work of the sandbox, for any number of commands,
\* generations and earlier owners: what this owner spawned and what dead ones
\* left behind, even where the command had killed its own sentinel.  It takes
\* the two premises; TLC shows that the second is needed.
THEOREM StopsEndAllWork ==
    ASSUME StopPremise
    PROVE  Spec => []StopEndsAllWork
<1>1. Init => SInv
    BY DEF Init, SInv, NoHiddenWork, LiveWorkIsRecorded, EarlySentinelIsOwned, DrainSeesOrphans,
       StoppedIsClosed, Live, Alive
<1>2. IInv /\ SInv /\ [Next]_vars => SInv'
    BY NextSInv
<1>3. SInv => StopEndsAllWork
    BY DEF SInv, DrainSeesOrphans, StopEndsAllWork, Live
<1> QED
    BY <1>1, <1>2, <1>3, Invariance, PTL DEF Spec
=============================================================================
