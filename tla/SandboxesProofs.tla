--------------------------- MODULE SandboxesProofs ---------------------------
(***************************************************************************)
(* Proofs about the sandboxes of MCSandboxes, one part at a time: the      *)
(* Docker sandbox and its sweeps, the owned provider, the activation, the  *)
(* Daytona sandbox and its volumes, and the services nested in one.        *)
(*                                                                         *)
(* Every part has an inductive invariant of its own (DockerInv, OwnedInv,  *)
(* ActivationInv, DaytonaInv, NestedInv), with one lemma per action; the   *)
(* theorems at the end combine them by the part a behaviour is about.      *)
(***************************************************************************)
EXTENDS MCSandboxes, FiniteSetTheorems, SequenceTheorems, TLAPS

-----------------------------------------------------------------------------
(* The Docker sandbox: its inductive invariant.                            *)

\* Each operation has its own steps; a sweep knows whose it is.
StartSteps == {"set_list", "set_each", "await", "unpause", "boot_box", "shots", "shots_each"}
StopSteps == {"shots", "shots_each", "halt", "set_list", "set_each"}

CallShape(k) ==
    /\ k.op = "none" <=> k.at \in EndSteps
    /\ k.op = "create" => k.at \in CreateSteps \cup SweepSteps
    /\ k.op = "start" => k.at \in StartSteps \cup {"inspect"}
    /\ k.op = "stop" => k.at \in StopSteps
    /\ k.op = "delete" => k.at \in SweepSteps \cup {"inspect", "shots", "shots_each", "erase"}
    /\ k.op = "pause" => k.at = "freeze"
    /\ k.op = "resume" => k.at = "unpause"
    /\ k.op = "one_shot" => k.at \in ShotSteps
    /\ k.at \in SweepSteps =>
         \/ k.op = "delete" /\ k.aim = "erase"
         \/ k.op = "create" /\ k.aim \in {"abandon", "remove"}

CallShapes == \A c \in Callers : CallShape(call[c])

\* A create runs while nobody else does anything.
CreateAlone == \A c, d \in Callers : call[c].op = "create" /\ c # d => Quiet(d)

\* What is made for services is made for a plan that has them, and the network goes last.
ServicesArePlanned ==
    /\ net => plan.services
    /\ ~net => Labelled = {}
    /\ \A c \in Callers :
         call[c].at \in SweepSteps \cup {"network", "service", "boot", "health", "detach", "connect"}
           => plan.services

\* The primary is there before anything else and goes after everything else.
PrimaryComesFirst ==
    /\ box = "absent" => ~net /\ nets = {}
    /\ \A c \in Callers :
         /\ call[c].at \in {"image", "primary"} => box = "absent"
         /\ call[c].at = "network" => box # "absent"
         /\ call[c].at \in {"remove", "erase"} => ~net

\* A sweep under way has doomed the services.
SweepsDoom ==
    \A c \in Callers :
        /\ call[c].at \in SweepSteps \ {"sweep"} => doomed
        /\ call[c].at \in {"erase", "remove"} /\ plan.services => doomed

\* The services a create has made so far; the network is joined once all are there.
CreatedSoFar ==
    /\ "services" \in nets /\ ~doomed => Labelled = Sidecars
    /\ \A c \in Callers :
         /\ call[c].at \in {"service", "boot"} => Sidecars \ call[c].left \subseteq Labelled
         /\ call[c].at \in {"health", "detach", "connect"} => Labelled = Sidecars

\* Who runs, or is about to be run, is on the network of its services.
RunsOnNetwork ==
    plan.services /\ ~doomed =>
        /\ box \in {"running", "paused"} => "services" \in nets
        /\ \A c \in Callers :
             \/ call[c].at \in {"launch", "verify"}
             \/ call[c].op = "start" /\ call[c].at # "inspect"
             => "services" \in nets

\* A one-shot found after a stop's or a delete's own sweep was created meanwhile.
ShotsAreSwept ==
    /\ \A c \in Callers :
         \/ call[c].op = "stop" /\ call[c].at \in {"halt", "set_list", "set_each"}
         \/ call[c].op = "delete" /\ call[c].at \in SweepSteps \cup {"erase"}
         => shot = "absent" \/ c \in during
    /\ box = "absent" \/ (\E c \in Callers : call[c].op = "create") => shot = "absent" \/ during # {}

DockerInv ==
    /\ DockerTypeOK /\ CallShapes /\ CreateAlone
    /\ ServicesArePlanned /\ PrimaryComesFirst /\ SweepsDoom /\ CreatedSoFar /\ RunsOnNetwork
    /\ ShotsAreSwept

DockerSteps == CreateSteps \cup SweepSteps \cup LifecycleSteps \cup ShotSteps \cup EndSteps

\* A call that goes on to another step keeps the rest.
LEMMA AtEdited ==
  ASSUME NEW k \in CallRecords, NEW at \in DockerSteps
  PROVE  /\ [k EXCEPT !.at = at] \in CallRecords
         /\ [k EXCEPT !.at = at].at = at /\ [k EXCEPT !.at = at].op = k.op
         /\ [k EXCEPT !.at = at].aim = k.aim /\ [k EXCEPT !.at = at].left = k.left
         /\ [k EXCEPT !.at = at].seen = k.seen
  BY DEF CallRecords, DockerSteps

AimTo(k, at, aim) == [k EXCEPT !.at = at, !.aim = aim]

\* A call record with another step and aim.
LEMMA AimEdited ==
  ASSUME NEW k \in CallRecords, NEW at \in DockerSteps, NEW aim \in {"none", "abandon", "remove", "erase"}
  PROVE  LET e == AimTo(k, at, aim) IN e \in CallRecords /\ e.at = at /\ e.op = k.op /\ e.aim = aim
  <1> DEFINE mid == [k EXCEPT !.at = at]
             e == [mid EXCEPT !.aim = aim]
  <1>1. mid \in CallRecords /\ mid.at = at /\ mid.op = k.op BY AtEdited
  <1>2. e = AimTo(k, at, aim) BY DEF AimTo
  <1>3. e \in CallRecords /\ e.at = at /\ e.op = k.op /\ e.aim = aim
    <2> HIDE DEF mid
    <2> QED BY <1>1, AtEdited DEF CallRecords
  <1> HIDE DEF e
  <1> QED BY <1>2, <1>3

LeftTo(k, at, left) == [k EXCEPT !.at = at, !.left = left]

\* A call record with another step and services left to visit.
LEMMA LeftEdited ==
  ASSUME NEW k \in CallRecords, NEW at \in DockerSteps, NEW left \in SUBSET Sidecars
  PROVE  LET e == LeftTo(k, at, left) IN e \in CallRecords /\ e.at = at /\ e.op = k.op /\ e.aim = k.aim /\ e.left = left
  <1> DEFINE mid == [k EXCEPT !.at = at]
             e == [mid EXCEPT !.left = left]
  <1>1. mid \in CallRecords /\ mid.at = at /\ mid.op = k.op /\ mid.aim = k.aim BY AtEdited
  <1>2. e = LeftTo(k, at, left) BY DEF LeftTo
  <1>3. e \in CallRecords /\ e.at = at /\ e.op = k.op /\ e.aim = k.aim /\ e.left = left
    <2> HIDE DEF mid
    <2> QED BY <1>1, AtEdited DEF CallRecords
  <1> HIDE DEF e
  <1> QED BY <1>2, <1>3

SeenTo(k, at, seen) == [k EXCEPT !.seen = seen, !.at = at]

\* A call record with another step and the state it saw.
LEMMA SeenEdited ==
  ASSUME NEW k \in CallRecords, NEW at \in DockerSteps, NEW seen \in BoxStates
  PROVE  LET e == SeenTo(k, at, seen) IN e \in CallRecords /\ e.at = at /\ e.op = k.op /\ e.aim = k.aim
  <1> DEFINE mid == [k EXCEPT !.seen = seen]
             e == [mid EXCEPT !.at = at]
  <1>1. mid \in CallRecords /\ mid.op = k.op /\ mid.aim = k.aim BY DEF CallRecords
  <1>2. e = SeenTo(k, at, seen) BY DEF SeenTo
  <1>3. e \in CallRecords /\ e.at = at /\ e.op = k.op /\ e.aim = k.aim
    <2> HIDE DEF mid
    <2> QED BY <1>1, AtEdited DEF CallRecords
  <1> HIDE DEF e
  <1> QED BY <1>2, <1>3

\* A call that begins: its operation, its first step, nothing aimed at and nothing left.
LEMMA FreshFields ==
  ASSUME NEW op \in CallOps, NEW at \in DockerSteps
  PROVE  LET e == Fresh(op, at) IN
         e \in CallRecords /\ e.at = at /\ e.op = op /\ e.aim = "none" /\ e.left = {}
  BY DEF Fresh, CallRecords, DockerSteps, BoxStates

\* A call that ended has no operation.
LEMMA EndedFields ==
  ASSUME NEW outcome \in EndSteps
  PROVE  LET e == Ended(outcome) IN e \in CallRecords /\ e.at = outcome /\ e.op = "none"
  BY FreshFields DEF Ended, DockerSteps, CallOps

\* Where an error leads: a create and a one-shot go on to clean up, the others fail.
LEMMA ErrorOf ==
  ASSUME plan \in SandboxSpecs, NEW k \in CallRecords, CallShape(k), k.op # "none"
  PROVE  /\ OnError(k) \in CallRecords
         /\ CallShape(OnError(k))
         /\ OnError(k).op = "none" \/ (OnError(k).op = k.op /\ k.op \in {"create", "one_shot"})
         /\ OnError(k).at \in {"sweep", "remove", "shot_remove", "failed"}
         /\ OnError(k).at = "sweep" => plan.services \/ k.at \in {"service", "boot", "health"}
         /\ OnError(k).at = "remove" => ~plan.services
  <1> DEFINE e == OnError(k)
  <1>1. CASE k.op = "create" /\ k.at \in {"service", "boot", "health"}
    <2>1. e = AimTo(k, "sweep", "abandon")
      BY <1>1 DEF OnError, SweepSteps, AimTo
    <2> HIDE DEF e
    <2>2. e \in CallRecords /\ e.at = "sweep" /\ e.op = k.op /\ e.aim = "abandon"
      BY <2>1, AimEdited DEF SweepSteps, DockerSteps
    <2> QED BY <2>2, <1>1 DEF e, CallShape, SweepSteps, EndSteps
  <1>2. CASE Abandon(k) = e /\ k.op = "create"
    <2> HIDE DEF e
    <2>1. CASE plan.services
      <3>1. e = AimTo(k, "sweep", "remove") BY <2>1, <1>2 DEF Abandon, AimTo
      <3>2. e \in CallRecords /\ e.at = "sweep" /\ e.op = k.op /\ e.aim = "remove"
        BY <3>1, AimEdited DEF SweepSteps, DockerSteps
      <3> QED BY <3>2, <1>2, <2>1 DEF e, CallShape, SweepSteps, EndSteps
    <2>2. CASE ~plan.services
      <3>1. e = [k EXCEPT !.at = "remove"] BY <2>2, <1>2 DEF Abandon
      <3>2. e \in CallRecords /\ e.at = "remove" /\ e.op = k.op
        BY <3>1, AtEdited DEF CreateSteps, DockerSteps
      <3> QED BY <3>2, <1>2, <2>2 DEF e, CallShape, SweepSteps, EndSteps, CreateSteps
    <2> QED BY <2>1, <2>2
  <1>3. CASE e = [k EXCEPT !.at = "shot_remove"] /\ k.op = "one_shot"
    <2> HIDE DEF e
    <2>2. e \in CallRecords /\ e.at = "shot_remove" /\ e.op = k.op
        BY <1>3, AtEdited DEF ShotSteps, DockerSteps
    <2> QED BY <2>2, <1>3 DEF e, CallShape, SweepSteps, EndSteps, ShotSteps
  <1>4. CASE e = Ended("failed")
    <2> HIDE DEF e
    <2>2. e \in CallRecords /\ e.at = "failed" /\ e.op = "none"
        BY <1>4, EndedFields DEF EndSteps
    <2> QED BY <2>2, <1>4 DEF e, CallShape, SweepSteps, EndSteps, ShotSteps
  <1>5. \/ k.op = "create" /\ k.at \in {"service", "boot", "health"}
        \/ Abandon(k) = e /\ k.op = "create"
        \/ e = [k EXCEPT !.at = "shot_remove"] /\ k.op = "one_shot"
        \/ e = Ended("failed")
    <2>1. k.at \in SweepSteps /\ k.aim = "abandon" => k.op = "create"
      BY DEF CallShape
    <2>2. k.at \in {"shot_attach", "shot_start", "shot_run"} => k.op = "one_shot" /\ k.at \notin SweepSteps
      BY DEF CallShape, SweepSteps, CreateSteps, StartSteps, StopSteps, EndSteps, CallRecords, CallOps
    <2> QED BY <2>1, <2>2 DEF OnError
  <1> QED BY <1>1, <1>2, <1>3, <1>4, <1>5

\* The caller c goes on to step `at` of operation `op`; the others stay where they are.
CallBecomes(c, op, at) ==
    /\ call' \in [Callers -> CallRecords]
    /\ call'[c].op = op /\ call'[c].at = at
    /\ \A d \in Callers \ {c} : call'[d] = call[d]

\* A call that becomes a record becomes its operation and step.
LEMMA Becoming ==
  ASSUME DockerTypeOK, NEW c \in Callers, NEW k \in CallRecords, call' = [call EXCEPT ![c] = k]
  PROVE  CallBecomes(c, k.op, k.at) /\ call'[c] = k
  BY DEF DockerTypeOK, CallBecomes

\* A call that only goes to another step.
LEMMA GoesTo ==
  ASSUME DockerTypeOK, NEW c \in Callers, NEW at \in DockerSteps, call' = [call EXCEPT ![c] = To(c, at)]
  PROVE  CallBecomes(c, call[c].op, at) /\ call'[c].aim = call[c].aim /\ call'[c].left = call[c].left
  <1> DEFINE k == [call[c] EXCEPT !.at = at]
  <1>1. k \in CallRecords /\ k.at = at /\ k.op = call[c].op /\ k.aim = call[c].aim
        /\ k.left = call[c].left
    BY AtEdited DEF DockerTypeOK
  <1>2. call' = [call EXCEPT ![c] = k] BY DEF To
  <1> HIDE DEF k
  <1> QED BY <1>1, <1>2, Becoming

\* A call that goes on with other services left to visit.
LEMMA Visits ==
  ASSUME DockerTypeOK, NEW c \in Callers, NEW at \in DockerSteps, NEW left \in SUBSET Sidecars,
         call' = [call EXCEPT ![c] = Visit(c, at, left)]
  PROVE  CallBecomes(c, call[c].op, at) /\ call'[c].aim = call[c].aim /\ call'[c].left = left
  <1> DEFINE k == LeftTo(call[c], at, left)
  <1>1. k \in CallRecords /\ k.at = at /\ k.op = call[c].op /\ k.aim = call[c].aim /\ k.left = left
    BY LeftEdited DEF DockerTypeOK
  <1>2. call' = [call EXCEPT ![c] = k] BY DEF Visit, LeftTo
  <1> HIDE DEF k
  <1> QED BY <1>1, <1>2, Becoming

\* A call that takes aim at a cleanup.
LEMMA Aims ==
  ASSUME DockerTypeOK, NEW c \in Callers, NEW at \in DockerSteps, NEW aim \in {"none", "abandon", "remove", "erase"},
         call' = [call EXCEPT ![c] = AimTo(call[c], at, aim)]
  PROVE  CallBecomes(c, call[c].op, at) /\ call'[c].aim = aim
  <1> DEFINE k == AimTo(call[c], at, aim)
  <1>1. k \in CallRecords /\ k.at = at /\ k.op = call[c].op /\ k.aim = aim
    <2>1. call[c] \in CallRecords BY DEF DockerTypeOK
    <2> QED BY <2>1, AimEdited
  <1>2. call' = [call EXCEPT ![c] = k] OBVIOUS
  <1> HIDE DEF k
  <1> QED BY <1>1, <1>2, Becoming

\* A call that saw the state of its container.
LEMMA Sees ==
  ASSUME DockerTypeOK, NEW c \in Callers, NEW at \in DockerSteps, NEW seen \in BoxStates,
         call' = [call EXCEPT ![c] = SeenTo(call[c], at, seen)]
  PROVE  CallBecomes(c, call[c].op, at)
  <1> DEFINE k == SeenTo(call[c], at, seen)
  <1>1. k \in CallRecords /\ k.at = at /\ k.op = call[c].op
    BY SeenEdited DEF DockerTypeOK
  <1>2. call' = [call EXCEPT ![c] = k] OBVIOUS
  <1> HIDE DEF k
  <1> QED BY <1>1, <1>2, Becoming

\* A call that begins.
LEMMA CallBegins ==
  ASSUME DockerTypeOK, NEW c \in Callers, NEW verb \in CallOps, NEW first \in DockerSteps, NEW k,
         k = Fresh(verb, first), call' = [call EXCEPT ![c] = k]
  PROVE  CallBecomes(c, verb, first)
  <1>1. k \in CallRecords /\ k.at = first /\ k.op = verb
    BY FreshFields
  <1> QED BY <1>1, Becoming

\* A call that ends.
LEMMA Ends ==
  ASSUME DockerTypeOK, NEW c \in Callers, NEW outcome \in EndSteps,
         call' = [call EXCEPT ![c] = Ended(outcome)]
  PROVE  CallBecomes(c, "none", outcome)
  <1> DEFINE k == Ended(outcome)
  <1>1. k \in CallRecords /\ k.at = outcome /\ k.op = "none"
    BY EndedFields
  <1>2. call' = [call EXCEPT ![c] = k] OBVIOUS
  <1> HIDE DEF k
  <1> QED BY <1>1, <1>2, Becoming

\* A call that ends leaves the rest of the invariant alone.
LEMMA EndKeepsDocker ==
  ASSUME DockerInv, NEW c \in Callers, NEW outcome \in EndSteps,
         call' = [call EXCEPT ![c] = Ended(outcome)], faults' \in 0..MaxFaults, drops' \in 0..MaxDrops,
         UNCHANGED <<plan, daemon, during, doomed>>
  PROVE  DockerInv'
  <1> USE DEF DockerInv
  <1>1. CallBecomes(c, "none", outcome) BY Ends
  <1>2. DockerTypeOK' BY <1>1 DEF DockerTypeOK, CallBecomes, daemon
  <1>3. CallShapes' /\ CreateAlone'
    BY <1>1 DEF CallShapes, CallShape, CreateAlone, CallBecomes, Quiet, EndSteps, SweepSteps
  <1>4. ServicesArePlanned' /\ PrimaryComesFirst' /\ SweepsDoom'
    BY <1>1 DEF ServicesArePlanned, PrimaryComesFirst, SweepsDoom, CallBecomes, daemon, EndSteps, SweepSteps, Labelled
  <1>5. CreatedSoFar' /\ RunsOnNetwork'
    BY <1>1 DEF CreatedSoFar, RunsOnNetwork, CallBecomes, daemon, EndSteps, Labelled
  <1>6. ShotsAreSwept'
    BY <1>1 DEF ShotsAreSwept, CallBecomes, daemon, EndSteps
  <1> QED BY <1>2, <1>3, <1>4, <1>5, <1>6

\* So does a failing request.
LEMMA ErrorStepKeepsDocker ==
  ASSUME DockerInv, NEW c \in Callers, NEW e \in CallRecords,
         CallShape(e), e.op = "none" \/ (e.op = call[c].op /\ e.op \in {"create", "one_shot"}),
         e.at \in {"sweep", "remove", "shot_remove", "failed"},
         e.at = "sweep" => plan.services \/ call[c].at \in {"service", "boot", "health"},
         e.at = "remove" => ~plan.services,
         call' = [call EXCEPT ![c] = e], faults' \in 0..MaxFaults, drops' \in 0..MaxDrops,
         UNCHANGED <<plan, daemon, during, doomed>>
  PROVE  DockerInv'
  <1> USE DEF DockerInv
  <1>3. CallBecomes(c, e.op, e.at) /\ call'[c] = e
    BY Becoming
  <1>4. DockerTypeOK' BY <1>3 DEF DockerTypeOK, daemon, CallBecomes
  <1>5. CallShapes' /\ CreateAlone'
    BY <1>3 DEF CallBecomes, CallShapes, CallShape, CreateAlone, Quiet, EndSteps
  <1>6. ServicesArePlanned' /\ PrimaryComesFirst' /\ SweepsDoom'
    BY <1>3 DEF CallBecomes, ServicesArePlanned, PrimaryComesFirst, SweepsDoom, daemon, SweepSteps, Labelled
  <1>7. CreatedSoFar' /\ RunsOnNetwork'
    <2>1. e.op # "start" /\ e.at \notin {"launch", "verify", "service", "boot", "health", "detach", "connect"} OBVIOUS
    <2> QED BY <1>3, <2>1 DEF CallBecomes, CreatedSoFar, RunsOnNetwork, daemon, Labelled
  <1>8. ShotsAreSwept'
    <2>1. e.op \notin {"stop", "delete"} OBVIOUS
    <2>2. e.op = "create" => call[c].op = "create" OBVIOUS
    <2> QED BY <1>3, <2>1, <2>2 DEF CallBecomes, ShotsAreSwept, daemon
  <1> QED BY <1>4, <1>5, <1>6, <1>7, <1>8

\* An error of the daemon, or a drop of a create, keeps the Docker invariant.
LEMMA ErrorKeepsDocker ==
  ASSUME DockerInv, NEW c \in Callers, ~Quiet(c),
         call' = [call EXCEPT ![c] = OnError(call[c])], faults' \in 0..MaxFaults, drops' \in 0..MaxDrops,
         UNCHANGED <<plan, daemon, during, doomed>>
  PROVE  DockerInv'
  <1>1. /\ call[c] \in CallRecords /\ CallShape(call[c]) /\ call[c].op # "none"
        /\ plan \in SandboxSpecs
    BY DEF DockerInv, DockerTypeOK, CallShapes, CallShape, Quiet
  <1> QED BY <1>1, ErrorOf, ErrorStepKeepsDocker

\* Which operation a step belongs to.
LEMMA OpOfStep ==
  ASSUME NEW k \in CallRecords, CallShape(k)
  PROVE  /\ k.at \in CreateSteps => k.op = "create"
         /\ k.at \in SweepSteps => \/ k.op = "delete" /\ k.aim = "erase"
                                   \/ k.op = "create" /\ k.aim \in {"abandon", "remove"}
         /\ k.at \in ShotSteps => k.op = "one_shot"
         /\ k.at = "inspect" => k.op \in {"start", "delete"}
         /\ k.at \in {"set_list", "set_each"} => k.op \in {"start", "stop"}
         /\ k.at \in {"await", "boot_box"} => k.op = "start"
         /\ k.at = "unpause" => k.op \in {"start", "resume"}
         /\ k.at = "freeze" => k.op = "pause"
         /\ k.at = "halt" => k.op = "stop"
         /\ k.at \in {"shots", "shots_each"} => k.op \in {"start", "stop", "delete"}
         /\ k.at = "erase" => k.op = "delete"
         /\ k.at \in EndSteps <=> k.op = "none"
  <1>1. k.op \in CallOps BY DEF CallRecords
  <1> QED BY <1>1 DEF CallShape, CallOps, CreateSteps, SweepSteps, ShotSteps, EndSteps, StartSteps, StopSteps

\* While a create runs, everybody else is quiet; while anything else does, nobody creates.
LEMMA WhoElse ==
  ASSUME DockerInv, NEW c \in Callers, ~Quiet(c)
  PROVE  /\ call[c] \in CallRecords /\ CallShape(call[c]) /\ call[c].op # "none"
         /\ call[c].op = "create" => \A d \in Callers \ {c} : call[d].at \in EndSteps /\ call[d].op = "none"
         /\ call[c].op # "create" => \A d \in Callers : call[d].op # "create" /\ call[d].at \notin CreateSteps
  <1>1. call \in [Callers -> CallRecords] /\ \A d \in Callers : CallShape(call[d])
    BY DEF DockerInv, DockerTypeOK, CallShapes
  <1>2. call[c] \in CallRecords /\ CallShape(call[c]) /\ call[c].op # "none"
    BY <1>1 DEF CallShape, Quiet
  <1>3. ASSUME call[c].op = "create", NEW d \in Callers \ {c}
        PROVE  call[d].at \in EndSteps /\ call[d].op = "none"
    BY <1>1, <1>3 DEF DockerInv, CreateAlone, Quiet, CallShape
  <1>4. ASSUME call[c].op # "create", NEW d \in Callers
        PROVE  call[d].op # "create" /\ call[d].at \notin CreateSteps
    <2>1. call[d].op # "create"
      BY <1>4 DEF DockerInv, CreateAlone
    <2>2. call[d] \in CallRecords /\ CallShape(call[d]) BY <1>1
    <2> QED BY <2>1, <2>2, OpOfStep
  <1> QED BY <1>2, <1>3, <1>4

\* The image is there: create the primary.
LEMMA ImageThere ==
  ASSUME DockerInv, NEW c \in Callers, ~Quiet(c), call[c].at = "image",
         CallBecomes(c, "create", "primary"),
         call'[c].aim = call[c].aim, UNCHANGED <<plan, faults, drops, during, doomed, daemon>>
  PROVE  DockerInv'
  <1> USE DEF DockerInv
  <1>a. /\ call[c] \in CallRecords /\ CallShape(call[c]) /\ call[c].op # "none"
        /\ call[c].op = "create" => \A d \in Callers \ {c} : call[d].at \in EndSteps /\ call[d].op = "none"
        /\ call[c].op # "create" => \A d \in Callers : call[d].op # "create" /\ call[d].at \notin CreateSteps
    BY WhoElse
  <1>b. call[c].op = "create"
    BY <1>a, OpOfStep DEF CreateSteps, SweepSteps, LifecycleSteps, ShotSteps, EndSteps, StartSteps, StopSteps
  <1>1. DockerTypeOK'
    BY <1>a, <1>b DEF DockerTypeOK, CallBecomes, daemon, others, BoxStates, ServiceStates, ShotStates, CreateSteps
  <1>2. CallShapes'
    BY <1>a, <1>b DEF DockerTypeOK, CallShapes, CallShape, CallBecomes, CreateSteps, SweepSteps, LifecycleSteps, ShotSteps, EndSteps, StartSteps, StopSteps
  <1>3. CreateAlone'
    BY <1>a, <1>b DEF CreateAlone, CallBecomes, Quiet, EndSteps, CreateSteps
  <1>4. ServicesArePlanned'
    BY <1>a, <1>b DEF ServicesArePlanned, CallBecomes, SweepSteps, Labelled, daemon, others, EndSteps, CreateSteps
  <1>5. PrimaryComesFirst'
    BY <1>a, <1>b DEF PrimaryComesFirst, CallBecomes, daemon, others, EndSteps, CreateSteps
  <1>6. SweepsDoom'
    BY <1>a, <1>b DEF SweepsDoom, CallBecomes, SweepSteps, daemon, others, EndSteps, CreateSteps
  <1>7. CreatedSoFar'
    BY <1>a, <1>b DEF CreatedSoFar, CallBecomes, Labelled, daemon, others, EndSteps, CreateSteps
  <1>8. RunsOnNetwork'
    BY <1>a, <1>b DEF RunsOnNetwork, CallBecomes, daemon, others, EndSteps, CreateSteps
  <1>9. ShotsAreSwept'
    BY <1>a, <1>b DEF ShotsAreSwept, CallBecomes, daemon, others, SweepSteps, EndSteps, CreateSteps
  <1> QED BY <1>1, <1>2, <1>3, <1>4, <1>5, <1>6, <1>7, <1>8, <1>9

\* The primary is created, isolated when it has services.
LEMMA PrimaryThere ==
  ASSUME DockerInv, NEW c \in Callers, ~Quiet(c), call[c].at = "primary", NEW at \in {"network", "launch"}, at = "network" <=> plan.services,
         CallBecomes(c, "create", at),
         box' = "created", nets' = {NetworkMode(plan)}, UNCHANGED <<plan, faults, drops, during, doomed, net, side, shot>>
  PROVE  DockerInv'
  <1> USE DEF DockerInv
  <1>a. /\ call[c] \in CallRecords /\ CallShape(call[c]) /\ call[c].op # "none"
        /\ call[c].op = "create" => \A d \in Callers \ {c} : call[d].at \in EndSteps /\ call[d].op = "none"
        /\ call[c].op # "create" => \A d \in Callers : call[d].op # "create" /\ call[d].at \notin CreateSteps
    BY WhoElse
  <1>b. call[c].op = "create"
    BY <1>a, OpOfStep DEF CreateSteps, SweepSteps, LifecycleSteps, ShotSteps, EndSteps, StartSteps, StopSteps
  <1>c. NetworkMode(plan) \in {"none", "host", "bridge"} /\ box = "absent" /\ ~net
    BY DEF NetworkMode, PrimaryComesFirst
  <1>1. DockerTypeOK'
    BY <1>a, <1>b, <1>c DEF DockerTypeOK, CallBecomes, daemon, others, BoxStates, ServiceStates, ShotStates, CreateSteps
  <1>2. CallShapes'
    BY <1>a, <1>b, <1>c DEF DockerTypeOK, CallShapes, CallShape, CallBecomes, CreateSteps, SweepSteps, LifecycleSteps, ShotSteps, EndSteps, StartSteps, StopSteps
  <1>3. CreateAlone'
    BY <1>a, <1>b, <1>c DEF CreateAlone, CallBecomes, Quiet, EndSteps, CreateSteps
  <1>4. ServicesArePlanned'
    BY <1>a, <1>b, <1>c DEF ServicesArePlanned, CallBecomes, SweepSteps, Labelled, daemon, others, EndSteps, CreateSteps
  <1>5. PrimaryComesFirst'
    BY <1>a, <1>b, <1>c DEF PrimaryComesFirst, CallBecomes, daemon, others, EndSteps, CreateSteps
  <1>6. SweepsDoom'
    BY <1>a, <1>b, <1>c DEF SweepsDoom, CallBecomes, SweepSteps, daemon, others, EndSteps, CreateSteps
  <1>7. CreatedSoFar'
    BY <1>a, <1>b, <1>c DEF CreatedSoFar, CallBecomes, Labelled, daemon, others, EndSteps, CreateSteps
  <1>8. RunsOnNetwork'
    BY <1>a, <1>b, <1>c DEF RunsOnNetwork, CallBecomes, daemon, others, EndSteps, CreateSteps
  <1>9. ShotsAreSwept'
    BY <1>a, <1>b, <1>c DEF ShotsAreSwept, CallBecomes, daemon, others, SweepSteps, EndSteps, CreateSteps
  <1> QED BY <1>1, <1>2, <1>3, <1>4, <1>5, <1>6, <1>7, <1>8, <1>9

\* The primary is created, but the answer is lost.
LEMMA PrimaryUnknown ==
  ASSUME DockerInv, NEW c \in Callers, ~Quiet(c), call[c].at = "primary",
         CallBecomes(c, "none", "failed"),
         box' = "created", nets' = {NetworkMode(plan)}, faults' \in 0..MaxFaults, UNCHANGED <<plan, drops, during, doomed, net, side, shot>>
  PROVE  DockerInv'
  <1> USE DEF DockerInv
  <1>a. /\ call[c] \in CallRecords /\ CallShape(call[c]) /\ call[c].op # "none"
        /\ call[c].op = "create" => \A d \in Callers \ {c} : call[d].at \in EndSteps /\ call[d].op = "none"
        /\ call[c].op # "create" => \A d \in Callers : call[d].op # "create" /\ call[d].at \notin CreateSteps
    BY WhoElse
  <1>b. call[c].op = "create"
    BY <1>a, OpOfStep DEF CreateSteps, SweepSteps, LifecycleSteps, ShotSteps, EndSteps, StartSteps, StopSteps
  <1>c. NetworkMode(plan) \in {"none", "host", "bridge"} /\ box = "absent" /\ ~net
    BY DEF NetworkMode, PrimaryComesFirst
  <1>1. DockerTypeOK'
    BY <1>a, <1>b, <1>c DEF DockerTypeOK, CallBecomes, daemon, others, BoxStates, ServiceStates, ShotStates, CreateSteps
  <1>2. CallShapes'
    BY <1>a, <1>b, <1>c DEF DockerTypeOK, CallShapes, CallShape, CallBecomes, CreateSteps, SweepSteps, LifecycleSteps, ShotSteps, EndSteps, StartSteps, StopSteps
  <1>3. CreateAlone'
    BY <1>a, <1>b, <1>c DEF CreateAlone, CallBecomes, Quiet, EndSteps, CreateSteps
  <1>4. ServicesArePlanned'
    BY <1>a, <1>b, <1>c DEF ServicesArePlanned, CallBecomes, SweepSteps, Labelled, daemon, others, EndSteps, CreateSteps
  <1>5. PrimaryComesFirst'
    BY <1>a, <1>b, <1>c DEF PrimaryComesFirst, CallBecomes, daemon, others, EndSteps, CreateSteps
  <1>6. SweepsDoom'
    BY <1>a, <1>b, <1>c DEF SweepsDoom, CallBecomes, SweepSteps, daemon, others, EndSteps, CreateSteps
  <1>7. CreatedSoFar'
    BY <1>a, <1>b, <1>c DEF CreatedSoFar, CallBecomes, Labelled, daemon, others, EndSteps, CreateSteps
  <1>8. RunsOnNetwork'
    BY <1>a, <1>b, <1>c DEF RunsOnNetwork, CallBecomes, daemon, others, EndSteps, CreateSteps
  <1>9. ShotsAreSwept'
    BY <1>a, <1>b, <1>c DEF ShotsAreSwept, CallBecomes, daemon, others, SweepSteps, EndSteps, CreateSteps
  <1> QED BY <1>1, <1>2, <1>3, <1>4, <1>5, <1>6, <1>7, <1>8, <1>9

\* The network is created.
LEMMA NetworkThere ==
  ASSUME DockerInv, NEW c \in Callers, ~Quiet(c), call[c].at = "network", ~net,
         CallBecomes(c, "create", "service"),
         call'[c].left = Sidecars, net' = TRUE, UNCHANGED <<plan, faults, drops, during, doomed, box, nets, side, shot>>
  PROVE  DockerInv'
  <1> USE DEF DockerInv
  <1>a. /\ call[c] \in CallRecords /\ CallShape(call[c]) /\ call[c].op # "none"
        /\ call[c].op = "create" => \A d \in Callers \ {c} : call[d].at \in EndSteps /\ call[d].op = "none"
        /\ call[c].op # "create" => \A d \in Callers : call[d].op # "create" /\ call[d].at \notin CreateSteps
    BY WhoElse
  <1>b. call[c].op = "create"
    BY <1>a, OpOfStep DEF CreateSteps, SweepSteps, LifecycleSteps, ShotSteps, EndSteps, StartSteps, StopSteps
  <1>1. DockerTypeOK'
    BY <1>a, <1>b DEF DockerTypeOK, CallBecomes, daemon, others, BoxStates, ServiceStates, ShotStates, CreateSteps
  <1>2. CallShapes'
    BY <1>a, <1>b DEF DockerTypeOK, CallShapes, CallShape, CallBecomes, CreateSteps, SweepSteps, LifecycleSteps, ShotSteps, EndSteps, StartSteps, StopSteps
  <1>3. CreateAlone'
    BY <1>a, <1>b DEF CreateAlone, CallBecomes, Quiet, EndSteps, CreateSteps
  <1>4. ServicesArePlanned'
    BY <1>a, <1>b DEF ServicesArePlanned, CallBecomes, SweepSteps, Labelled, daemon, others, EndSteps, CreateSteps
  <1>5. PrimaryComesFirst'
    BY <1>a, <1>b DEF PrimaryComesFirst, CallBecomes, daemon, others, EndSteps, CreateSteps
  <1>6. SweepsDoom'
    BY <1>a, <1>b DEF SweepsDoom, CallBecomes, SweepSteps, daemon, others, EndSteps, CreateSteps
  <1>7. CreatedSoFar'
    BY <1>a, <1>b DEF CreatedSoFar, CallBecomes, Labelled, daemon, others, EndSteps, CreateSteps
  <1>8. RunsOnNetwork'
    BY <1>a, <1>b DEF RunsOnNetwork, CallBecomes, daemon, others, EndSteps, CreateSteps
  <1>9. ShotsAreSwept'
    BY <1>a, <1>b DEF ShotsAreSwept, CallBecomes, daemon, others, SweepSteps, EndSteps, CreateSteps
  <1> QED BY <1>1, <1>2, <1>3, <1>4, <1>5, <1>6, <1>7, <1>8, <1>9

\* A service is created.
LEMMA ServiceThere ==
  ASSUME DockerInv, NEW c \in Callers, ~Quiet(c), call[c].at = "service", NEW s \in call[c].left, net, side' = [side EXCEPT ![s] = "created"],
         CallBecomes(c, "create", "boot"),
         call'[c].left = call[c].left, UNCHANGED <<plan, faults, drops, during, doomed, box, nets, net, shot>>
  PROVE  DockerInv'
  <1> USE DEF DockerInv
  <1>a. /\ call[c] \in CallRecords /\ CallShape(call[c]) /\ call[c].op # "none"
        /\ call[c].op = "create" => \A d \in Callers \ {c} : call[d].at \in EndSteps /\ call[d].op = "none"
        /\ call[c].op # "create" => \A d \in Callers : call[d].op # "create" /\ call[d].at \notin CreateSteps
    BY WhoElse
  <1>b. call[c].op = "create"
    BY <1>a, OpOfStep DEF CreateSteps, SweepSteps, LifecycleSteps, ShotSteps, EndSteps, StartSteps, StopSteps
  <1>c. s \in Sidecars /\ Labelled \subseteq Labelled' /\ Labelled' \subseteq Sidecars
    BY <1>a DEF CallRecords, DockerTypeOK, Labelled
  <1>1. DockerTypeOK'
    BY <1>a, <1>b, <1>c DEF DockerTypeOK, CallBecomes, daemon, others, BoxStates, ServiceStates, ShotStates, CreateSteps
  <1>2. CallShapes'
    BY <1>a, <1>b, <1>c DEF DockerTypeOK, CallShapes, CallShape, CallBecomes, CreateSteps, SweepSteps, LifecycleSteps, ShotSteps, EndSteps, StartSteps, StopSteps
  <1>3. CreateAlone'
    BY <1>a, <1>b, <1>c DEF CreateAlone, CallBecomes, Quiet, EndSteps, CreateSteps
  <1>4. ServicesArePlanned'
    BY <1>a, <1>b, <1>c DEF ServicesArePlanned, CallBecomes, SweepSteps, Labelled, daemon, others, EndSteps, CreateSteps
  <1>5. PrimaryComesFirst'
    BY <1>a, <1>b, <1>c DEF PrimaryComesFirst, CallBecomes, daemon, others, EndSteps, CreateSteps
  <1>6. SweepsDoom'
    BY <1>a, <1>b, <1>c DEF SweepsDoom, CallBecomes, SweepSteps, daemon, others, EndSteps, CreateSteps
  <1>7. CreatedSoFar'
    BY <1>a, <1>b, <1>c DEF CreatedSoFar, CallBecomes, Labelled, daemon, others, EndSteps, CreateSteps
  <1>8. RunsOnNetwork'
    BY <1>a, <1>b, <1>c DEF RunsOnNetwork, CallBecomes, daemon, others, EndSteps, CreateSteps
  <1>9. ShotsAreSwept'
    BY <1>a, <1>b, <1>c DEF ShotsAreSwept, CallBecomes, daemon, others, SweepSteps, EndSteps, CreateSteps
  <1> QED BY <1>1, <1>2, <1>3, <1>4, <1>5, <1>6, <1>7, <1>8, <1>9

\* A service is started.
LEMMA ServiceUp ==
  ASSUME DockerInv, NEW c \in Callers, ~Quiet(c), call[c].at = "boot", NEW s \in call[c].left, side[s] = "created", side' = [side EXCEPT ![s] = "up"], NEW at \in {"service", "health"}, at = "service" => call'[c].left = call[c].left \ {s}, at = "health" => call[c].left = {s},
         CallBecomes(c, "create", at),
         UNCHANGED <<plan, faults, drops, during, doomed, box, nets, net, shot>>
  PROVE  DockerInv'
  <1> USE DEF DockerInv
  <1>a. /\ call[c] \in CallRecords /\ CallShape(call[c]) /\ call[c].op # "none"
        /\ call[c].op = "create" => \A d \in Callers \ {c} : call[d].at \in EndSteps /\ call[d].op = "none"
        /\ call[c].op # "create" => \A d \in Callers : call[d].op # "create" /\ call[d].at \notin CreateSteps
    BY WhoElse
  <1>b. call[c].op = "create"
    BY <1>a, OpOfStep DEF CreateSteps, SweepSteps, LifecycleSteps, ShotSteps, EndSteps, StartSteps, StopSteps
  <1>c. s \in Sidecars /\ s \in Labelled /\ Labelled = Labelled' /\ Labelled' \subseteq Sidecars
    BY <1>a DEF CallRecords, DockerTypeOK, Labelled
  <1>1. DockerTypeOK'
    BY <1>a, <1>b, <1>c DEF DockerTypeOK, CallBecomes, daemon, others, BoxStates, ServiceStates, ShotStates, CreateSteps
  <1>2. CallShapes'
    BY <1>a, <1>b, <1>c DEF DockerTypeOK, CallShapes, CallShape, CallBecomes, CreateSteps, SweepSteps, LifecycleSteps, ShotSteps, EndSteps, StartSteps, StopSteps
  <1>3. CreateAlone'
    BY <1>a, <1>b, <1>c DEF CreateAlone, CallBecomes, Quiet, EndSteps, CreateSteps
  <1>4. ServicesArePlanned'
    BY <1>a, <1>b, <1>c DEF ServicesArePlanned, CallBecomes, SweepSteps, Labelled, daemon, others, EndSteps, CreateSteps
  <1>5. PrimaryComesFirst'
    BY <1>a, <1>b, <1>c DEF PrimaryComesFirst, CallBecomes, daemon, others, EndSteps, CreateSteps
  <1>6. SweepsDoom'
    BY <1>a, <1>b, <1>c DEF SweepsDoom, CallBecomes, SweepSteps, daemon, others, EndSteps, CreateSteps
  <1>7. CreatedSoFar'
    BY <1>a, <1>b, <1>c DEF CreatedSoFar, CallBecomes, Labelled, daemon, others, EndSteps, CreateSteps
  <1>8. RunsOnNetwork'
    BY <1>a, <1>b, <1>c DEF RunsOnNetwork, CallBecomes, daemon, others, EndSteps, CreateSteps
  <1>9. ShotsAreSwept'
    BY <1>a, <1>b, <1>c DEF ShotsAreSwept, CallBecomes, daemon, others, SweepSteps, EndSteps, CreateSteps
  <1> QED BY <1>1, <1>2, <1>3, <1>4, <1>5, <1>6, <1>7, <1>8, <1>9

\* A service is healthy, or all are.
LEMMA ServicesHealthy ==
  ASSUME DockerInv, NEW c \in Callers, ~Quiet(c), call[c].at = "health", NEW at \in {"health", "detach"},
         CallBecomes(c, "create", at),
         call'[c].aim = call[c].aim, UNCHANGED <<plan, faults, drops, during, doomed, daemon>>
  PROVE  DockerInv'
  <1> USE DEF DockerInv
  <1>a. /\ call[c] \in CallRecords /\ CallShape(call[c]) /\ call[c].op # "none"
        /\ call[c].op = "create" => \A d \in Callers \ {c} : call[d].at \in EndSteps /\ call[d].op = "none"
        /\ call[c].op # "create" => \A d \in Callers : call[d].op # "create" /\ call[d].at \notin CreateSteps
    BY WhoElse
  <1>b. call[c].op = "create"
    BY <1>a, OpOfStep DEF CreateSteps, SweepSteps, LifecycleSteps, ShotSteps, EndSteps, StartSteps, StopSteps
  <1>1. DockerTypeOK'
    BY <1>a, <1>b DEF DockerTypeOK, CallBecomes, daemon, others, BoxStates, ServiceStates, ShotStates, CreateSteps
  <1>2. CallShapes'
    BY <1>a, <1>b DEF DockerTypeOK, CallShapes, CallShape, CallBecomes, CreateSteps, SweepSteps, LifecycleSteps, ShotSteps, EndSteps, StartSteps, StopSteps
  <1>3. CreateAlone'
    BY <1>a, <1>b DEF CreateAlone, CallBecomes, Quiet, EndSteps, CreateSteps
  <1>4. ServicesArePlanned'
    BY <1>a, <1>b DEF ServicesArePlanned, CallBecomes, SweepSteps, Labelled, daemon, others, EndSteps, CreateSteps
  <1>5. PrimaryComesFirst'
    BY <1>a, <1>b DEF PrimaryComesFirst, CallBecomes, daemon, others, EndSteps, CreateSteps
  <1>6. SweepsDoom'
    BY <1>a, <1>b DEF SweepsDoom, CallBecomes, SweepSteps, daemon, others, EndSteps, CreateSteps
  <1>7. CreatedSoFar'
    BY <1>a, <1>b DEF CreatedSoFar, CallBecomes, Labelled, daemon, others, EndSteps, CreateSteps
  <1>8. RunsOnNetwork'
    BY <1>a, <1>b DEF RunsOnNetwork, CallBecomes, daemon, others, EndSteps, CreateSteps
  <1>9. ShotsAreSwept'
    BY <1>a, <1>b DEF ShotsAreSwept, CallBecomes, daemon, others, SweepSteps, EndSteps, CreateSteps
  <1> QED BY <1>1, <1>2, <1>3, <1>4, <1>5, <1>6, <1>7, <1>8, <1>9

\* The primary leaves its isolation.
LEMMA NoneLeft ==
  ASSUME DockerInv, NEW c \in Callers, ~Quiet(c), call[c].at = "detach", box # "absent",
         CallBecomes(c, "create", "connect"),
         nets' = nets \ {"none"}, UNCHANGED <<plan, faults, drops, during, doomed, box, net, side, shot>>
  PROVE  DockerInv'
  <1> USE DEF DockerInv
  <1>a. /\ call[c] \in CallRecords /\ CallShape(call[c]) /\ call[c].op # "none"
        /\ call[c].op = "create" => \A d \in Callers \ {c} : call[d].at \in EndSteps /\ call[d].op = "none"
        /\ call[c].op # "create" => \A d \in Callers : call[d].op # "create" /\ call[d].at \notin CreateSteps
    BY WhoElse
  <1>b. call[c].op = "create"
    BY <1>a, OpOfStep DEF CreateSteps, SweepSteps, LifecycleSteps, ShotSteps, EndSteps, StartSteps, StopSteps
  <1>1. DockerTypeOK'
    BY <1>a, <1>b DEF DockerTypeOK, CallBecomes, daemon, others, BoxStates, ServiceStates, ShotStates, CreateSteps
  <1>2. CallShapes'
    BY <1>a, <1>b DEF DockerTypeOK, CallShapes, CallShape, CallBecomes, CreateSteps, SweepSteps, LifecycleSteps, ShotSteps, EndSteps, StartSteps, StopSteps
  <1>3. CreateAlone'
    BY <1>a, <1>b DEF CreateAlone, CallBecomes, Quiet, EndSteps, CreateSteps
  <1>4. ServicesArePlanned'
    BY <1>a, <1>b DEF ServicesArePlanned, CallBecomes, SweepSteps, Labelled, daemon, others, EndSteps, CreateSteps
  <1>5. PrimaryComesFirst'
    BY <1>a, <1>b DEF PrimaryComesFirst, CallBecomes, daemon, others, EndSteps, CreateSteps
  <1>6. SweepsDoom'
    BY <1>a, <1>b DEF SweepsDoom, CallBecomes, SweepSteps, daemon, others, EndSteps, CreateSteps
  <1>7. CreatedSoFar'
    BY <1>a, <1>b DEF CreatedSoFar, CallBecomes, Labelled, daemon, others, EndSteps, CreateSteps
  <1>8. RunsOnNetwork'
    BY <1>a, <1>b DEF RunsOnNetwork, CallBecomes, daemon, others, EndSteps, CreateSteps
  <1>9. ShotsAreSwept'
    BY <1>a, <1>b DEF ShotsAreSwept, CallBecomes, daemon, others, SweepSteps, EndSteps, CreateSteps
  <1> QED BY <1>1, <1>2, <1>3, <1>4, <1>5, <1>6, <1>7, <1>8, <1>9

\* The primary joins the network of its services.
LEMMA Connected ==
  ASSUME DockerInv, NEW c \in Callers, ~Quiet(c), call[c].at = "connect", box # "absent",
         CallBecomes(c, "create", "launch"),
         nets' = nets \cup {"services"}, UNCHANGED <<plan, faults, drops, during, doomed, box, net, side, shot>>
  PROVE  DockerInv'
  <1> USE DEF DockerInv
  <1>a. /\ call[c] \in CallRecords /\ CallShape(call[c]) /\ call[c].op # "none"
        /\ call[c].op = "create" => \A d \in Callers \ {c} : call[d].at \in EndSteps /\ call[d].op = "none"
        /\ call[c].op # "create" => \A d \in Callers : call[d].op # "create" /\ call[d].at \notin CreateSteps
    BY WhoElse
  <1>b. call[c].op = "create"
    BY <1>a, OpOfStep DEF CreateSteps, SweepSteps, LifecycleSteps, ShotSteps, EndSteps, StartSteps, StopSteps
  <1>1. DockerTypeOK'
    BY <1>a, <1>b DEF DockerTypeOK, CallBecomes, daemon, others, BoxStates, ServiceStates, ShotStates, CreateSteps
  <1>2. CallShapes'
    BY <1>a, <1>b DEF DockerTypeOK, CallShapes, CallShape, CallBecomes, CreateSteps, SweepSteps, LifecycleSteps, ShotSteps, EndSteps, StartSteps, StopSteps
  <1>3. CreateAlone'
    BY <1>a, <1>b DEF CreateAlone, CallBecomes, Quiet, EndSteps, CreateSteps
  <1>4. ServicesArePlanned'
    BY <1>a, <1>b DEF ServicesArePlanned, CallBecomes, SweepSteps, Labelled, daemon, others, EndSteps, CreateSteps
  <1>5. PrimaryComesFirst'
    BY <1>a, <1>b DEF PrimaryComesFirst, CallBecomes, daemon, others, EndSteps, CreateSteps
  <1>6. SweepsDoom'
    BY <1>a, <1>b DEF SweepsDoom, CallBecomes, SweepSteps, daemon, others, EndSteps, CreateSteps
  <1>7. CreatedSoFar'
    BY <1>a, <1>b DEF CreatedSoFar, CallBecomes, Labelled, daemon, others, EndSteps, CreateSteps
  <1>8. RunsOnNetwork'
    BY <1>a, <1>b DEF RunsOnNetwork, CallBecomes, daemon, others, EndSteps, CreateSteps
  <1>9. ShotsAreSwept'
    BY <1>a, <1>b DEF ShotsAreSwept, CallBecomes, daemon, others, SweepSteps, EndSteps, CreateSteps
  <1> QED BY <1>1, <1>2, <1>3, <1>4, <1>5, <1>6, <1>7, <1>8, <1>9

\* The primary is started.
LEMMA Launched ==
  ASSUME DockerInv, NEW c \in Callers, ~Quiet(c), call[c].at = "launch", box # "absent",
         CallBecomes(c, "create", "verify"),
         box' = "running", UNCHANGED <<plan, faults, drops, during, doomed, nets, net, side, shot>>
  PROVE  DockerInv'
  <1> USE DEF DockerInv
  <1>a. /\ call[c] \in CallRecords /\ CallShape(call[c]) /\ call[c].op # "none"
        /\ call[c].op = "create" => \A d \in Callers \ {c} : call[d].at \in EndSteps /\ call[d].op = "none"
        /\ call[c].op # "create" => \A d \in Callers : call[d].op # "create" /\ call[d].at \notin CreateSteps
    BY WhoElse
  <1>b. call[c].op = "create"
    BY <1>a, OpOfStep DEF CreateSteps, SweepSteps, LifecycleSteps, ShotSteps, EndSteps, StartSteps, StopSteps
  <1>1. DockerTypeOK'
    BY <1>a, <1>b DEF DockerTypeOK, CallBecomes, daemon, others, BoxStates, ServiceStates, ShotStates, CreateSteps
  <1>2. CallShapes'
    BY <1>a, <1>b DEF DockerTypeOK, CallShapes, CallShape, CallBecomes, CreateSteps, SweepSteps, LifecycleSteps, ShotSteps, EndSteps, StartSteps, StopSteps
  <1>3. CreateAlone'
    BY <1>a, <1>b DEF CreateAlone, CallBecomes, Quiet, EndSteps, CreateSteps
  <1>4. ServicesArePlanned'
    BY <1>a, <1>b DEF ServicesArePlanned, CallBecomes, SweepSteps, Labelled, daemon, others, EndSteps, CreateSteps
  <1>5. PrimaryComesFirst'
    BY <1>a, <1>b DEF PrimaryComesFirst, CallBecomes, daemon, others, EndSteps, CreateSteps
  <1>6. SweepsDoom'
    BY <1>a, <1>b DEF SweepsDoom, CallBecomes, SweepSteps, daemon, others, EndSteps, CreateSteps
  <1>7. CreatedSoFar'
    BY <1>a, <1>b DEF CreatedSoFar, CallBecomes, Labelled, daemon, others, EndSteps, CreateSteps
  <1>8. RunsOnNetwork'
    BY <1>a, <1>b DEF RunsOnNetwork, CallBecomes, daemon, others, EndSteps, CreateSteps
  <1>9. ShotsAreSwept'
    BY <1>a, <1>b DEF ShotsAreSwept, CallBecomes, daemon, others, SweepSteps, EndSteps, CreateSteps
  <1> QED BY <1>1, <1>2, <1>3, <1>4, <1>5, <1>6, <1>7, <1>8, <1>9

\* The primary of a failed create goes.
LEMMA FailedRemoved ==
  ASSUME DockerInv, NEW c \in Callers, ~Quiet(c), call[c].at = "remove",
         CallBecomes(c, "none", "failed"),
         box' = "absent", nets' = {}, UNCHANGED <<plan, faults, drops, during, doomed, net, side, shot>>
  PROVE  DockerInv'
  <1> USE DEF DockerInv
  <1>a. /\ call[c] \in CallRecords /\ CallShape(call[c]) /\ call[c].op # "none"
        /\ call[c].op = "create" => \A d \in Callers \ {c} : call[d].at \in EndSteps /\ call[d].op = "none"
        /\ call[c].op # "create" => \A d \in Callers : call[d].op # "create" /\ call[d].at \notin CreateSteps
    BY WhoElse
  <1>b. call[c].op = "create"
    BY <1>a, OpOfStep DEF CreateSteps, SweepSteps, LifecycleSteps, ShotSteps, EndSteps, StartSteps, StopSteps
  <1>1. DockerTypeOK'
    BY <1>a, <1>b DEF DockerTypeOK, CallBecomes, daemon, others, BoxStates, ServiceStates, ShotStates, CreateSteps
  <1>2. CallShapes'
    BY <1>a, <1>b DEF DockerTypeOK, CallShapes, CallShape, CallBecomes, CreateSteps, SweepSteps, LifecycleSteps, ShotSteps, EndSteps, StartSteps, StopSteps
  <1>3. CreateAlone'
    BY <1>a, <1>b DEF CreateAlone, CallBecomes, Quiet, EndSteps, CreateSteps
  <1>4. ServicesArePlanned'
    BY <1>a, <1>b DEF ServicesArePlanned, CallBecomes, SweepSteps, Labelled, daemon, others, EndSteps, CreateSteps
  <1>5. PrimaryComesFirst'
    BY <1>a, <1>b DEF PrimaryComesFirst, CallBecomes, daemon, others, EndSteps, CreateSteps
  <1>6. SweepsDoom'
    BY <1>a, <1>b DEF SweepsDoom, CallBecomes, SweepSteps, daemon, others, EndSteps, CreateSteps
  <1>7. CreatedSoFar'
    BY <1>a, <1>b DEF CreatedSoFar, CallBecomes, Labelled, daemon, others, EndSteps, CreateSteps
  <1>8. RunsOnNetwork'
    BY <1>a, <1>b DEF RunsOnNetwork, CallBecomes, daemon, others, EndSteps, CreateSteps
  <1>9. ShotsAreSwept'
    BY <1>a, <1>b DEF ShotsAreSwept, CallBecomes, daemon, others, SweepSteps, EndSteps, CreateSteps
  <1> QED BY <1>1, <1>2, <1>3, <1>4, <1>5, <1>6, <1>7, <1>8, <1>9

\* A sweep lists the services it will remove.
LEMMA SweepListed ==
  ASSUME DockerInv, NEW c \in Callers, ~Quiet(c), call[c].at = "sweep",
         CallBecomes(c, call[c].op, "sweep_each"),
         call'[c].aim = call[c].aim, doomed' = TRUE, UNCHANGED <<plan, daemon, faults, drops, during>>
  PROVE  DockerInv'
  <1> USE DEF DockerInv
  <1>a. /\ call[c] \in CallRecords /\ CallShape(call[c]) /\ call[c].op # "none"
        /\ call[c].op = "create" => \A d \in Callers \ {c} : call[d].at \in EndSteps /\ call[d].op = "none"
        /\ call[c].op # "create" => \A d \in Callers : call[d].op # "create" /\ call[d].at \notin CreateSteps
    BY WhoElse
  <1>b. \/ call[c].op = "delete" /\ call[c].aim = "erase"
        \/ call[c].op = "create" /\ call[c].aim \in {"abandon", "remove"}
    BY <1>a, OpOfStep DEF CreateSteps, SweepSteps, LifecycleSteps, ShotSteps, EndSteps, StartSteps, StopSteps
  <1>1. DockerTypeOK'
    BY <1>a, <1>b DEF DockerTypeOK, CallBecomes, daemon, others, BoxStates, ServiceStates, ShotStates, CreateSteps
  <1>2. CallShapes'
    BY <1>a, <1>b DEF DockerTypeOK, CallShapes, CallShape, CallBecomes, CreateSteps, SweepSteps, LifecycleSteps, ShotSteps, EndSteps, StartSteps, StopSteps
  <1>3. CreateAlone'
    BY <1>a, <1>b DEF CreateAlone, CallBecomes, Quiet, EndSteps, CreateSteps
  <1>4. ServicesArePlanned'
    BY <1>a, <1>b DEF ServicesArePlanned, CallBecomes, SweepSteps, Labelled, daemon, others, EndSteps, CreateSteps
  <1>5. PrimaryComesFirst'
    BY <1>a, <1>b DEF PrimaryComesFirst, CallBecomes, daemon, others, EndSteps, CreateSteps
  <1>6. SweepsDoom'
    BY <1>a, <1>b DEF SweepsDoom, CallBecomes, SweepSteps, daemon, others, EndSteps, CreateSteps
  <1>7. CreatedSoFar'
    BY <1>a, <1>b DEF CreatedSoFar, CallBecomes, Labelled, daemon, others, EndSteps, CreateSteps
  <1>8. RunsOnNetwork'
    BY <1>a, <1>b DEF RunsOnNetwork, CallBecomes, daemon, others, EndSteps, CreateSteps
  <1>9. ShotsAreSwept'
    BY <1>a, <1>b DEF ShotsAreSwept, CallBecomes, daemon, others, SweepSteps, EndSteps, CreateSteps
  <1> QED BY <1>1, <1>2, <1>3, <1>4, <1>5, <1>6, <1>7, <1>8, <1>9

\* A sweep removes a service.
LEMMA ServiceSwept ==
  ASSUME DockerInv, NEW c \in Callers, ~Quiet(c), call[c].at = "sweep_each", NEW s \in Sidecars, side' = [side EXCEPT ![s] = "absent"],
         CallBecomes(c, call[c].op, "sweep_each"),
         call'[c].aim = call[c].aim, UNCHANGED <<plan, faults, drops, during, doomed, box, nets, net, shot>>
  PROVE  DockerInv'
  <1> USE DEF DockerInv
  <1>a. /\ call[c] \in CallRecords /\ CallShape(call[c]) /\ call[c].op # "none"
        /\ call[c].op = "create" => \A d \in Callers \ {c} : call[d].at \in EndSteps /\ call[d].op = "none"
        /\ call[c].op # "create" => \A d \in Callers : call[d].op # "create" /\ call[d].at \notin CreateSteps
    BY WhoElse
  <1>b. \/ call[c].op = "delete" /\ call[c].aim = "erase"
        \/ call[c].op = "create" /\ call[c].aim \in {"abandon", "remove"}
    BY <1>a, OpOfStep DEF CreateSteps, SweepSteps, LifecycleSteps, ShotSteps, EndSteps, StartSteps, StopSteps
  <1>c. Labelled' \subseteq Labelled /\ doomed
    BY <1>a DEF DockerTypeOK, Labelled, SweepsDoom, SweepSteps
  <1>1. DockerTypeOK'
    BY <1>a, <1>b, <1>c DEF DockerTypeOK, CallBecomes, daemon, others, BoxStates, ServiceStates, ShotStates, CreateSteps
  <1>2. CallShapes'
    BY <1>a, <1>b, <1>c DEF DockerTypeOK, CallShapes, CallShape, CallBecomes, CreateSteps, SweepSteps, LifecycleSteps, ShotSteps, EndSteps, StartSteps, StopSteps
  <1>3. CreateAlone'
    BY <1>a, <1>b, <1>c DEF CreateAlone, CallBecomes, Quiet, EndSteps, CreateSteps
  <1>4. ServicesArePlanned'
    BY <1>a, <1>b, <1>c DEF ServicesArePlanned, CallBecomes, SweepSteps, Labelled, daemon, others, EndSteps, CreateSteps
  <1>5. PrimaryComesFirst'
    BY <1>a, <1>b, <1>c DEF PrimaryComesFirst, CallBecomes, daemon, others, EndSteps, CreateSteps
  <1>6. SweepsDoom'
    BY <1>a, <1>b, <1>c DEF SweepsDoom, CallBecomes, SweepSteps, daemon, others, EndSteps, CreateSteps
  <1>7. CreatedSoFar'
    BY <1>a, <1>b, <1>c DEF CreatedSoFar, CallBecomes, Labelled, daemon, others, EndSteps, CreateSteps
  <1>8. RunsOnNetwork'
    BY <1>a, <1>b, <1>c DEF RunsOnNetwork, CallBecomes, daemon, others, EndSteps, CreateSteps
  <1>9. ShotsAreSwept'
    BY <1>a, <1>b, <1>c DEF ShotsAreSwept, CallBecomes, daemon, others, SweepSteps, EndSteps, CreateSteps
  <1> QED BY <1>1, <1>2, <1>3, <1>4, <1>5, <1>6, <1>7, <1>8, <1>9

\* A sweep goes on to the network.
LEMMA SweepGoesOn ==
  ASSUME DockerInv, NEW c \in Callers, ~Quiet(c), call[c].at \in {"sweep_each", "sweep_attached"}, NEW at \in {"sweep_attached", "sweep_detach", "sweep_net"},
         CallBecomes(c, call[c].op, at),
         call'[c].aim = call[c].aim, UNCHANGED <<plan, faults, drops, during, doomed, daemon>>
  PROVE  DockerInv'
  <1> USE DEF DockerInv
  <1>a. /\ call[c] \in CallRecords /\ CallShape(call[c]) /\ call[c].op # "none"
        /\ call[c].op = "create" => \A d \in Callers \ {c} : call[d].at \in EndSteps /\ call[d].op = "none"
        /\ call[c].op # "create" => \A d \in Callers : call[d].op # "create" /\ call[d].at \notin CreateSteps
    BY WhoElse
  <1>b. \/ call[c].op = "delete" /\ call[c].aim = "erase"
        \/ call[c].op = "create" /\ call[c].aim \in {"abandon", "remove"}
    BY <1>a, OpOfStep DEF CreateSteps, SweepSteps, LifecycleSteps, ShotSteps, EndSteps, StartSteps, StopSteps
  <1>1. DockerTypeOK'
    BY <1>a, <1>b DEF DockerTypeOK, CallBecomes, daemon, others, BoxStates, ServiceStates, ShotStates, CreateSteps
  <1>2. CallShapes'
    BY <1>a, <1>b DEF DockerTypeOK, CallShapes, CallShape, CallBecomes, CreateSteps, SweepSteps, LifecycleSteps, ShotSteps, EndSteps, StartSteps, StopSteps
  <1>3. CreateAlone'
    BY <1>a, <1>b DEF CreateAlone, CallBecomes, Quiet, EndSteps, CreateSteps
  <1>4. ServicesArePlanned'
    BY <1>a, <1>b DEF ServicesArePlanned, CallBecomes, SweepSteps, Labelled, daemon, others, EndSteps, CreateSteps
  <1>5. PrimaryComesFirst'
    BY <1>a, <1>b DEF PrimaryComesFirst, CallBecomes, daemon, others, EndSteps, CreateSteps
  <1>6. SweepsDoom'
    BY <1>a, <1>b DEF SweepsDoom, CallBecomes, SweepSteps, daemon, others, EndSteps, CreateSteps
  <1>7. CreatedSoFar'
    BY <1>a, <1>b DEF CreatedSoFar, CallBecomes, Labelled, daemon, others, EndSteps, CreateSteps
  <1>8. RunsOnNetwork'
    BY <1>a, <1>b DEF RunsOnNetwork, CallBecomes, daemon, others, EndSteps, CreateSteps
  <1>9. ShotsAreSwept'
    BY <1>a, <1>b DEF ShotsAreSwept, CallBecomes, daemon, others, SweepSteps, EndSteps, CreateSteps
  <1> QED BY <1>1, <1>2, <1>3, <1>4, <1>5, <1>6, <1>7, <1>8, <1>9

\* A sweep takes the primary off the network.
LEMMA SweepDetached ==
  ASSUME DockerInv, NEW c \in Callers, ~Quiet(c), call[c].at = "sweep_detach",
         CallBecomes(c, call[c].op, "sweep_net"),
         call'[c].aim = call[c].aim, nets' = nets \ {"services"}, UNCHANGED <<plan, faults, drops, during, doomed, box, net, side, shot>>
  PROVE  DockerInv'
  <1> USE DEF DockerInv
  <1>a. /\ call[c] \in CallRecords /\ CallShape(call[c]) /\ call[c].op # "none"
        /\ call[c].op = "create" => \A d \in Callers \ {c} : call[d].at \in EndSteps /\ call[d].op = "none"
        /\ call[c].op # "create" => \A d \in Callers : call[d].op # "create" /\ call[d].at \notin CreateSteps
    BY WhoElse
  <1>b. \/ call[c].op = "delete" /\ call[c].aim = "erase"
        \/ call[c].op = "create" /\ call[c].aim \in {"abandon", "remove"}
    BY <1>a, OpOfStep DEF CreateSteps, SweepSteps, LifecycleSteps, ShotSteps, EndSteps, StartSteps, StopSteps
  <1>c. doomed
    BY DEF SweepsDoom, SweepSteps
  <1>1. DockerTypeOK'
    BY <1>a, <1>b, <1>c DEF DockerTypeOK, CallBecomes, daemon, others, BoxStates, ServiceStates, ShotStates, CreateSteps
  <1>2. CallShapes'
    BY <1>a, <1>b, <1>c DEF DockerTypeOK, CallShapes, CallShape, CallBecomes, CreateSteps, SweepSteps, LifecycleSteps, ShotSteps, EndSteps, StartSteps, StopSteps
  <1>3. CreateAlone'
    BY <1>a, <1>b, <1>c DEF CreateAlone, CallBecomes, Quiet, EndSteps, CreateSteps
  <1>4. ServicesArePlanned'
    BY <1>a, <1>b, <1>c DEF ServicesArePlanned, CallBecomes, SweepSteps, Labelled, daemon, others, EndSteps, CreateSteps
  <1>5. PrimaryComesFirst'
    BY <1>a, <1>b, <1>c DEF PrimaryComesFirst, CallBecomes, daemon, others, EndSteps, CreateSteps
  <1>6. SweepsDoom'
    BY <1>a, <1>b, <1>c DEF SweepsDoom, CallBecomes, SweepSteps, daemon, others, EndSteps, CreateSteps
  <1>7. CreatedSoFar'
    BY <1>a, <1>b, <1>c DEF CreatedSoFar, CallBecomes, Labelled, daemon, others, EndSteps, CreateSteps
  <1>8. RunsOnNetwork'
    BY <1>a, <1>b, <1>c DEF RunsOnNetwork, CallBecomes, daemon, others, EndSteps, CreateSteps
  <1>9. ShotsAreSwept'
    BY <1>a, <1>b, <1>c DEF ShotsAreSwept, CallBecomes, daemon, others, SweepSteps, EndSteps, CreateSteps
  <1> QED BY <1>1, <1>2, <1>3, <1>4, <1>5, <1>6, <1>7, <1>8, <1>9

\* A sweep is over: the next sweep, or the primary.
LEMMA SweepEnds ==
  ASSUME DockerInv, NEW c \in Callers, ~Quiet(c), call[c].at \in {"sweep_attached", "sweep_net"}, NEW at \in {"sweep", "remove", "erase"}, at = "sweep" => call[c].aim = "abandon" /\ call'[c].aim = "remove", at = "remove" => call[c].aim \in {"abandon", "remove"}, at = "erase" => call[c].aim = "erase",
         CallBecomes(c, call[c].op, at),
         net' = FALSE, ~net \/ Labelled = {}, UNCHANGED <<plan, faults, drops, during, doomed, box, nets, side, shot>>
  PROVE  DockerInv'
  <1> USE DEF DockerInv
  <1>a. /\ call[c] \in CallRecords /\ CallShape(call[c]) /\ call[c].op # "none"
        /\ call[c].op = "create" => \A d \in Callers \ {c} : call[d].at \in EndSteps /\ call[d].op = "none"
        /\ call[c].op # "create" => \A d \in Callers : call[d].op # "create" /\ call[d].at \notin CreateSteps
    BY WhoElse
  <1>b. \/ call[c].op = "delete" /\ call[c].aim = "erase"
        \/ call[c].op = "create" /\ call[c].aim \in {"abandon", "remove"}
    BY <1>a, OpOfStep DEF CreateSteps, SweepSteps, LifecycleSteps, ShotSteps, EndSteps, StartSteps, StopSteps
  <1>c. doomed /\ Labelled = {} /\ Labelled' = {}
    BY DEF SweepsDoom, SweepSteps, ServicesArePlanned, Labelled
  <1>1. DockerTypeOK'
    BY <1>a, <1>b, <1>c DEF DockerTypeOK, CallBecomes, daemon, others, BoxStates, ServiceStates, ShotStates, CreateSteps
  <1>2. CallShapes'
    BY <1>a, <1>b, <1>c DEF DockerTypeOK, CallShapes, CallShape, CallBecomes, CreateSteps, SweepSteps, LifecycleSteps, ShotSteps, EndSteps, StartSteps, StopSteps
  <1>3. CreateAlone'
    BY <1>a, <1>b, <1>c DEF CreateAlone, CallBecomes, Quiet, EndSteps, CreateSteps
  <1>4. ServicesArePlanned'
    BY <1>a, <1>b, <1>c DEF ServicesArePlanned, CallBecomes, SweepSteps, Labelled, daemon, others, EndSteps, CreateSteps
  <1>5. PrimaryComesFirst'
    BY <1>a, <1>b, <1>c DEF PrimaryComesFirst, CallBecomes, daemon, others, EndSteps, CreateSteps
  <1>6. SweepsDoom'
    BY <1>a, <1>b, <1>c DEF SweepsDoom, CallBecomes, SweepSteps, daemon, others, EndSteps, CreateSteps
  <1>7. CreatedSoFar'
    BY <1>a, <1>b, <1>c DEF CreatedSoFar, CallBecomes, Labelled, daemon, others, EndSteps, CreateSteps
  <1>8. RunsOnNetwork'
    BY <1>a, <1>b, <1>c DEF RunsOnNetwork, CallBecomes, daemon, others, EndSteps, CreateSteps
  <1>9. ShotsAreSwept'
    BY <1>a, <1>b, <1>c DEF ShotsAreSwept, CallBecomes, daemon, others, SweepSteps, EndSteps, CreateSteps
  <1> QED BY <1>1, <1>2, <1>3, <1>4, <1>5, <1>6, <1>7, <1>8, <1>9

\* A delete finds its sandbox.
LEMMA DeleteFinds ==
  ASSUME DockerInv, NEW c \in Callers, ~Quiet(c), call[c].at = "inspect", call[c].op = "delete",
         CallBecomes(c, "delete", "shots"),
         call'[c].aim = call[c].aim, UNCHANGED <<plan, faults, drops, during, doomed, daemon>>
  PROVE  DockerInv'
  <1> USE DEF DockerInv
  <1>a. /\ call[c] \in CallRecords /\ CallShape(call[c]) /\ call[c].op # "none"
        /\ call[c].op = "create" => \A d \in Callers \ {c} : call[d].at \in EndSteps /\ call[d].op = "none"
        /\ call[c].op # "create" => \A d \in Callers : call[d].op # "create" /\ call[d].at \notin CreateSteps
    BY WhoElse
  <1>b. call[c].op = "delete"
    BY <1>a, OpOfStep DEF CreateSteps, SweepSteps, LifecycleSteps, ShotSteps, EndSteps, StartSteps, StopSteps
  <1>1. DockerTypeOK'
    BY <1>a, <1>b DEF DockerTypeOK, CallBecomes, daemon, others, BoxStates, ServiceStates, ShotStates, CreateSteps
  <1>2. CallShapes'
    BY <1>a, <1>b DEF DockerTypeOK, CallShapes, CallShape, CallBecomes, CreateSteps, SweepSteps, LifecycleSteps, ShotSteps, EndSteps, StartSteps, StopSteps
  <1>3. CreateAlone'
    BY <1>a, <1>b DEF CreateAlone, CallBecomes, Quiet, EndSteps, CreateSteps
  <1>4. ServicesArePlanned'
    BY <1>a, <1>b DEF ServicesArePlanned, CallBecomes, SweepSteps, Labelled, daemon, others, EndSteps, CreateSteps
  <1>5. PrimaryComesFirst'
    BY <1>a, <1>b DEF PrimaryComesFirst, CallBecomes, daemon, others, EndSteps, CreateSteps
  <1>6. SweepsDoom'
    BY <1>a, <1>b DEF SweepsDoom, CallBecomes, SweepSteps, daemon, others, EndSteps, CreateSteps
  <1>7. CreatedSoFar'
    BY <1>a, <1>b DEF CreatedSoFar, CallBecomes, Labelled, daemon, others, EndSteps, CreateSteps
  <1>8. RunsOnNetwork'
    BY <1>a, <1>b DEF RunsOnNetwork, CallBecomes, daemon, others, EndSteps, CreateSteps
  <1>9. ShotsAreSwept'
    BY <1>a, <1>b DEF ShotsAreSwept, CallBecomes, daemon, others, SweepSteps, EndSteps, CreateSteps
  <1> QED BY <1>1, <1>2, <1>3, <1>4, <1>5, <1>6, <1>7, <1>8, <1>9

\* A start finds its sandbox whole.
LEMMA StartFinds ==
  ASSUME DockerInv, NEW c \in Callers, ~Quiet(c), call[c].at = "inspect", call[c].op = "start", ~Incomplete, NEW at \in {"set_list", "await"},
         CallBecomes(c, "start", at),
         UNCHANGED <<plan, faults, drops, during, doomed, daemon>>
  PROVE  DockerInv'
  <1> USE DEF DockerInv
  <1>a. /\ call[c] \in CallRecords /\ CallShape(call[c]) /\ call[c].op # "none"
        /\ call[c].op = "create" => \A d \in Callers \ {c} : call[d].at \in EndSteps /\ call[d].op = "none"
        /\ call[c].op # "create" => \A d \in Callers : call[d].op # "create" /\ call[d].at \notin CreateSteps
    BY WhoElse
  <1>b. call[c].op = "start"
    BY <1>a, OpOfStep DEF CreateSteps, SweepSteps, LifecycleSteps, ShotSteps, EndSteps, StartSteps, StopSteps
  <1>1. DockerTypeOK'
    BY <1>a, <1>b DEF DockerTypeOK, CallBecomes, daemon, others, BoxStates, ServiceStates, ShotStates, CreateSteps
  <1>2. CallShapes'
    BY <1>a, <1>b DEF DockerTypeOK, CallShapes, CallShape, CallBecomes, CreateSteps, SweepSteps, LifecycleSteps, ShotSteps, EndSteps, StartSteps, StopSteps
  <1>3. CreateAlone'
    BY <1>a, <1>b DEF CreateAlone, CallBecomes, Quiet, EndSteps, CreateSteps
  <1>4. ServicesArePlanned'
    BY <1>a, <1>b DEF ServicesArePlanned, CallBecomes, SweepSteps, Labelled, daemon, others, EndSteps, CreateSteps
  <1>5. PrimaryComesFirst'
    BY <1>a, <1>b DEF PrimaryComesFirst, CallBecomes, daemon, others, EndSteps, CreateSteps
  <1>6. SweepsDoom'
    BY <1>a, <1>b DEF SweepsDoom, CallBecomes, SweepSteps, daemon, others, EndSteps, CreateSteps
  <1>7. CreatedSoFar'
    BY <1>a, <1>b DEF CreatedSoFar, CallBecomes, Labelled, daemon, others, EndSteps, CreateSteps
  <1>8. RunsOnNetwork'
    BY <1>a, <1>b DEF RunsOnNetwork, CallBecomes, daemon, others, EndSteps, CreateSteps, Incomplete
  <1>9. ShotsAreSwept'
    BY <1>a, <1>b DEF ShotsAreSwept, CallBecomes, daemon, others, SweepSteps, EndSteps, CreateSteps
  <1> QED BY <1>1, <1>2, <1>3, <1>4, <1>5, <1>6, <1>7, <1>8, <1>9

\* The services to start or stop are listed.
LEMMA ServicesListed ==
  ASSUME DockerInv, NEW c \in Callers, ~Quiet(c), call[c].at = "set_list",
         CallBecomes(c, call[c].op, "set_each"),
         call'[c].aim = call[c].aim, UNCHANGED <<plan, faults, drops, during, doomed, daemon>>
  PROVE  DockerInv'
  <1> USE DEF DockerInv
  <1>a. /\ call[c] \in CallRecords /\ CallShape(call[c]) /\ call[c].op # "none"
        /\ call[c].op = "create" => \A d \in Callers \ {c} : call[d].at \in EndSteps /\ call[d].op = "none"
        /\ call[c].op # "create" => \A d \in Callers : call[d].op # "create" /\ call[d].at \notin CreateSteps
    BY WhoElse
  <1>b. call[c].op \in {"start", "stop"}
    BY <1>a, OpOfStep DEF CreateSteps, SweepSteps, LifecycleSteps, ShotSteps, EndSteps, StartSteps, StopSteps
  <1>1. DockerTypeOK'
    BY <1>a, <1>b DEF DockerTypeOK, CallBecomes, daemon, others, BoxStates, ServiceStates, ShotStates, CreateSteps
  <1>2. CallShapes'
    BY <1>a, <1>b DEF DockerTypeOK, CallShapes, CallShape, CallBecomes, CreateSteps, SweepSteps, LifecycleSteps, ShotSteps, EndSteps, StartSteps, StopSteps
  <1>3. CreateAlone'
    BY <1>a, <1>b DEF CreateAlone, CallBecomes, Quiet, EndSteps, CreateSteps
  <1>4. ServicesArePlanned'
    BY <1>a, <1>b DEF ServicesArePlanned, CallBecomes, SweepSteps, Labelled, daemon, others, EndSteps, CreateSteps
  <1>5. PrimaryComesFirst'
    BY <1>a, <1>b DEF PrimaryComesFirst, CallBecomes, daemon, others, EndSteps, CreateSteps
  <1>6. SweepsDoom'
    BY <1>a, <1>b DEF SweepsDoom, CallBecomes, SweepSteps, daemon, others, EndSteps, CreateSteps
  <1>7. CreatedSoFar'
    BY <1>a, <1>b DEF CreatedSoFar, CallBecomes, Labelled, daemon, others, EndSteps, CreateSteps
  <1>8. RunsOnNetwork'
    BY <1>a, <1>b DEF RunsOnNetwork, CallBecomes, daemon, others, EndSteps, CreateSteps
  <1>9. ShotsAreSwept'
    BY <1>a, <1>b DEF ShotsAreSwept, CallBecomes, daemon, others, SweepSteps, EndSteps, CreateSteps
  <1> QED BY <1>1, <1>2, <1>3, <1>4, <1>5, <1>6, <1>7, <1>8, <1>9

\* A service is started or stopped.
LEMMA ServiceSet ==
  ASSUME DockerInv, NEW c \in Callers, ~Quiet(c), call[c].at = "set_each", side' \in [Sidecars -> ServiceStates], Labelled' = Labelled,
         CallBecomes(c, call[c].op, "set_each"),
         call'[c].aim = call[c].aim, UNCHANGED <<plan, faults, drops, during, doomed, box, nets, net, shot>>
  PROVE  DockerInv'
  <1> USE DEF DockerInv
  <1>a. /\ call[c] \in CallRecords /\ CallShape(call[c]) /\ call[c].op # "none"
        /\ call[c].op = "create" => \A d \in Callers \ {c} : call[d].at \in EndSteps /\ call[d].op = "none"
        /\ call[c].op # "create" => \A d \in Callers : call[d].op # "create" /\ call[d].at \notin CreateSteps
    BY WhoElse
  <1>b. call[c].op \in {"start", "stop"}
    BY <1>a, OpOfStep DEF CreateSteps, SweepSteps, LifecycleSteps, ShotSteps, EndSteps, StartSteps, StopSteps
  <1>1. DockerTypeOK'
    BY <1>a, <1>b DEF DockerTypeOK, CallBecomes, daemon, others, BoxStates, ServiceStates, ShotStates, CreateSteps
  <1>2. CallShapes'
    BY <1>a, <1>b DEF DockerTypeOK, CallShapes, CallShape, CallBecomes, CreateSteps, SweepSteps, LifecycleSteps, ShotSteps, EndSteps, StartSteps, StopSteps
  <1>3. CreateAlone'
    BY <1>a, <1>b DEF CreateAlone, CallBecomes, Quiet, EndSteps, CreateSteps
  <1>4. ServicesArePlanned'
    BY <1>a, <1>b DEF ServicesArePlanned, CallBecomes, SweepSteps
  <1>5. PrimaryComesFirst'
    BY <1>a, <1>b DEF PrimaryComesFirst, CallBecomes, daemon, others, EndSteps, CreateSteps
  <1>6. SweepsDoom'
    BY <1>a, <1>b DEF SweepsDoom, CallBecomes, SweepSteps, daemon, others, EndSteps, CreateSteps
  <1>7. CreatedSoFar'
    BY <1>a, <1>b DEF CreatedSoFar, CallBecomes, CreateSteps
  <1>8. RunsOnNetwork'
    BY <1>a, <1>b DEF RunsOnNetwork, CallBecomes, daemon, others, EndSteps, CreateSteps
  <1>9. ShotsAreSwept'
    BY <1>a, <1>b DEF ShotsAreSwept, CallBecomes, daemon, others, SweepSteps, EndSteps, CreateSteps
  <1> QED BY <1>1, <1>2, <1>3, <1>4, <1>5, <1>6, <1>7, <1>8, <1>9

\* The services are set; a start waits for their checks.
LEMMA StartWaits ==
  ASSUME DockerInv, NEW c \in Callers, ~Quiet(c), call[c].at \in {"set_each", "await"}, call[c].op = "start",
         CallBecomes(c, "start", "await"),
         call'[c].aim = call[c].aim, UNCHANGED <<plan, faults, drops, during, doomed, daemon>>
  PROVE  DockerInv'
  <1> USE DEF DockerInv
  <1>a. /\ call[c] \in CallRecords /\ CallShape(call[c]) /\ call[c].op # "none"
        /\ call[c].op = "create" => \A d \in Callers \ {c} : call[d].at \in EndSteps /\ call[d].op = "none"
        /\ call[c].op # "create" => \A d \in Callers : call[d].op # "create" /\ call[d].at \notin CreateSteps
    BY WhoElse
  <1>b. call[c].op = "start"
    BY <1>a, OpOfStep DEF CreateSteps, SweepSteps, LifecycleSteps, ShotSteps, EndSteps, StartSteps, StopSteps
  <1>1. DockerTypeOK'
    BY <1>a, <1>b DEF DockerTypeOK, CallBecomes, daemon, others, BoxStates, ServiceStates, ShotStates, CreateSteps
  <1>2. CallShapes'
    BY <1>a, <1>b DEF DockerTypeOK, CallShapes, CallShape, CallBecomes, CreateSteps, SweepSteps, LifecycleSteps, ShotSteps, EndSteps, StartSteps, StopSteps
  <1>3. CreateAlone'
    BY <1>a, <1>b DEF CreateAlone, CallBecomes, Quiet, EndSteps, CreateSteps
  <1>4. ServicesArePlanned'
    BY <1>a, <1>b DEF ServicesArePlanned, CallBecomes, SweepSteps, Labelled, daemon, others, EndSteps, CreateSteps
  <1>5. PrimaryComesFirst'
    BY <1>a, <1>b DEF PrimaryComesFirst, CallBecomes, daemon, others, EndSteps, CreateSteps
  <1>6. SweepsDoom'
    BY <1>a, <1>b DEF SweepsDoom, CallBecomes, SweepSteps, daemon, others, EndSteps, CreateSteps
  <1>7. CreatedSoFar'
    BY <1>a, <1>b DEF CreatedSoFar, CallBecomes, Labelled, daemon, others, EndSteps, CreateSteps
  <1>8. RunsOnNetwork'
    BY <1>a, <1>b DEF RunsOnNetwork, CallBecomes, daemon, others, EndSteps, CreateSteps
  <1>9. ShotsAreSwept'
    BY <1>a, <1>b DEF ShotsAreSwept, CallBecomes, daemon, others, SweepSteps, EndSteps, CreateSteps
  <1> QED BY <1>1, <1>2, <1>3, <1>4, <1>5, <1>6, <1>7, <1>8, <1>9

\* The checks passed: bring up the primary.
LEMMA ChecksPassed ==
  ASSUME DockerInv, NEW c \in Callers, ~Quiet(c), call[c].at = "await", NEW at \in {"unpause", "boot_box", "shots"},
         CallBecomes(c, "start", at),
         call'[c].aim = call[c].aim, UNCHANGED <<plan, faults, drops, during, doomed, daemon>>
  PROVE  DockerInv'
  <1> USE DEF DockerInv
  <1>a. /\ call[c] \in CallRecords /\ CallShape(call[c]) /\ call[c].op # "none"
        /\ call[c].op = "create" => \A d \in Callers \ {c} : call[d].at \in EndSteps /\ call[d].op = "none"
        /\ call[c].op # "create" => \A d \in Callers : call[d].op # "create" /\ call[d].at \notin CreateSteps
    BY WhoElse
  <1>b. call[c].op = "start"
    BY <1>a, OpOfStep DEF CreateSteps, SweepSteps, LifecycleSteps, ShotSteps, EndSteps, StartSteps, StopSteps
  <1>1. DockerTypeOK'
    BY <1>a, <1>b DEF DockerTypeOK, CallBecomes, daemon, others, BoxStates, ServiceStates, ShotStates, CreateSteps
  <1>2. CallShapes'
    BY <1>a, <1>b DEF DockerTypeOK, CallShapes, CallShape, CallBecomes, CreateSteps, SweepSteps, LifecycleSteps, ShotSteps, EndSteps, StartSteps, StopSteps
  <1>3. CreateAlone'
    BY <1>a, <1>b DEF CreateAlone, CallBecomes, Quiet, EndSteps, CreateSteps
  <1>4. ServicesArePlanned'
    BY <1>a, <1>b DEF ServicesArePlanned, CallBecomes, SweepSteps, Labelled, daemon, others, EndSteps, CreateSteps
  <1>5. PrimaryComesFirst'
    BY <1>a, <1>b DEF PrimaryComesFirst, CallBecomes, daemon, others, EndSteps, CreateSteps
  <1>6. SweepsDoom'
    BY <1>a, <1>b DEF SweepsDoom, CallBecomes, SweepSteps, daemon, others, EndSteps, CreateSteps
  <1>7. CreatedSoFar'
    BY <1>a, <1>b DEF CreatedSoFar, CallBecomes, Labelled, daemon, others, EndSteps, CreateSteps
  <1>8. RunsOnNetwork'
    BY <1>a, <1>b DEF RunsOnNetwork, CallBecomes, daemon, others, EndSteps, CreateSteps
  <1>9. ShotsAreSwept'
    BY <1>a, <1>b DEF ShotsAreSwept, CallBecomes, daemon, others, SweepSteps, EndSteps, CreateSteps
  <1> QED BY <1>1, <1>2, <1>3, <1>4, <1>5, <1>6, <1>7, <1>8, <1>9

\* The primary runs.
LEMMA BoxStarted ==
  ASSUME DockerInv, NEW c \in Callers, ~Quiet(c), call[c].at \in {"boot_box", "unpause"}, box \in BoxStates \ {"absent"}, box' \in {"running", box}, call[c].at = "unpause" => box = "paused",
         CallBecomes(c, "none", "done"),
         UNCHANGED <<plan, faults, drops, during, doomed, nets, net, side, shot>>
  PROVE  DockerInv'
  <1> USE DEF DockerInv
  <1>a. /\ call[c] \in CallRecords /\ CallShape(call[c]) /\ call[c].op # "none"
        /\ call[c].op = "create" => \A d \in Callers \ {c} : call[d].at \in EndSteps /\ call[d].op = "none"
        /\ call[c].op # "create" => \A d \in Callers : call[d].op # "create" /\ call[d].at \notin CreateSteps
    BY WhoElse
  <1>b. call[c].op \in {"start", "resume"} /\ (call[c].at = "boot_box" => call[c].op = "start")
    BY <1>a, OpOfStep DEF CreateSteps, SweepSteps, LifecycleSteps, ShotSteps, EndSteps, StartSteps, StopSteps
  <1>1. DockerTypeOK'
    BY <1>a, <1>b DEF DockerTypeOK, CallBecomes, daemon, others, BoxStates, ServiceStates, ShotStates, CreateSteps
  <1>2. CallShapes'
    BY <1>a, <1>b DEF DockerTypeOK, CallShapes, CallShape, CallBecomes, CreateSteps, SweepSteps, LifecycleSteps, ShotSteps, EndSteps, StartSteps, StopSteps
  <1>3. CreateAlone'
    BY <1>a, <1>b DEF CreateAlone, CallBecomes, Quiet, EndSteps, CreateSteps
  <1>4. ServicesArePlanned'
    BY <1>a, <1>b DEF ServicesArePlanned, CallBecomes, SweepSteps, Labelled, daemon, others, EndSteps, CreateSteps
  <1>5. PrimaryComesFirst'
    BY <1>a, <1>b DEF PrimaryComesFirst, CallBecomes, daemon, others, EndSteps, CreateSteps
  <1>6. SweepsDoom'
    BY <1>a, <1>b DEF SweepsDoom, CallBecomes, SweepSteps, daemon, others, EndSteps, CreateSteps
  <1>7. CreatedSoFar'
    BY <1>a, <1>b DEF CreatedSoFar, CallBecomes, Labelled, daemon, others, EndSteps, CreateSteps
  <1>8. RunsOnNetwork'
    BY <1>a, <1>b DEF RunsOnNetwork, CallBecomes, daemon, others, EndSteps, CreateSteps
  <1>9. ShotsAreSwept'
    BY <1>a, <1>b DEF ShotsAreSwept, CallBecomes, daemon, others, SweepSteps, EndSteps, CreateSteps
  <1> QED BY <1>1, <1>2, <1>3, <1>4, <1>5, <1>6, <1>7, <1>8, <1>9

\* The primary is paused.
LEMMA BoxPaused ==
  ASSUME DockerInv, NEW c \in Callers, ~Quiet(c), call[c].at = "freeze", box = "running", box' = "paused",
         CallBecomes(c, "none", "done"),
         UNCHANGED <<plan, faults, drops, during, doomed, nets, net, side, shot>>
  PROVE  DockerInv'
  <1> USE DEF DockerInv
  <1>a. /\ call[c] \in CallRecords /\ CallShape(call[c]) /\ call[c].op # "none"
        /\ call[c].op = "create" => \A d \in Callers \ {c} : call[d].at \in EndSteps /\ call[d].op = "none"
        /\ call[c].op # "create" => \A d \in Callers : call[d].op # "create" /\ call[d].at \notin CreateSteps
    BY WhoElse
  <1>b. call[c].op = "pause"
    BY <1>a, OpOfStep DEF CreateSteps, SweepSteps, LifecycleSteps, ShotSteps, EndSteps, StartSteps, StopSteps
  <1>1. DockerTypeOK'
    BY <1>a, <1>b DEF DockerTypeOK, CallBecomes, daemon, others, BoxStates, ServiceStates, ShotStates, CreateSteps
  <1>2. CallShapes'
    BY <1>a, <1>b DEF DockerTypeOK, CallShapes, CallShape, CallBecomes, CreateSteps, SweepSteps, LifecycleSteps, ShotSteps, EndSteps, StartSteps, StopSteps
  <1>3. CreateAlone'
    BY <1>a, <1>b DEF CreateAlone, CallBecomes, Quiet, EndSteps, CreateSteps
  <1>4. ServicesArePlanned'
    BY <1>a, <1>b DEF ServicesArePlanned, CallBecomes, SweepSteps, Labelled, daemon, others, EndSteps, CreateSteps
  <1>5. PrimaryComesFirst'
    BY <1>a, <1>b DEF PrimaryComesFirst, CallBecomes, daemon, others, EndSteps, CreateSteps
  <1>6. SweepsDoom'
    BY <1>a, <1>b DEF SweepsDoom, CallBecomes, SweepSteps, daemon, others, EndSteps, CreateSteps
  <1>7. CreatedSoFar'
    BY <1>a, <1>b DEF CreatedSoFar, CallBecomes, Labelled, daemon, others, EndSteps, CreateSteps
  <1>8. RunsOnNetwork'
    BY <1>a, <1>b DEF RunsOnNetwork, CallBecomes, daemon, others, EndSteps, CreateSteps
  <1>9. ShotsAreSwept'
    BY <1>a, <1>b DEF ShotsAreSwept, CallBecomes, daemon, others, SweepSteps, EndSteps, CreateSteps
  <1> QED BY <1>1, <1>2, <1>3, <1>4, <1>5, <1>6, <1>7, <1>8, <1>9

\* The primary is stopped.
LEMMA BoxStopped ==
  ASSUME DockerInv, NEW c \in Callers, ~Quiet(c), call[c].at = "halt", box' = IF box \in {"running", "paused"} THEN "exited" ELSE box,
         CallBecomes(c, "stop", "set_list"),
         call'[c].aim = call[c].aim, UNCHANGED <<plan, faults, drops, during, doomed, nets, net, side, shot>>
  PROVE  DockerInv'
  <1> USE DEF DockerInv
  <1>a. /\ call[c] \in CallRecords /\ CallShape(call[c]) /\ call[c].op # "none"
        /\ call[c].op = "create" => \A d \in Callers \ {c} : call[d].at \in EndSteps /\ call[d].op = "none"
        /\ call[c].op # "create" => \A d \in Callers : call[d].op # "create" /\ call[d].at \notin CreateSteps
    BY WhoElse
  <1>b. call[c].op = "stop"
    BY <1>a, OpOfStep DEF CreateSteps, SweepSteps, LifecycleSteps, ShotSteps, EndSteps, StartSteps, StopSteps
  <1>1. DockerTypeOK'
    BY <1>a, <1>b DEF DockerTypeOK, CallBecomes, daemon, others, BoxStates, ServiceStates, ShotStates, CreateSteps
  <1>2. CallShapes'
    BY <1>a, <1>b DEF DockerTypeOK, CallShapes, CallShape, CallBecomes, CreateSteps, SweepSteps, LifecycleSteps, ShotSteps, EndSteps, StartSteps, StopSteps
  <1>3. CreateAlone'
    BY <1>a, <1>b DEF CreateAlone, CallBecomes, Quiet, EndSteps, CreateSteps
  <1>4. ServicesArePlanned'
    BY <1>a, <1>b DEF ServicesArePlanned, CallBecomes, SweepSteps, Labelled, daemon, others, EndSteps, CreateSteps
  <1>5. PrimaryComesFirst'
    BY <1>a, <1>b DEF PrimaryComesFirst, CallBecomes, daemon, others, EndSteps, CreateSteps
  <1>6. SweepsDoom'
    BY <1>a, <1>b DEF SweepsDoom, CallBecomes, SweepSteps, daemon, others, EndSteps, CreateSteps
  <1>7. CreatedSoFar'
    BY <1>a, <1>b DEF CreatedSoFar, CallBecomes, Labelled, daemon, others, EndSteps, CreateSteps
  <1>8. RunsOnNetwork'
    BY <1>a, <1>b DEF RunsOnNetwork, CallBecomes, daemon, others, EndSteps, CreateSteps
  <1>9. ShotsAreSwept'
    BY <1>a, <1>b DEF ShotsAreSwept, CallBecomes, daemon, others, SweepSteps, EndSteps, CreateSteps
  <1> QED BY <1>1, <1>2, <1>3, <1>4, <1>5, <1>6, <1>7, <1>8, <1>9

\* The primary is stopped and has no services.
LEMMA BoxStoppedAlone ==
  ASSUME DockerInv, NEW c \in Callers, ~Quiet(c), call[c].at = "halt", box' = IF box \in {"running", "paused"} THEN "exited" ELSE box,
         CallBecomes(c, "none", "done"),
         UNCHANGED <<plan, faults, drops, during, doomed, nets, net, side, shot>>
  PROVE  DockerInv'
  <1> USE DEF DockerInv
  <1>a. /\ call[c] \in CallRecords /\ CallShape(call[c]) /\ call[c].op # "none"
        /\ call[c].op = "create" => \A d \in Callers \ {c} : call[d].at \in EndSteps /\ call[d].op = "none"
        /\ call[c].op # "create" => \A d \in Callers : call[d].op # "create" /\ call[d].at \notin CreateSteps
    BY WhoElse
  <1>b. call[c].op = "stop"
    BY <1>a, OpOfStep DEF CreateSteps, SweepSteps, LifecycleSteps, ShotSteps, EndSteps, StartSteps, StopSteps
  <1>1. DockerTypeOK'
    BY <1>a, <1>b DEF DockerTypeOK, CallBecomes, daemon, others, BoxStates, ServiceStates, ShotStates, CreateSteps
  <1>2. CallShapes'
    BY <1>a, <1>b DEF DockerTypeOK, CallShapes, CallShape, CallBecomes, CreateSteps, SweepSteps, LifecycleSteps, ShotSteps, EndSteps, StartSteps, StopSteps
  <1>3. CreateAlone'
    BY <1>a, <1>b DEF CreateAlone, CallBecomes, Quiet, EndSteps, CreateSteps
  <1>4. ServicesArePlanned'
    BY <1>a, <1>b DEF ServicesArePlanned, CallBecomes, SweepSteps, Labelled, daemon, others, EndSteps, CreateSteps
  <1>5. PrimaryComesFirst'
    BY <1>a, <1>b DEF PrimaryComesFirst, CallBecomes, daemon, others, EndSteps, CreateSteps
  <1>6. SweepsDoom'
    BY <1>a, <1>b DEF SweepsDoom, CallBecomes, SweepSteps, daemon, others, EndSteps, CreateSteps
  <1>7. CreatedSoFar'
    BY <1>a, <1>b DEF CreatedSoFar, CallBecomes, Labelled, daemon, others, EndSteps, CreateSteps
  <1>8. RunsOnNetwork'
    BY <1>a, <1>b DEF RunsOnNetwork, CallBecomes, daemon, others, EndSteps, CreateSteps
  <1>9. ShotsAreSwept'
    BY <1>a, <1>b DEF ShotsAreSwept, CallBecomes, daemon, others, SweepSteps, EndSteps, CreateSteps
  <1> QED BY <1>1, <1>2, <1>3, <1>4, <1>5, <1>6, <1>7, <1>8, <1>9

\* The one-shots are gone; a start, stop or delete goes on.
LEMMA ShotsSwept ==
  ASSUME DockerInv, NEW c \in Callers, ~Quiet(c), call[c].at \in {"shots", "shots_each"}, NEW at \in {"boot_box", "halt", "sweep", "erase"}, at = "boot_box" => call[c].op = "start", at = "halt" => call[c].op = "stop", at = "sweep" => call[c].op = "delete" /\ plan.services /\ call'[c].aim = "erase", at = "erase" => call[c].op = "delete" /\ ~plan.services,
         CallBecomes(c, call[c].op, at),
         shot' = "absent", during' \subseteq Callers, UNCHANGED <<plan, faults, drops, doomed, box, nets, net, side>>
  PROVE  DockerInv'
  <1> USE DEF DockerInv
  <1>a. /\ call[c] \in CallRecords /\ CallShape(call[c]) /\ call[c].op # "none"
        /\ call[c].op = "create" => \A d \in Callers \ {c} : call[d].at \in EndSteps /\ call[d].op = "none"
        /\ call[c].op # "create" => \A d \in Callers : call[d].op # "create" /\ call[d].at \notin CreateSteps
    BY WhoElse
  <1>b. call[c].op \in {"start", "stop", "delete"}
    BY <1>a, OpOfStep DEF CreateSteps, SweepSteps, LifecycleSteps, ShotSteps, EndSteps, StartSteps, StopSteps
  <1>1. DockerTypeOK'
    BY <1>a, <1>b DEF DockerTypeOK, CallBecomes, daemon, others, BoxStates, ServiceStates, ShotStates, CreateSteps
  <1>2. CallShapes'
    BY <1>a, <1>b DEF DockerTypeOK, CallShapes, CallShape, CallBecomes, CreateSteps, SweepSteps, LifecycleSteps, ShotSteps, EndSteps, StartSteps, StopSteps
  <1>3. CreateAlone'
    BY <1>a, <1>b DEF CreateAlone, CallBecomes, Quiet, EndSteps, CreateSteps
  <1>4. ServicesArePlanned'
    BY <1>a, <1>b DEF ServicesArePlanned, CallBecomes, SweepSteps, Labelled, daemon, others, EndSteps, CreateSteps
  <1>5. PrimaryComesFirst'
    BY <1>a, <1>b DEF PrimaryComesFirst, CallBecomes, daemon, others, EndSteps, CreateSteps, ServicesArePlanned
  <1>6. SweepsDoom'
    BY <1>a, <1>b DEF SweepsDoom, CallBecomes, SweepSteps, daemon, others, EndSteps, CreateSteps
  <1>7. CreatedSoFar'
    BY <1>a, <1>b DEF CreatedSoFar, CallBecomes, Labelled, daemon, others, EndSteps, CreateSteps
  <1>8. RunsOnNetwork'
    BY <1>a, <1>b DEF RunsOnNetwork, CallBecomes, daemon, others, EndSteps, CreateSteps
  <1>9. ShotsAreSwept'
    BY <1>a, <1>b DEF ShotsAreSwept, CallBecomes, daemon, others, SweepSteps, EndSteps, CreateSteps
  <1> QED BY <1>1, <1>2, <1>3, <1>4, <1>5, <1>6, <1>7, <1>8, <1>9

\* There are one-shots to remove.
LEMMA ShotsFound ==
  ASSUME DockerInv, NEW c \in Callers, ~Quiet(c), call[c].at = "shots",
         CallBecomes(c, call[c].op, "shots_each"),
         call'[c].aim = call[c].aim, UNCHANGED <<plan, faults, drops, during, doomed, daemon>>
  PROVE  DockerInv'
  <1> USE DEF DockerInv
  <1>a. /\ call[c] \in CallRecords /\ CallShape(call[c]) /\ call[c].op # "none"
        /\ call[c].op = "create" => \A d \in Callers \ {c} : call[d].at \in EndSteps /\ call[d].op = "none"
        /\ call[c].op # "create" => \A d \in Callers : call[d].op # "create" /\ call[d].at \notin CreateSteps
    BY WhoElse
  <1>b. call[c].op \in {"start", "stop", "delete"}
    BY <1>a, OpOfStep DEF CreateSteps, SweepSteps, LifecycleSteps, ShotSteps, EndSteps, StartSteps, StopSteps
  <1>1. DockerTypeOK'
    BY <1>a, <1>b DEF DockerTypeOK, CallBecomes, daemon, others, BoxStates, ServiceStates, ShotStates, CreateSteps
  <1>2. CallShapes'
    BY <1>a, <1>b DEF DockerTypeOK, CallShapes, CallShape, CallBecomes, CreateSteps, SweepSteps, LifecycleSteps, ShotSteps, EndSteps, StartSteps, StopSteps
  <1>3. CreateAlone'
    BY <1>a, <1>b DEF CreateAlone, CallBecomes, Quiet, EndSteps, CreateSteps
  <1>4. ServicesArePlanned'
    BY <1>a, <1>b DEF ServicesArePlanned, CallBecomes, SweepSteps, Labelled, daemon, others, EndSteps, CreateSteps
  <1>5. PrimaryComesFirst'
    BY <1>a, <1>b DEF PrimaryComesFirst, CallBecomes, daemon, others, EndSteps, CreateSteps
  <1>6. SweepsDoom'
    BY <1>a, <1>b DEF SweepsDoom, CallBecomes, SweepSteps, daemon, others, EndSteps, CreateSteps
  <1>7. CreatedSoFar'
    BY <1>a, <1>b DEF CreatedSoFar, CallBecomes, Labelled, daemon, others, EndSteps, CreateSteps
  <1>8. RunsOnNetwork'
    BY <1>a, <1>b DEF RunsOnNetwork, CallBecomes, daemon, others, EndSteps, CreateSteps
  <1>9. ShotsAreSwept'
    BY <1>a, <1>b DEF ShotsAreSwept, CallBecomes, daemon, others, SweepSteps, EndSteps, CreateSteps
  <1> QED BY <1>1, <1>2, <1>3, <1>4, <1>5, <1>6, <1>7, <1>8, <1>9

\* A delete removes the primary.
LEMMA BoxErased ==
  ASSUME DockerInv, NEW c \in Callers, ~Quiet(c), call[c].at = "erase", box' = "absent", nets' = {},
         CallBecomes(c, "none", "done"),
         UNCHANGED <<plan, faults, drops, during, doomed, net, side, shot>>
  PROVE  DockerInv'
  <1> USE DEF DockerInv
  <1>a. /\ call[c] \in CallRecords /\ CallShape(call[c]) /\ call[c].op # "none"
        /\ call[c].op = "create" => \A d \in Callers \ {c} : call[d].at \in EndSteps /\ call[d].op = "none"
        /\ call[c].op # "create" => \A d \in Callers : call[d].op # "create" /\ call[d].at \notin CreateSteps
    BY WhoElse
  <1>b. call[c].op = "delete"
    BY <1>a, OpOfStep DEF CreateSteps, SweepSteps, LifecycleSteps, ShotSteps, EndSteps, StartSteps, StopSteps
  <1>1. DockerTypeOK'
    BY <1>a, <1>b DEF DockerTypeOK, CallBecomes, daemon, others, BoxStates, ServiceStates, ShotStates, CreateSteps
  <1>2. CallShapes'
    BY <1>a, <1>b DEF DockerTypeOK, CallShapes, CallShape, CallBecomes, CreateSteps, SweepSteps, LifecycleSteps, ShotSteps, EndSteps, StartSteps, StopSteps
  <1>3. CreateAlone'
    BY <1>a, <1>b DEF CreateAlone, CallBecomes, Quiet, EndSteps, CreateSteps
  <1>4. ServicesArePlanned'
    BY <1>a, <1>b DEF ServicesArePlanned, CallBecomes, SweepSteps, Labelled, daemon, others, EndSteps, CreateSteps
  <1>5. PrimaryComesFirst'
    BY <1>a, <1>b DEF PrimaryComesFirst, CallBecomes, daemon, others, EndSteps, CreateSteps
  <1>6. SweepsDoom'
    BY <1>a, <1>b DEF SweepsDoom, CallBecomes, SweepSteps, daemon, others, EndSteps, CreateSteps
  <1>7. CreatedSoFar'
    BY <1>a, <1>b DEF CreatedSoFar, CallBecomes, Labelled, daemon, others, EndSteps, CreateSteps
  <1>8. RunsOnNetwork'
    BY <1>a, <1>b DEF RunsOnNetwork, CallBecomes, daemon, others, EndSteps, CreateSteps, SweepsDoom
  <1>9. ShotsAreSwept'
    BY <1>a, <1>b DEF ShotsAreSwept, CallBecomes, daemon, others, SweepSteps, EndSteps, CreateSteps
  <1> QED BY <1>1, <1>2, <1>3, <1>4, <1>5, <1>6, <1>7, <1>8, <1>9

\* A one-shot goes on.
LEMMA ShotGoesOn ==
  ASSUME DockerInv, NEW c \in Callers, ~Quiet(c), call[c].at \in ShotSteps, NEW at \in ShotSteps, shot' \in ShotStates, shot = "absent" => shot' = "absent",
         CallBecomes(c, "one_shot", at),
         UNCHANGED <<plan, faults, drops, during, doomed, box, nets, net, side>>
  PROVE  DockerInv'
  <1> USE DEF DockerInv
  <1>a. /\ call[c] \in CallRecords /\ CallShape(call[c]) /\ call[c].op # "none"
        /\ call[c].op = "create" => \A d \in Callers \ {c} : call[d].at \in EndSteps /\ call[d].op = "none"
        /\ call[c].op # "create" => \A d \in Callers : call[d].op # "create" /\ call[d].at \notin CreateSteps
    BY WhoElse
  <1>b. call[c].op = "one_shot"
    BY <1>a, OpOfStep DEF CreateSteps, SweepSteps, LifecycleSteps, ShotSteps, EndSteps, StartSteps, StopSteps
  <1>1. DockerTypeOK'
    BY <1>a, <1>b DEF DockerTypeOK, CallBecomes, daemon, others, BoxStates, ServiceStates, ShotStates, CreateSteps, ShotSteps
  <1>2. CallShapes'
    BY <1>a, <1>b DEF DockerTypeOK, CallShapes, CallShape, CallBecomes, CreateSteps, SweepSteps, LifecycleSteps, ShotSteps, EndSteps, StartSteps, StopSteps
  <1>3. CreateAlone'
    BY <1>a, <1>b DEF CreateAlone, CallBecomes, Quiet, EndSteps, CreateSteps, ShotSteps
  <1>4. ServicesArePlanned'
    BY <1>a, <1>b DEF ServicesArePlanned, CallBecomes, SweepSteps, Labelled, daemon, others, EndSteps, CreateSteps, ShotSteps
  <1>5. PrimaryComesFirst'
    BY <1>a, <1>b DEF PrimaryComesFirst, CallBecomes, daemon, others, EndSteps, CreateSteps, ShotSteps
  <1>6. SweepsDoom'
    BY <1>a, <1>b DEF SweepsDoom, CallBecomes, SweepSteps, daemon, others, EndSteps, CreateSteps, ShotSteps
  <1>7. CreatedSoFar'
    BY <1>a, <1>b DEF CreatedSoFar, CallBecomes, Labelled, daemon, others, EndSteps, CreateSteps, ShotSteps
  <1>8. RunsOnNetwork'
    BY <1>a, <1>b DEF RunsOnNetwork, CallBecomes, daemon, others, EndSteps, CreateSteps, ShotSteps
  <1>9. ShotsAreSwept'
    BY <1>a, <1>b DEF ShotsAreSwept, CallBecomes, daemon, others, SweepSteps, EndSteps, CreateSteps, ShotSteps
  <1> QED BY <1>1, <1>2, <1>3, <1>4, <1>5, <1>6, <1>7, <1>8, <1>9

\* A one-shot is created beside its primary.
LEMMA ShotCreated ==
  ASSUME DockerInv, NEW c \in Callers, ~Quiet(c), call[c].at = "shot_create", box # "absent", shot' = "created", during' = {d \in Callers : call[d].op \in {"stop", "delete"}},
         CallBecomes(c, "one_shot", "shot_attach"),
         UNCHANGED <<plan, faults, drops, doomed, box, nets, net, side>>
  PROVE  DockerInv'
  <1> USE DEF DockerInv
  <1>a. /\ call[c] \in CallRecords /\ CallShape(call[c]) /\ call[c].op # "none"
        /\ call[c].op = "create" => \A d \in Callers \ {c} : call[d].at \in EndSteps /\ call[d].op = "none"
        /\ call[c].op # "create" => \A d \in Callers : call[d].op # "create" /\ call[d].at \notin CreateSteps
    BY WhoElse
  <1>b. call[c].op = "one_shot"
    BY <1>a, OpOfStep DEF CreateSteps, SweepSteps, LifecycleSteps, ShotSteps, EndSteps, StartSteps, StopSteps
  <1>1. DockerTypeOK'
    BY <1>a, <1>b DEF DockerTypeOK, CallBecomes, daemon, others, BoxStates, ServiceStates, ShotStates, CreateSteps
  <1>2. CallShapes'
    BY <1>a, <1>b DEF DockerTypeOK, CallShapes, CallShape, CallBecomes, CreateSteps, SweepSteps, LifecycleSteps, ShotSteps, EndSteps, StartSteps, StopSteps
  <1>3. CreateAlone'
    BY <1>a, <1>b DEF CreateAlone, CallBecomes, Quiet, EndSteps, CreateSteps
  <1>4. ServicesArePlanned'
    BY <1>a, <1>b DEF ServicesArePlanned, CallBecomes, SweepSteps, Labelled, daemon, others, EndSteps, CreateSteps
  <1>5. PrimaryComesFirst'
    BY <1>a, <1>b DEF PrimaryComesFirst, CallBecomes, daemon, others, EndSteps, CreateSteps
  <1>6. SweepsDoom'
    BY <1>a, <1>b DEF SweepsDoom, CallBecomes, SweepSteps, daemon, others, EndSteps, CreateSteps
  <1>7. CreatedSoFar'
    BY <1>a, <1>b DEF CreatedSoFar, CallBecomes, Labelled, daemon, others, EndSteps, CreateSteps
  <1>8. RunsOnNetwork'
    BY <1>a, <1>b DEF RunsOnNetwork, CallBecomes, daemon, others, EndSteps, CreateSteps
  <1>9. ShotsAreSwept'
    BY <1>a, <1>b DEF ShotsAreSwept, CallBecomes, daemon, others, SweepSteps, EndSteps, CreateSteps
  <1> QED BY <1>1, <1>2, <1>3, <1>4, <1>5, <1>6, <1>7, <1>8, <1>9

\* A one-shot is removed.
LEMMA ShotRemoved ==
  ASSUME DockerInv, NEW c \in Callers, ~Quiet(c), call[c].at = "shot_remove", shot' = "absent", during' = {},
         CallBecomes(c, "none", "done"),
         UNCHANGED <<plan, faults, drops, doomed, box, nets, net, side>>
  PROVE  DockerInv'
  <1> USE DEF DockerInv
  <1>a. /\ call[c] \in CallRecords /\ CallShape(call[c]) /\ call[c].op # "none"
        /\ call[c].op = "create" => \A d \in Callers \ {c} : call[d].at \in EndSteps /\ call[d].op = "none"
        /\ call[c].op # "create" => \A d \in Callers : call[d].op # "create" /\ call[d].at \notin CreateSteps
    BY WhoElse
  <1>b. call[c].op = "one_shot"
    BY <1>a, OpOfStep DEF CreateSteps, SweepSteps, LifecycleSteps, ShotSteps, EndSteps, StartSteps, StopSteps
  <1>1. DockerTypeOK'
    BY <1>a, <1>b DEF DockerTypeOK, CallBecomes, daemon, others, BoxStates, ServiceStates, ShotStates, CreateSteps
  <1>2. CallShapes'
    BY <1>a, <1>b DEF DockerTypeOK, CallShapes, CallShape, CallBecomes, CreateSteps, SweepSteps, LifecycleSteps, ShotSteps, EndSteps, StartSteps, StopSteps
  <1>3. CreateAlone'
    BY <1>a, <1>b DEF CreateAlone, CallBecomes, Quiet, EndSteps, CreateSteps
  <1>4. ServicesArePlanned'
    BY <1>a, <1>b DEF ServicesArePlanned, CallBecomes, SweepSteps, Labelled, daemon, others, EndSteps, CreateSteps
  <1>5. PrimaryComesFirst'
    BY <1>a, <1>b DEF PrimaryComesFirst, CallBecomes, daemon, others, EndSteps, CreateSteps
  <1>6. SweepsDoom'
    BY <1>a, <1>b DEF SweepsDoom, CallBecomes, SweepSteps, daemon, others, EndSteps, CreateSteps
  <1>7. CreatedSoFar'
    BY <1>a, <1>b DEF CreatedSoFar, CallBecomes, Labelled, daemon, others, EndSteps, CreateSteps
  <1>8. RunsOnNetwork'
    BY <1>a, <1>b DEF RunsOnNetwork, CallBecomes, daemon, others, EndSteps, CreateSteps
  <1>9. ShotsAreSwept'
    BY <1>a, <1>b DEF ShotsAreSwept, CallBecomes, daemon, others, SweepSteps, EndSteps, CreateSteps
  <1> QED BY <1>1, <1>2, <1>3, <1>4, <1>5, <1>6, <1>7, <1>8, <1>9

\* The image is there.
LEMMA EnsureImageKeeps ==
  ASSUME DockerInv, NEW c \in Callers, EnsureImage(c)
  PROVE  DockerInv'
  <1>0. DockerTypeOK
    BY DEF DockerInv
  <1>1. ~Quiet(c) /\ call[c].at = "image"
    BY DEF EnsureImage, At, Quiet, EndSteps
  <1>2. call[c].op = "create"
    BY <1>0, <1>1, OpOfStep DEF DockerInv, DockerTypeOK, CallShapes, CreateSteps, ShotSteps
  <1>3. CallBecomes(c, call[c].op, "primary") /\ call'[c].aim = call[c].aim
    BY <1>0, GoesTo DEF EnsureImage, Proceed, DockerSteps, CreateSteps
  <1> QED BY <1>1, <1>2, <1>3, ImageThere DEF EnsureImage, Proceed

\* The primary is created, or created without an answer.
LEMMA CreatePrimaryKeeps ==
  ASSUME DockerInv, NEW c \in Callers, CreatePrimary(c)
  PROVE  DockerInv'
  <1>0. DockerTypeOK
    BY DEF DockerInv
  <1>1. ~Quiet(c) /\ call[c].at = "primary"
    BY DEF CreatePrimary, At, Quiet, EndSteps
  <1>2. call[c].op = "create"
    BY <1>0, <1>1, OpOfStep DEF DockerInv, DockerTypeOK, CallShapes, CreateSteps, ShotSteps
  <1>3. CASE Proceed(c, To(c, IF plan.services THEN "network" ELSE "launch"))
    <2> DEFINE at == IF plan.services THEN "network" ELSE "launch"
    <2>1. at \in {"network", "launch"} /\ at \in DockerSteps /\ (at = "network" <=> plan.services)
      BY DEF DockerSteps, CreateSteps
    <2>2. call' = [call EXCEPT ![c] = To(c, at)]
      BY <1>3 DEF Proceed
    <2> HIDE DEF at
    <2>3. CallBecomes(c, call[c].op, at)
      BY <1>0, <2>1, <2>2, GoesTo
    <2>4. CallBecomes(c, "create", at)
      BY <1>2, <2>3
    <2> QED BY <1>1, <1>3, <2>1, <2>4, PrimaryThere DEF CreatePrimary, Proceed
  <1>4. CASE faults < MaxFaults /\ faults' = faults + 1 /\ call' = [call EXCEPT ![c] = Ended("failed")]
             /\ UNCHANGED <<plan, drops, during, doomed>>
    <2>1. CallBecomes(c, "none", "failed")
      BY <1>0, <1>4, Ends DEF EndSteps
    <2>2. faults' \in 0..MaxFaults
      BY <1>0, <1>4, DockerBoundsAssumption DEF DockerTypeOK
    <2> QED BY <1>1, <1>4, <2>1, <2>2, PrimaryUnknown DEF CreatePrimary
  <1> QED BY <1>3, <1>4 DEF CreatePrimary

\* The network is created.
LEMMA CreateNetworkKeeps ==
  ASSUME DockerInv, NEW c \in Callers, CreateNetwork(c)
  PROVE  DockerInv'
  <1>0. DockerTypeOK
    BY DEF DockerInv
  <1>1. ~Quiet(c) /\ call[c].at = "network"
    BY DEF CreateNetwork, At, Quiet, EndSteps
  <1>2. call[c].op = "create"
    BY <1>0, <1>1, OpOfStep DEF DockerInv, DockerTypeOK, CallShapes, CreateSteps, ShotSteps
  <1>3. CASE net
    BY <1>0, <1>1, <1>3, ErrorKeepsDocker DEF CreateNetwork, Errs, Proceed, DockerTypeOK
  <1>4. CASE ~net
    <2>1. CallBecomes(c, call[c].op, "service") /\ call'[c].left = Sidecars
      BY <1>0, <1>4, Visits DEF CreateNetwork, Proceed, DockerSteps, CreateSteps, SweepSteps, LifecycleSteps, ShotSteps, EndSteps
    <2> QED BY <1>1, <1>2, <1>4, <2>1, NetworkThere DEF CreateNetwork, Proceed
  <1> QED BY <1>3, <1>4

\* A service is created.
LEMMA CreateServiceKeeps ==
  ASSUME DockerInv, NEW c \in Callers, CreateService(c)
  PROVE  DockerInv'
  <1>0. DockerTypeOK
    BY DEF DockerInv
  <1>1. ~Quiet(c) /\ call[c].at = "service"
    BY DEF CreateService, At, Quiet, EndSteps
  <1>2. call[c].op = "create"
    BY <1>0, <1>1, OpOfStep DEF DockerInv, DockerTypeOK, CallShapes, CreateSteps, ShotSteps
  <1>3. PICK s \in call[c].left :
           IF side[s] # "absent" \/ ~net
           THEN Errs(c)
           ELSE /\ side' = [side EXCEPT ![s] = "created"]
                /\ Proceed(c, To(c, "boot"))
                /\ UNCHANGED <<box, nets, net, shot>>
    BY DEF CreateService
  <1>4. CASE side[s] # "absent" \/ ~net
    BY <1>0, <1>1, <1>3, <1>4, ErrorKeepsDocker DEF Errs, Proceed, DockerTypeOK
  <1>5. CASE ~(side[s] # "absent" \/ ~net)
    <2>1. CallBecomes(c, call[c].op, "boot") /\ call'[c].left = call[c].left
      BY <1>0, <1>3, <1>5, GoesTo DEF Proceed, DockerSteps, CreateSteps
    <2> QED BY <1>1, <1>2, <1>3, <1>5, <2>1, ServiceThere DEF Proceed
  <1> QED BY <1>4, <1>5

\* A service is started.
LEMMA BootServiceKeeps ==
  ASSUME DockerInv, NEW c \in Callers, BootService(c)
  PROVE  DockerInv'
  <1>0. DockerTypeOK
    BY DEF DockerInv
  <1>1. ~Quiet(c) /\ call[c].at = "boot"
    BY DEF BootService, At, Quiet, EndSteps
  <1>2. call[c].op = "create"
    BY <1>0, <1>1, OpOfStep DEF DockerInv, DockerTypeOK, CallShapes, CreateSteps, ShotSteps
  <1> DEFINE go(s) == LET left == call[c].left \ {s}
                      IN IF left = {} THEN Visit(c, "health", Watched) ELSE Visit(c, "service", left)
  <1>3. PICK s \in call[c].left :
           side[s] = "created" /\ side' = [side EXCEPT ![s] = "up"] /\ Proceed(c, go(s))
    BY DEF BootService
  <1>4. UNCHANGED <<plan, faults, drops, during, doomed, box, nets, net, shot>> /\ call' = [call EXCEPT ![c] = go(s)]
    BY <1>3 DEF BootService, Proceed
  <1>5. call[c].left \subseteq Sidecars
    BY <1>0 DEF DockerTypeOK, CallRecords
  <1>6. CASE call[c].left \ {s} = {}
    <2>1. call' = [call EXCEPT ![c] = Visit(c, "health", Watched)]
      BY <1>4, <1>6
    <2>2. CallBecomes(c, call[c].op, "health")
      BY <1>0, <2>1, Visits, SidecarsAssumption DEF DockerSteps, CreateSteps
    <2>3. call[c].left = {s}
      BY <1>6
    <2> HIDE DEF go
    <2> QED BY <1>1, <1>2, <1>3, <1>4, <2>2, <2>3, ServiceUp
  <1>7. CASE call[c].left \ {s} # {}
    <2>1. call' = [call EXCEPT ![c] = Visit(c, "service", call[c].left \ {s})]
      BY <1>4, <1>7
    <2>2. CallBecomes(c, call[c].op, "service") /\ call'[c].left = call[c].left \ {s}
      <3>1. call[c].left \ {s} \in SUBSET Sidecars /\ "service" \in DockerSteps
        BY <1>5 DEF DockerSteps, CreateSteps
      <3> HIDE DEF go
      <3> QED BY <1>0, <2>1, <3>1, Visits
    <2> HIDE DEF go
    <2> QED BY <1>1, <1>2, <1>3, <1>4, <2>2, ServiceUp
  <1> QED BY <1>6, <1>7

\* The health of the services.
LEMMA AwaitHealthKeeps ==
  ASSUME DockerInv, NEW c \in Callers, AwaitHealth(c)
  PROVE  DockerInv'
  <1>0. DockerTypeOK
    BY DEF DockerInv
  <1>1. ~Quiet(c) /\ call[c].at = "health"
    BY DEF AwaitHealth, At, Quiet, EndSteps
  <1>2. call[c].op = "create"
    BY <1>0, <1>1, OpOfStep DEF DockerInv, DockerTypeOK, CallShapes, CreateSteps, ShotSteps
  <1>3. CASE call[c].left = {} /\ Proceed(c, To(c, "detach")) /\ UNCHANGED daemon
    <2>1. CallBecomes(c, call[c].op, "detach") /\ call'[c].aim = call[c].aim
      BY <1>0, <1>3, GoesTo DEF Proceed, DockerSteps, CreateSteps
    <2> QED BY <1>1, <1>2, <1>3, <2>1, ServicesHealthy DEF Proceed
  <1>4. ASSUME NEW s \in call[c].left, Proceed(c, Visit(c, call[c].at, call[c].left \ {s})), UNCHANGED daemon
        PROVE  DockerInv'
    <2>0. call[c].left \ {s} \subseteq Sidecars /\ call[c].at \in DockerSteps
      BY <1>0 DEF DockerTypeOK, CallRecords, DockerSteps
    <2>1. CallBecomes(c, call[c].op, call[c].at) /\ call'[c].aim = call[c].aim
      BY <1>0, <1>4, <2>0, Visits DEF Proceed
    <2> QED BY <1>1, <1>2, <1>4, <2>1, ServicesHealthy DEF Proceed
  <1>5. CASE Errs(c)
    BY <1>0, <1>1, <1>5, ErrorKeepsDocker DEF Errs, Proceed, DockerTypeOK
  <1> QED BY <1>3, <1>4, <1>5 DEF AwaitHealth, HealthVerdict

\* The primary leaves its isolation.
LEMMA LeaveNoneKeeps ==
  ASSUME DockerInv, NEW c \in Callers, LeaveNone(c)
  PROVE  DockerInv'
  <1>0. DockerTypeOK
    BY DEF DockerInv
  <1>1. ~Quiet(c) /\ call[c].at = "detach"
    BY DEF LeaveNone, At, Quiet, EndSteps
  <1>2. call[c].op = "create"
    BY <1>0, <1>1, OpOfStep DEF DockerInv, DockerTypeOK, CallShapes, CreateSteps, ShotSteps
  <1>3. CASE box = "absent"
    BY <1>0, <1>1, <1>3, ErrorKeepsDocker DEF LeaveNone, Errs, Proceed, DockerTypeOK
  <1>4. CASE box # "absent"
    <2>1. CallBecomes(c, call[c].op, "connect")
      BY <1>0, <1>4, GoesTo DEF LeaveNone, Proceed, DockerSteps, CreateSteps, SweepSteps, LifecycleSteps, ShotSteps, EndSteps
    <2> QED BY <1>1, <1>2, <1>4, <2>1, NoneLeft DEF LeaveNone, Proceed
  <1> QED BY <1>3, <1>4

\* The primary joins the network.
LEMMA ConnectKeeps ==
  ASSUME DockerInv, NEW c \in Callers, Connect(c)
  PROVE  DockerInv'
  <1>0. DockerTypeOK
    BY DEF DockerInv
  <1>1. ~Quiet(c) /\ call[c].at = "connect"
    BY DEF Connect, At, Quiet, EndSteps
  <1>2. call[c].op = "create"
    BY <1>0, <1>1, OpOfStep DEF DockerInv, DockerTypeOK, CallShapes, CreateSteps, ShotSteps
  <1>3. CASE box = "absent" \/ ~net
    BY <1>0, <1>1, <1>3, ErrorKeepsDocker DEF Connect, Errs, Proceed, DockerTypeOK
  <1>4. CASE ~(box = "absent" \/ ~net)
    <2>1. CallBecomes(c, call[c].op, "launch")
      BY <1>0, <1>4, GoesTo DEF Connect, Proceed, DockerSteps, CreateSteps, SweepSteps, LifecycleSteps, ShotSteps, EndSteps
    <2> QED BY <1>1, <1>2, <1>4, <2>1, Connected DEF Connect, Proceed
  <1> QED BY <1>3, <1>4

\* The primary is started.
LEMMA LaunchKeeps ==
  ASSUME DockerInv, NEW c \in Callers, Launch(c)
  PROVE  DockerInv'
  <1>0. DockerTypeOK
    BY DEF DockerInv
  <1>1. ~Quiet(c) /\ call[c].at = "launch"
    BY DEF Launch, At, Quiet, EndSteps
  <1>2. call[c].op = "create"
    BY <1>0, <1>1, OpOfStep DEF DockerInv, DockerTypeOK, CallShapes, CreateSteps, ShotSteps
  <1>3. CASE box = "absent"
    BY <1>0, <1>1, <1>3, ErrorKeepsDocker DEF Launch, Errs, Proceed, DockerTypeOK
  <1>4. CASE box # "absent"
    <2>1. CallBecomes(c, call[c].op, "verify")
      BY <1>0, <1>4, GoesTo DEF Launch, Proceed, DockerSteps, CreateSteps, SweepSteps, LifecycleSteps, ShotSteps, EndSteps
    <2> QED BY <1>1, <1>2, <1>4, <2>1, Launched DEF Launch, Proceed
  <1> QED BY <1>3, <1>4

\* The primary runs, or create fails.
LEMMA VerifyRunningKeeps ==
  ASSUME DockerInv, NEW c \in Callers, VerifyRunning(c)
  PROVE  DockerInv'
  <1>0. DockerTypeOK
    BY DEF DockerInv
  <1>1. ~Quiet(c) /\ call[c].at = "verify"
    BY DEF VerifyRunning, At, Quiet, EndSteps
  <1>2. call[c].op = "create"
    BY <1>0, <1>1, OpOfStep DEF DockerInv, DockerTypeOK, CallShapes, CreateSteps, ShotSteps
  <1>3. CASE box # "running"
    BY <1>0, <1>1, <1>3, ErrorKeepsDocker DEF VerifyRunning, Errs, Proceed, DockerTypeOK
  <1>4. CASE box = "running"
    BY <1>0, <1>4, EndKeepsDocker DEF VerifyRunning, Proceed, DockerTypeOK, EndSteps
  <1> QED BY <1>3, <1>4

\* A failed create removes its primary.
LEMMA RemoveFailedKeeps ==
  ASSUME DockerInv, NEW c \in Callers, RemoveFailed(c)
  PROVE  DockerInv'
  <1>0. DockerTypeOK
    BY DEF DockerInv
  <1>1. ~Quiet(c) /\ call[c].at = "remove"
    BY DEF RemoveFailed, At, Quiet, EndSteps
  <1>2. call[c].op = "create"
    BY <1>0, <1>1, OpOfStep DEF DockerInv, DockerTypeOK, CallShapes, CreateSteps, ShotSteps
  <1>3. CallBecomes(c, "none", "failed")
    BY <1>0, Ends DEF RemoveFailed, Proceed, EndSteps
  <1> QED BY <1>1, <1>2, <1>3, FailedRemoved DEF RemoveFailed, Proceed

\* A sweep begins.
LEMMA SweepListKeeps ==
  ASSUME DockerInv, NEW c \in Callers, SweepList(c)
  PROVE  DockerInv'
  <1>0. DockerTypeOK
    BY DEF DockerInv
  <1>1. ~Quiet(c) /\ call[c].at = "sweep"
    BY DEF SweepList, At, Quiet, EndSteps
  <1>2. \/ call[c].op = "delete" /\ call[c].aim = "erase"
        \/ call[c].op = "create" /\ call[c].aim \in {"abandon", "remove"}
    BY <1>0, <1>1, OpOfStep DEF DockerInv, DockerTypeOK, CallShapes, SweepSteps
  <1>3. CallBecomes(c, call[c].op, "sweep_each") /\ call'[c].aim = call[c].aim
    <2>1. Labelled \in SUBSET Sidecars /\ "sweep_each" \in DockerSteps
      BY DEF Labelled, DockerSteps, SweepSteps
    <2> QED BY <1>0, <2>1, Visits DEF SweepList
  <1> QED BY <1>1, <1>3, SweepListed DEF SweepList

\* A sweep removes a service, or has removed them.
LEMMA SweepEachKeeps ==
  ASSUME DockerInv, NEW c \in Callers, SweepEach(c)
  PROVE  DockerInv'
  <1>0. DockerTypeOK
    BY DEF DockerInv
  <1>1. ~Quiet(c) /\ call[c].at = "sweep_each"
    BY DEF SweepEach, At, Quiet, EndSteps
  <1>2. \/ call[c].op = "delete" /\ call[c].aim = "erase"
        \/ call[c].op = "create" /\ call[c].aim \in {"abandon", "remove"}
    BY <1>0, <1>1, OpOfStep DEF DockerInv, DockerTypeOK, CallShapes, SweepSteps
  <1>3. ASSUME NEW s \in call[c].left, side' = [side EXCEPT ![s] = "absent"],
               Proceed(c, Visit(c, "sweep_each", call[c].left \ {s})), UNCHANGED <<box, nets, net, shot>>
        PROVE  DockerInv'
    <2>1. s \in Sidecars /\ call[c].left \ {s} \in SUBSET Sidecars /\ "sweep_each" \in DockerSteps
      BY <1>0 DEF DockerTypeOK, CallRecords, DockerSteps, SweepSteps
    <2>2. CallBecomes(c, call[c].op, "sweep_each") /\ call'[c].aim = call[c].aim
      BY <1>0, <1>3, <2>1, Visits DEF Proceed
    <2> QED BY <1>1, <1>3, <2>1, <2>2, ServiceSwept DEF Proceed
  <1>4. CASE Proceed(c, To(c, IF call[c].aim = "abandon" THEN "sweep_net" ELSE "sweep_attached")) /\ UNCHANGED daemon
    <2> DEFINE at == IF call[c].aim = "abandon" THEN "sweep_net" ELSE "sweep_attached"
    <2>1. at \in {"sweep_attached", "sweep_detach", "sweep_net"} /\ at \in DockerSteps
      BY DEF DockerSteps, SweepSteps
    <2>2. call' = [call EXCEPT ![c] = To(c, at)]
      BY <1>4 DEF Proceed
    <2> HIDE DEF at
    <2>3. CallBecomes(c, call[c].op, at) /\ call'[c].aim = call[c].aim
      BY <1>0, <2>1, <2>2, GoesTo
    <2> QED BY <1>1, <1>4, <2>1, <2>3, SweepGoesOn DEF Proceed
  <1> QED BY <1>3, <1>4 DEF SweepEach

\* What follows a sweep.
LEMMA SweepIsDone ==
  ASSUME DockerInv, NEW c \in Callers, call[c].at \in {"sweep_attached", "sweep_net"}, Proceed(c, SweepDone(c)),
         net' = FALSE, ~net \/ Labelled = {}, UNCHANGED <<box, nets, side, shot>>
  PROVE  DockerInv'
  <1>0. DockerTypeOK /\ ~Quiet(c) /\ call[c] \in CallRecords
    BY DEF DockerInv, DockerTypeOK, Quiet, EndSteps
  <1>1. \/ call[c].op = "delete" /\ call[c].aim = "erase"
        \/ call[c].op = "create" /\ call[c].aim \in {"abandon", "remove"}
    BY <1>0, OpOfStep DEF DockerInv, CallShapes, SweepSteps
  <1>2. CASE call[c].aim = "abandon" /\ plan.services
    <2>1. call' = [call EXCEPT ![c] = AimTo(call[c], "sweep", "remove")]
      BY <1>2 DEF Proceed, SweepDone, Abandon, AimTo
    <2>2. CallBecomes(c, call[c].op, "sweep") /\ call'[c].aim = "remove"
      BY <1>0, <2>1, Aims DEF DockerSteps, SweepSteps
    <2> QED BY <1>0, <1>2, <2>2, SweepEnds DEF Proceed
  <1>3. CASE call[c].aim = "remove" \/ (call[c].aim = "abandon" /\ ~plan.services)
    <2>1. call' = [call EXCEPT ![c] = To(c, "remove")]
      BY <1>3 DEF Proceed, SweepDone, Abandon, To
    <2>2. CallBecomes(c, call[c].op, "remove")
      BY <1>0, <2>1, GoesTo DEF DockerSteps, CreateSteps
    <2> QED BY <1>0, <1>3, <2>2, SweepEnds DEF Proceed
  <1>4. CASE call[c].aim = "erase"
    <2>1. call' = [call EXCEPT ![c] = To(c, "erase")]
      BY <1>4 DEF Proceed, SweepDone
    <2>2. CallBecomes(c, call[c].op, "erase")
      BY <1>0, <2>1, GoesTo DEF DockerSteps, LifecycleSteps
    <2> QED BY <1>0, <1>4, <2>2, SweepEnds DEF Proceed
  <1> QED BY <1>1, <1>2, <1>3, <1>4

\* A sweep asks who is on the network.
LEMMA SweepAttachedKeeps ==
  ASSUME DockerInv, NEW c \in Callers, SweepAttached(c)
  PROVE  DockerInv'
  <1>0. DockerTypeOK
    BY DEF DockerInv
  <1>1. ~Quiet(c) /\ call[c].at = "sweep_attached"
    BY DEF SweepAttached, At, Quiet, EndSteps
  <1>2. \/ call[c].op = "delete" /\ call[c].aim = "erase"
        \/ call[c].op = "create" /\ call[c].aim \in {"abandon", "remove"}
    BY <1>0, <1>1, OpOfStep DEF DockerInv, DockerTypeOK, CallShapes, SweepSteps
  <1>3. CASE ~net
    <2>1. Proceed(c, SweepDone(c)) /\ net' = FALSE /\ UNCHANGED <<box, nets, side, shot>>
      BY <1>0, <1>3 DEF SweepAttached, daemon, DockerTypeOK
    <2> QED BY <1>1, <1>3, <2>1, SweepIsDone
  <1>4. CASE net
    <2> DEFINE at == IF "services" \in nets THEN "sweep_detach" ELSE "sweep_net"
    <2>1. at \in {"sweep_attached", "sweep_detach", "sweep_net"} /\ at \in DockerSteps
      BY DEF DockerSteps, SweepSteps
    <2>2. call' = [call EXCEPT ![c] = To(c, at)] /\ UNCHANGED <<plan, faults, drops, during, doomed, daemon>>
      BY <1>4 DEF SweepAttached, Proceed
    <2> HIDE DEF at
    <2>3. CallBecomes(c, call[c].op, at) /\ call'[c].aim = call[c].aim
      BY <1>0, <2>1, <2>2, GoesTo
    <2> QED BY <1>1, <2>1, <2>2, <2>3, SweepGoesOn
  <1> QED BY <1>3, <1>4

\* A sweep takes the primary off the network.
LEMMA SweepDetachKeeps ==
  ASSUME DockerInv, NEW c \in Callers, SweepDetach(c)
  PROVE  DockerInv'
  <1>0. DockerTypeOK
    BY DEF DockerInv
  <1>1. ~Quiet(c) /\ call[c].at = "sweep_detach"
    BY DEF SweepDetach, At, Quiet, EndSteps
  <1>3. CallBecomes(c, call[c].op, "sweep_net") /\ call'[c].aim = call[c].aim
    BY <1>0, GoesTo DEF SweepDetach, Proceed, DockerSteps, SweepSteps
  <1> QED BY <1>1, <1>3, SweepDetached DEF SweepDetach, Proceed

\* A sweep removes the network.
LEMMA SweepNetworkKeeps ==
  ASSUME DockerInv, NEW c \in Callers, SweepNetwork(c)
  PROVE  DockerInv'
  <1>0. DockerTypeOK
    BY DEF DockerInv
  <1>1. ~Quiet(c) /\ call[c].at = "sweep_net"
    BY DEF SweepNetwork, At, Quiet, EndSteps
  <1>3. CASE net /\ (Labelled # {} \/ "services" \in nets)
    BY <1>0, <1>1, <1>3, ErrorKeepsDocker DEF SweepNetwork, Errs, Proceed, DockerTypeOK
  <1>4. CASE ~(net /\ (Labelled # {} \/ "services" \in nets))
    <2>1. Proceed(c, SweepDone(c)) /\ net' = FALSE /\ UNCHANGED <<box, nets, side, shot>>
      BY <1>4 DEF SweepNetwork
    <2> QED BY <1>1, <1>4, <2>1, SweepIsDone
  <1> QED BY <1>3, <1>4

\* A start or a delete looks at its sandbox.
LEMMA InspectKeeps ==
  ASSUME DockerInv, NEW c \in Callers, Inspect(c)
  PROVE  DockerInv'
  <1>0. DockerTypeOK
    BY DEF DockerInv
  <1>1. ~Quiet(c) /\ call[c].at = "inspect"
    BY DEF Inspect, At, Quiet, EndSteps
  <1>2. call[c].op \in {"start", "delete"}
    BY <1>0, <1>1, OpOfStep DEF DockerInv, DockerTypeOK, CallShapes, SweepSteps
  <1>3. CASE call[c].op = "delete" /\ box = "absent"
    <2>1. Proceed(c, Ended("done")) /\ UNCHANGED daemon
      BY <1>3 DEF Inspect
    <2> QED BY <1>0, <2>1, EndKeepsDocker DEF Proceed, DockerTypeOK, EndSteps
  <1>4. CASE call[c].op = "delete" /\ box # "absent"
    <2>1. Proceed(c, To(c, "shots")) /\ UNCHANGED daemon
      BY <1>4 DEF Inspect
    <2>2. CallBecomes(c, call[c].op, "shots") /\ call'[c].aim = call[c].aim
      BY <1>0, <2>1, GoesTo DEF Proceed, DockerSteps, LifecycleSteps
    <2> QED BY <1>1, <1>4, <2>1, <2>2, DeleteFinds DEF Proceed
  <1>5. CASE call[c].op = "start" /\ (box = "absent" \/ Incomplete)
    <2>1. Errs(c)
      BY <1>5 DEF Inspect
    <2> QED BY <1>0, <1>1, <2>1, ErrorKeepsDocker DEF Errs, Proceed, DockerTypeOK
  <1>6. CASE call[c].op = "start" /\ ~(box = "absent" \/ Incomplete)
    <2> DEFINE at == IF plan.services THEN "set_list" ELSE "await"
    <2>1. at \in {"set_list", "await"} /\ at \in DockerSteps /\ box \in BoxStates
      BY <1>0 DEF DockerSteps, LifecycleSteps, DockerTypeOK
    <2>2. call' = [call EXCEPT ![c] = SeenTo(call[c], at, box)] /\ UNCHANGED <<plan, faults, drops, during, doomed, daemon>>
      BY <1>6 DEF Inspect, Proceed, SeenTo
    <2> HIDE DEF at
    <2>3. CallBecomes(c, call[c].op, at)
      BY <1>0, <2>1, <2>2, Sees
    <2> QED BY <1>1, <1>6, <2>1, <2>2, <2>3, StartFinds
  <1> QED BY <1>2, <1>3, <1>4, <1>5, <1>6

\* The services are listed.
LEMMA ListServicesKeeps ==
  ASSUME DockerInv, NEW c \in Callers, ListServices(c)
  PROVE  DockerInv'
  <1>0. DockerTypeOK
    BY DEF DockerInv
  <1>1. ~Quiet(c) /\ call[c].at = "set_list"
    BY DEF ListServices, At, Quiet, EndSteps
  <1>3. CallBecomes(c, call[c].op, "set_each") /\ call'[c].aim = call[c].aim
    <2>1. Labelled \in SUBSET Sidecars /\ "set_each" \in DockerSteps
      BY DEF Labelled, DockerSteps, LifecycleSteps
    <2> QED BY <1>0, <2>1, Visits DEF ListServices, Proceed
  <1> QED BY <1>1, <1>3, ServicesListed DEF ListServices, Proceed

\* A service is set, or all are.
LEMMA SetServiceKeeps ==
  ASSUME DockerInv, NEW c \in Callers, SetService(c)
  PROVE  DockerInv'
  <1>0. DockerTypeOK
    BY DEF DockerInv
  <1>1. ~Quiet(c) /\ call[c].at = "set_each"
    BY DEF SetService, At, Quiet, EndSteps
  <1>2. call[c].op \in {"start", "stop"}
    BY <1>0, <1>1, OpOfStep DEF DockerInv, DockerTypeOK, CallShapes, SweepSteps
  <1>3. CASE /\ call[c].left = {}
             /\ IF call[c].op = "start" THEN Proceed(c, Visit(c, "await", Labelled)) ELSE Proceed(c, Ended("done"))
             /\ UNCHANGED daemon
    <2>1. CASE call[c].op = "start"
      <3>1. Labelled \in SUBSET Sidecars /\ "await" \in DockerSteps
        BY DEF Labelled, DockerSteps, LifecycleSteps
      <3>2. CallBecomes(c, call[c].op, "await") /\ call'[c].aim = call[c].aim
        BY <1>0, <1>3, <2>1, <3>1, Visits DEF Proceed
      <3> QED BY <1>1, <1>3, <2>1, <3>2, StartWaits DEF Proceed
    <2>2. CASE call[c].op # "start"
      BY <1>0, <1>3, <2>2, EndKeepsDocker DEF Proceed, DockerTypeOK, EndSteps
    <2> QED BY <2>1, <2>2
  <1>4. ASSUME NEW s \in call[c].left, call[c].op = "start" /\ side[s] = "absent", Errs(c)
        PROVE  DockerInv'
    BY <1>0, <1>1, <1>4, ErrorKeepsDocker DEF Errs, Proceed, DockerTypeOK
  <1>5. ASSUME NEW s \in call[c].left, NEW to,
               to = IF side[s] = "absent" THEN "absent"
                    ELSE IF call[c].op = "stop" THEN "exited"
                    ELSE IF side[s] \in {"created", "exited"} THEN "up" ELSE side[s],
               side' = [side EXCEPT ![s] = to],
               Proceed(c, Visit(c, "set_each", call[c].left \ {s})), UNCHANGED <<box, nets, net, shot>>
        PROVE  DockerInv'
    <2>1. s \in Sidecars /\ call[c].left \ {s} \in SUBSET Sidecars /\ "set_each" \in DockerSteps
      BY <1>0 DEF DockerTypeOK, CallRecords, DockerSteps, LifecycleSteps
    <2>2. CallBecomes(c, call[c].op, "set_each") /\ call'[c].aim = call[c].aim
      BY <1>0, <1>5, <2>1, Visits DEF Proceed
    <2>3. to \in ServiceStates /\ (to = "absent" <=> side[s] = "absent")
      BY <1>0, <1>2, <1>5, <2>1 DEF DockerTypeOK, ServiceStates
    <2>4. side' \in [Sidecars -> ServiceStates] /\ Labelled' = Labelled
      BY <1>0, <1>5, <2>1, <2>3 DEF DockerTypeOK, Labelled
    <2> QED BY <1>1, <1>5, <2>2, <2>4, ServiceSet DEF Proceed
  <1> QED BY <1>3, <1>4, <1>5 DEF SetService

\* A start waits for its services.
LEMMA AwaitServicesKeeps ==
  ASSUME DockerInv, NEW c \in Callers, AwaitServices(c)
  PROVE  DockerInv'
  <1>0. DockerTypeOK
    BY DEF DockerInv
  <1>1. ~Quiet(c) /\ call[c].at = "await"
    BY DEF AwaitServices, At, Quiet, EndSteps
  <1>2. call[c].op = "start"
    BY <1>0, <1>1, OpOfStep DEF DockerInv, DockerTypeOK, CallShapes
  <1> DEFINE at == CASE call[c].seen = "paused" -> "unpause"
                     [] call[c].seen = "running" -> "boot_box"
                     [] OTHER -> "shots"
  <1>3. at \in {"unpause", "boot_box", "shots"} /\ at \in DockerSteps
    BY DEF DockerSteps, LifecycleSteps
  <1>4. HealthVerdict(c, To(c, at))
    BY DEF AwaitServices
  <1> HIDE DEF at
  <1>5. CASE call[c].left = {} /\ Proceed(c, To(c, at)) /\ UNCHANGED daemon
    <2>1. CallBecomes(c, call[c].op, at) /\ call'[c].aim = call[c].aim
      BY <1>0, <1>3, <1>5, GoesTo DEF Proceed
    <2> QED BY <1>1, <1>2, <1>3, <1>5, <2>1, ChecksPassed DEF Proceed
  <1>6. ASSUME NEW s \in call[c].left, Proceed(c, Visit(c, call[c].at, call[c].left \ {s})), UNCHANGED daemon
        PROVE  DockerInv'
    <2>0. call[c].left \ {s} \subseteq Sidecars /\ call[c].at \in DockerSteps
      BY <1>0 DEF DockerTypeOK, CallRecords, DockerSteps
    <2>1. CallBecomes(c, call[c].op, call[c].at) /\ call'[c].aim = call[c].aim
      BY <1>0, <1>6, <2>0, Visits DEF Proceed
    <2> QED BY <1>1, <1>2, <1>6, <2>1, StartWaits DEF Proceed
  <1>7. CASE Errs(c)
    BY <1>0, <1>1, <1>7, ErrorKeepsDocker DEF Errs, Proceed, DockerTypeOK
  <1> QED BY <1>4, <1>5, <1>6, <1>7 DEF HealthVerdict

\* The primary is started.
LEMMA StartBoxKeeps ==
  ASSUME DockerInv, NEW c \in Callers, StartBox(c)
  PROVE  DockerInv'
  <1>0. DockerTypeOK
    BY DEF DockerInv
  <1>1. ~Quiet(c) /\ call[c].at = "boot_box"
    BY DEF StartBox, At, Quiet, EndSteps
  <1>3. CASE box = "absent"
    BY <1>0, <1>1, <1>3, ErrorKeepsDocker DEF StartBox, Errs, Proceed, DockerTypeOK
  <1>4. CASE box # "absent"
    <2>1. CallBecomes(c, "none", "done")
      BY <1>0, <1>4, Ends DEF StartBox, Proceed, EndSteps
    <2> QED BY <1>0, <1>1, <1>4, <2>1, BoxStarted DEF StartBox, Proceed, DockerTypeOK
  <1> QED BY <1>3, <1>4

\* The primary is unpaused.
LEMMA UnpauseKeeps ==
  ASSUME DockerInv, NEW c \in Callers, Unpause(c)
  PROVE  DockerInv'
  <1>0. DockerTypeOK
    BY DEF DockerInv
  <1>1. ~Quiet(c) /\ call[c].at = "unpause"
    BY DEF Unpause, At, Quiet, EndSteps
  <1>3. CASE box # "paused"
    BY <1>0, <1>1, <1>3, ErrorKeepsDocker DEF Unpause, Errs, Proceed, DockerTypeOK
  <1>4. CASE box = "paused"
    <2>1. CallBecomes(c, "none", "done")
      BY <1>0, <1>4, Ends DEF Unpause, Proceed, EndSteps
    <2> QED BY <1>0, <1>1, <1>4, <2>1, BoxStarted DEF Unpause, Proceed, DockerTypeOK
  <1> QED BY <1>3, <1>4

\* The primary is paused.
LEMMA PauseKeeps ==
  ASSUME DockerInv, NEW c \in Callers, Pause(c)
  PROVE  DockerInv'
  <1>0. DockerTypeOK
    BY DEF DockerInv
  <1>1. ~Quiet(c) /\ call[c].at = "freeze"
    BY DEF Pause, At, Quiet, EndSteps
  <1>3. CASE box # "running"
    BY <1>0, <1>1, <1>3, ErrorKeepsDocker DEF Pause, Errs, Proceed, DockerTypeOK
  <1>4. CASE box = "running"
    <2>1. CallBecomes(c, "none", "done")
      BY <1>0, <1>4, Ends DEF Pause, Proceed, EndSteps
    <2> QED BY <1>0, <1>1, <1>4, <2>1, BoxPaused DEF Pause, Proceed
  <1> QED BY <1>3, <1>4

\* The primary is stopped.
LEMMA StopBoxKeeps ==
  ASSUME DockerInv, NEW c \in Callers, StopBox(c)
  PROVE  DockerInv'
  <1>0. DockerTypeOK
    BY DEF DockerInv
  <1>1. ~Quiet(c) /\ call[c].at = "halt"
    BY DEF StopBox, At, Quiet, EndSteps
  <1>2. call[c].op = "stop"
    BY <1>0, <1>1, OpOfStep DEF DockerInv, DockerTypeOK, CallShapes
  <1>3. CASE plan.services
    <2>1. CallBecomes(c, call[c].op, "set_list") /\ call'[c].aim = call[c].aim
      BY <1>0, <1>3, GoesTo DEF StopBox, Proceed, DockerSteps, LifecycleSteps
    <2> QED BY <1>1, <1>2, <2>1, BoxStopped DEF StopBox, Proceed
  <1>4. CASE ~plan.services
    <2>1. CallBecomes(c, "none", "done")
      BY <1>0, <1>4, Ends DEF StopBox, Proceed, EndSteps
    <2> QED BY <1>0, <1>1, <1>4, <2>1, BoxStoppedAlone DEF StopBox, Proceed
  <1> QED BY <1>3, <1>4

\* What follows the sweep of the one-shots.
LEMMA AfterShotsKeeps ==
  ASSUME DockerInv, NEW c \in Callers, call[c].at \in {"shots", "shots_each"},
         call' = [call EXCEPT ![c] = AfterShots(c)], shot' = "absent", during' \subseteq Callers,
         UNCHANGED <<plan, faults, drops, doomed, box, nets, net, side>>
  PROVE  DockerInv'
  <1>0. DockerTypeOK /\ ~Quiet(c) /\ call[c] \in CallRecords
    BY DEF DockerInv, DockerTypeOK, Quiet, EndSteps
  <1>1. call[c].op \in {"start", "stop", "delete"}
    BY <1>0, OpOfStep DEF DockerInv, CallShapes
  <1>2. CASE call[c].op = "start"
    <2>1. call' = [call EXCEPT ![c] = To(c, "boot_box")]
      BY <1>2 DEF AfterShots
    <2>2. CallBecomes(c, call[c].op, "boot_box")
      BY <1>0, <2>1, GoesTo DEF DockerSteps, LifecycleSteps
    <2> QED BY <1>0, <1>2, <2>2, ShotsSwept
  <1>3. CASE call[c].op = "stop"
    <2>1. call' = [call EXCEPT ![c] = To(c, "halt")]
      BY <1>3 DEF AfterShots
    <2>2. CallBecomes(c, call[c].op, "halt")
      BY <1>0, <2>1, GoesTo DEF DockerSteps, LifecycleSteps
    <2> QED BY <1>0, <1>3, <2>2, ShotsSwept
  <1>4. CASE call[c].op = "delete" /\ plan.services
    <2>1. call' = [call EXCEPT ![c] = AimTo(call[c], "sweep", "erase")]
      BY <1>4 DEF AfterShots, AimTo
    <2>2. CallBecomes(c, call[c].op, "sweep") /\ call'[c].aim = "erase"
      BY <1>0, <2>1, Aims DEF DockerSteps, SweepSteps
    <2> QED BY <1>0, <1>4, <2>2, ShotsSwept
  <1>5. CASE call[c].op = "delete" /\ ~plan.services
    <2>1. call' = [call EXCEPT ![c] = To(c, "erase")]
      BY <1>5 DEF AfterShots
    <2>2. CallBecomes(c, call[c].op, "erase")
      BY <1>0, <2>1, GoesTo DEF DockerSteps, LifecycleSteps
    <2> QED BY <1>0, <1>5, <2>2, ShotsSwept
  <1> QED BY <1>1, <1>2, <1>3, <1>4, <1>5

\* The one-shots are listed.
LEMMA ListShotsKeeps ==
  ASSUME DockerInv, NEW c \in Callers, ListShots(c)
  PROVE  DockerInv'
  <1>0. DockerTypeOK
    BY DEF DockerInv
  <1>1. ~Quiet(c) /\ call[c].at = "shots"
    BY DEF ListShots, At, Quiet, EndSteps
  <1>3. CASE shot = "absent"
    BY <1>0, <1>1, <1>3, AfterShotsKeeps DEF ListShots, Proceed, daemon, DockerTypeOK
  <1>4. CASE shot # "absent"
    <2>1. CallBecomes(c, call[c].op, "shots_each") /\ call'[c].aim = call[c].aim
      BY <1>0, <1>4, GoesTo DEF ListShots, Proceed, DockerSteps, LifecycleSteps
    <2> QED BY <1>1, <2>1, ShotsFound DEF ListShots, Proceed
  <1> QED BY <1>3, <1>4

\* The one-shots are removed.
LEMMA RemoveShotsKeeps ==
  ASSUME DockerInv, NEW c \in Callers, RemoveShots(c)
  PROVE  DockerInv'
  <1>0. DockerTypeOK
    BY DEF DockerInv
  <1>1. ~Quiet(c) /\ call[c].at = "shots_each"
    BY DEF RemoveShots, At, Quiet, EndSteps
  <1> QED BY <1>1, AfterShotsKeeps DEF RemoveShots, others

\* A delete removes the primary.
LEMMA EraseKeeps ==
  ASSUME DockerInv, NEW c \in Callers, Erase(c)
  PROVE  DockerInv'
  <1>0. DockerTypeOK
    BY DEF DockerInv
  <1>1. ~Quiet(c) /\ call[c].at = "erase"
    BY DEF Erase, At, Quiet, EndSteps
  <1>3. CallBecomes(c, "none", "done")
    BY <1>0, Ends DEF Erase, Proceed, EndSteps
  <1> QED BY <1>1, <1>3, BoxErased DEF Erase, Proceed

\* A one-shot is prepared, or stopped before.
LEMMA PrepareShotKeeps ==
  ASSUME DockerInv, NEW c \in Callers, PrepareShot(c)
  PROVE  DockerInv'
  <1>0. DockerTypeOK
    BY DEF DockerInv
  <1>1. ~Quiet(c) /\ call[c].at = "shot_image"
    BY DEF PrepareShot, At, Quiet, EndSteps
  <1>2. call[c].op = "one_shot"
    BY <1>0, <1>1, OpOfStep DEF DockerInv, DockerTypeOK, CallShapes, CreateSteps, ShotSteps
  <1>3. CASE Proceed(c, To(c, "shot_create"))
    <2>1. CallBecomes(c, call[c].op, "shot_create")
      BY <1>0, <1>3, GoesTo DEF PrepareShot, Proceed, DockerSteps, ShotSteps
    <2>2. call[c].at \in ShotSteps /\ "shot_create" \in ShotSteps
      BY <1>1 DEF ShotSteps
    <2>3. shot' \in ShotStates /\ (shot = "absent" => shot' = "absent") /\ UNCHANGED <<plan, faults, drops, during, doomed, box, nets, net, side>>
      BY <1>0, <1>3 DEF PrepareShot, Proceed, daemon, others, DockerTypeOK, ShotStates
    <2> QED BY <1>1, <1>2, <2>1, <2>2, <2>3, ShotGoesOn
  <1>4. CASE Proceed(c, Ended("done"))
    BY <1>0, <1>4, EndKeepsDocker DEF PrepareShot, Proceed, DockerTypeOK, EndSteps
  <1> QED BY <1>3, <1>4 DEF PrepareShot

\* A one-shot is created.
LEMMA CreateShotKeeps ==
  ASSUME DockerInv, NEW c \in Callers, CreateShot(c)
  PROVE  DockerInv'
  <1>0. DockerTypeOK
    BY DEF DockerInv
  <1>1. ~Quiet(c) /\ call[c].at = "shot_create"
    BY DEF CreateShot, At, Quiet, EndSteps
  <1>2. call[c].op = "one_shot"
    BY <1>0, <1>1, OpOfStep DEF DockerInv, DockerTypeOK, CallShapes, CreateSteps, ShotSteps
  <1>3. CASE box = "absent"
    BY <1>0, <1>1, <1>3, ErrorKeepsDocker DEF CreateShot, Errs, Proceed, DockerTypeOK
  <1>4. CASE box # "absent"
    <2>1. CallBecomes(c, call[c].op, "shot_attach")
      BY <1>0, <1>4, GoesTo DEF CreateShot, DockerSteps, ShotSteps
    <2> QED BY <1>1, <1>2, <1>4, <2>1, ShotCreated DEF CreateShot, others
  <1> QED BY <1>3, <1>4

\* A one-shot is attached.
LEMMA AttachShotKeeps ==
  ASSUME DockerInv, NEW c \in Callers, AttachShot(c)
  PROVE  DockerInv'
  <1>0. DockerTypeOK
    BY DEF DockerInv
  <1>1. ~Quiet(c) /\ call[c].at = "shot_attach"
    BY DEF AttachShot, At, Quiet, EndSteps
  <1>2. call[c].op = "one_shot"
    BY <1>0, <1>1, OpOfStep DEF DockerInv, DockerTypeOK, CallShapes, CreateSteps, ShotSteps
  <1>3. CASE shot = "absent"
    BY <1>0, <1>1, <1>3, ErrorKeepsDocker DEF AttachShot, Errs, Proceed, DockerTypeOK
  <1>4. CASE shot # "absent"
    <2>1. CallBecomes(c, call[c].op, "shot_start")
      BY <1>0, <1>4, GoesTo DEF AttachShot, Proceed, DockerSteps, ShotSteps
    <2>2. call[c].at \in ShotSteps /\ "shot_start" \in ShotSteps
      BY <1>1 DEF ShotSteps
    <2>3. shot' \in ShotStates /\ (shot = "absent" => shot' = "absent") /\ UNCHANGED <<plan, faults, drops, during, doomed, box, nets, net, side>>
      BY <1>0, <1>4 DEF AttachShot, Proceed, daemon, others, DockerTypeOK, ShotStates
    <2> QED BY <1>1, <1>2, <2>1, <2>2, <2>3, ShotGoesOn
  <1> QED BY <1>3, <1>4

\* A one-shot is started.
LEMMA StartShotKeeps ==
  ASSUME DockerInv, NEW c \in Callers, StartShot(c)
  PROVE  DockerInv'
  <1>0. DockerTypeOK
    BY DEF DockerInv
  <1>1. ~Quiet(c) /\ call[c].at = "shot_start"
    BY DEF StartShot, At, Quiet, EndSteps
  <1>2. call[c].op = "one_shot"
    BY <1>0, <1>1, OpOfStep DEF DockerInv, DockerTypeOK, CallShapes, CreateSteps, ShotSteps
  <1>3. CASE shot = "absent" \/ box # "running"
    BY <1>0, <1>1, <1>3, ErrorKeepsDocker DEF StartShot, Errs, Proceed, DockerTypeOK
  <1>4. CASE ~(shot = "absent" \/ box # "running")
    <2>1. CallBecomes(c, call[c].op, "shot_run")
      BY <1>0, <1>4, GoesTo DEF StartShot, Proceed, DockerSteps, ShotSteps
    <2>2. call[c].at \in ShotSteps /\ "shot_run" \in ShotSteps
      BY <1>1 DEF ShotSteps
    <2>3. shot' \in ShotStates /\ (shot = "absent" => shot' = "absent") /\ UNCHANGED <<plan, faults, drops, during, doomed, box, nets, net, side>>
      BY <1>0, <1>4 DEF StartShot, Proceed, daemon, others, DockerTypeOK, ShotStates
    <2> QED BY <1>1, <1>2, <2>1, <2>2, <2>3, ShotGoesOn
  <1> QED BY <1>3, <1>4

\* A one-shot ends.
LEMMA RunShotKeeps ==
  ASSUME DockerInv, NEW c \in Callers, RunShot(c)
  PROVE  DockerInv'
  <1>0. DockerTypeOK
    BY DEF DockerInv
  <1>1. ~Quiet(c) /\ call[c].at = "shot_run"
    BY DEF RunShot, At, Quiet, EndSteps
  <1>2. call[c].op = "one_shot"
    BY <1>0, <1>1, OpOfStep DEF DockerInv, DockerTypeOK, CallShapes, CreateSteps, ShotSteps
  <1>3. CASE TRUE
    <2>1. CallBecomes(c, call[c].op, "shot_remove")
      BY <1>0, <1>3, GoesTo DEF RunShot, Proceed, DockerSteps, ShotSteps
    <2>2. call[c].at \in ShotSteps /\ "shot_remove" \in ShotSteps
      BY <1>1 DEF ShotSteps
    <2>3. shot' \in ShotStates /\ (shot = "absent" => shot' = "absent") /\ UNCHANGED <<plan, faults, drops, during, doomed, box, nets, net, side>>
      BY <1>0, <1>3 DEF RunShot, Proceed, daemon, others, DockerTypeOK, ShotStates
    <2> QED BY <1>1, <1>2, <2>1, <2>2, <2>3, ShotGoesOn
  <1> QED BY <1>3

\* A one-shot is removed.
LEMMA RemoveShotKeeps ==
  ASSUME DockerInv, NEW c \in Callers, RemoveShot(c)
  PROVE  DockerInv'
  <1>0. DockerTypeOK
    BY DEF DockerInv
  <1>1. ~Quiet(c) /\ call[c].at = "shot_remove"
    BY DEF RemoveShot, At, Quiet, EndSteps
  <1>2. call[c].op = "one_shot"
    BY <1>0, <1>1, OpOfStep DEF DockerInv, DockerTypeOK, CallShapes, CreateSteps, ShotSteps
  <1>3. CallBecomes(c, "none", "done")
    BY <1>0, Ends DEF RemoveShot, EndSteps
  <1> QED BY <1>1, <1>3, ShotRemoved DEF RemoveShot, others

\* A create begins, or is refused.
LEMMA BeginCreateKeeps ==
  ASSUME DockerInv, NEW c \in Callers, BeginCreate(c)
  PROVE  DockerInv'
  <1> USE DEF DockerInv
  <1>1. PICK p \in SandboxSpecs, named \in BOOLEAN, supported \in BOOLEAN :
           IF Plannable(p, named, supported)
           THEN plan' = p /\ call' = [call EXCEPT ![c] = Fresh("create", "image")]
           ELSE plan' = plan /\ call' = [call EXCEPT ![c] = Ended("failed")]
    BY DEF BeginCreate
  <1>2. /\ box = "absent" /\ doomed' = FALSE /\ UNCHANGED <<daemon, faults, drops, during>>
        /\ \A d \in Callers : call[d].at \in EndSteps
    BY DEF BeginCreate, Quiet
  <1>3. plan' \in SandboxSpecs
    BY <1>1 DEF DockerTypeOK
  <1>4. CallBecomes(c, "create", "image") \/ CallBecomes(c, "none", "failed")
    <2>1. CASE Plannable(p, named, supported)
      BY <1>1, <2>1, CallBegins DEF CallOps, DockerSteps, CreateSteps
    <2>2. CASE ~Plannable(p, named, supported)
      BY <1>1, <2>2, Ends DEF EndSteps
    <2> QED BY <2>1, <2>2
  <1>5. ~net /\ nets = {} /\ Labelled = {} /\ Labelled' = {}
    BY <1>2 DEF PrimaryComesFirst, ServicesArePlanned, Labelled, daemon
  <1>6. DockerTypeOK'
    BY <1>2, <1>3, <1>4 DEF DockerTypeOK, CallBecomes, daemon
  <1>7. CallShapes'
    BY <1>2, <1>4 DEF CallShapes, CallShape, CallBecomes, EndSteps, CreateSteps, SweepSteps
  <1>8. CreateAlone'
    BY <1>2, <1>4 DEF CreateAlone, CallBecomes, Quiet, CallShapes, CallShape, EndSteps
  <1>9. ServicesArePlanned' /\ PrimaryComesFirst' /\ SweepsDoom'
    BY <1>2, <1>4, <1>5 DEF ServicesArePlanned, PrimaryComesFirst, SweepsDoom, CallBecomes, daemon, EndSteps, SweepSteps
  <1>10. CreatedSoFar' /\ RunsOnNetwork'
    <2>1. \A d \in Callers : call[d].op = "none"
      BY <1>2 DEF CallShapes, CallShape
    <2> QED BY <1>2, <1>4, <1>5, <2>1 DEF CreatedSoFar, RunsOnNetwork, CallBecomes, daemon, EndSteps
  <1>11. ShotsAreSwept'
    BY <1>2, <1>4 DEF ShotsAreSwept, CallBecomes, daemon, EndSteps
  <1> QED BY <1>6, <1>7, <1>8, <1>9, <1>10, <1>11

\* Another call begins.
LEMMA BeginCallKeeps ==
  ASSUME DockerInv, NEW c \in Callers, NEW verb \in CallOps \ {"none", "create"}, BeginCall(c, verb)
  PROVE  DockerInv'
  <1> USE DEF DockerInv
  <1>0. PICK first \in FirstStep(verb) : Proceed(c, Fresh(verb, first))
    BY DEF BeginCall
  <1>1. /\ first \in {"inspect", "shots", "freeze", "unpause", "shot_image"} /\ first \in DockerSteps
        /\ first = "inspect" => verb \in {"start", "delete"}
        /\ first = "shots" => verb \in {"stop", "delete"}
        /\ first = "freeze" <=> verb = "pause"
        /\ first = "unpause" <=> verb = "resume"
        /\ first = "shot_image" <=> verb = "one_shot"
    BY <1>0 DEF FirstStep, CallOps, DockerSteps, LifecycleSteps, ShotSteps
  <1>2. call' = [call EXCEPT ![c] = Fresh(verb, first)] /\ UNCHANGED <<plan, faults, drops, during, doomed, daemon>>
    BY <1>0 DEF BeginCall, Proceed
  <1>3. CallBecomes(c, verb, first)
    BY <1>1, <1>2, CallBegins
  <1>4. box # "absent" /\ call[c].at \in EndSteps /\ \A d \in Callers : call[d].op # "create"
    <2>1. \A d \in Callers : call[d].op = "create" => call[d].at \in EndSteps
      BY DEF BeginCall, Quiet
    <2>2. \A d \in Callers : call[d].at \in EndSteps => call[d].op = "none"
      BY DEF CallShapes, CallShape
    <2> QED BY <2>1, <2>2 DEF BeginCall, Quiet
  <1>5. DockerTypeOK'
    BY <1>2, <1>3 DEF DockerTypeOK, CallBecomes, daemon
  <1>6. CallShapes'
    BY <1>1, <1>3 DEF CallShapes, CallShape, CallBecomes, EndSteps, SweepSteps, ShotSteps, StartSteps, StopSteps
  <1>7. CreateAlone'
    BY <1>1, <1>3, <1>4 DEF CreateAlone, CallBecomes, Quiet
  <1>8. ServicesArePlanned' /\ PrimaryComesFirst' /\ SweepsDoom'
    BY <1>1, <1>2, <1>3, <1>4 DEF ServicesArePlanned, PrimaryComesFirst, SweepsDoom, CallBecomes, daemon, SweepSteps, Labelled
  <1>9. CreatedSoFar' /\ RunsOnNetwork'
    BY <1>1, <1>2, <1>3, <1>4 DEF CreatedSoFar, RunsOnNetwork, CallBecomes, daemon, Labelled
  <1>10. ShotsAreSwept'
    BY <1>1, <1>2, <1>3, <1>4 DEF ShotsAreSwept, CallBecomes, daemon, SweepSteps
  <1> QED BY <1>5, <1>6, <1>7, <1>8, <1>9, <1>10

\* A request fails, or a call is dropped.
LEMMA FaultKeeps ==
  ASSUME DockerInv, NEW c \in Callers, Fault(c) \/ Drop(c)
  PROVE  DockerInv'
  <1>1. DockerTypeOK /\ ~Quiet(c)
    BY DEF DockerInv, Fault, Drop
  <1>2. CASE Fault(c)
    <2>1. faults' \in 0..MaxFaults /\ drops' \in 0..MaxDrops
      BY <1>1, <1>2, DockerBoundsAssumption DEF DockerTypeOK, Fault
    <2>2. call' = [call EXCEPT ![c] = OnError(call[c])]
      BY <1>1, <1>2 DEF Fault
    <2> QED BY <1>1, <1>2, <2>1, <2>2, ErrorKeepsDocker DEF Fault
  <1>3. CASE Drop(c)
    <2>1. faults' \in 0..MaxFaults /\ drops' \in 0..MaxDrops
      BY <1>1, <1>3, DockerBoundsAssumption DEF DockerTypeOK, Drop
    <2> QED BY <1>1, <1>3, <2>1, EndKeepsDocker DEF Drop, EndSteps
  <1> QED BY <1>2, <1>3

\* A container moves by itself.
LEMMA ContainerMovesKeeps ==
  ASSUME DockerInv, ContainerMoves
  PROVE  DockerInv'
  <1> USE DEF DockerInv
  <1>1. UNCHANGED <<plan, nets, net, call, faults, drops, during, doomed>>
    BY DEF ContainerMoves
  <1>2. /\ side' \in [Sidecars -> ServiceStates] /\ Labelled' = Labelled
        /\ box' = box \/ (box = "running" /\ box' = "exited")
        /\ shot' = shot \/ (shot = "running" /\ shot' = "exited")
    BY DEF ContainerMoves, DockerTypeOK, ServiceStates, Labelled
  <1>3. DockerTypeOK'
    BY <1>1, <1>2 DEF DockerTypeOK, BoxStates, ShotStates
  <1>4. CallShapes' /\ CreateAlone'
    BY <1>1 DEF CallShapes, CreateAlone, Quiet
  <1>5. ServicesArePlanned' /\ PrimaryComesFirst' /\ SweepsDoom'
    BY <1>1, <1>2 DEF ServicesArePlanned, PrimaryComesFirst, SweepsDoom
  <1>6. CreatedSoFar' /\ RunsOnNetwork'
    BY <1>1, <1>2 DEF CreatedSoFar, RunsOnNetwork
  <1>7. ShotsAreSwept'
    BY <1>1, <1>2 DEF ShotsAreSwept
  <1> QED BY <1>3, <1>4, <1>5, <1>6, <1>7

\* Before the first create the invariant holds.
LEMMA DockerInitially ==
  ASSUME DockerInit
  PROVE  DockerInv
  <1>1. \A c \in Callers : call[c] \in CallRecords /\ call[c].op = "none" /\ call[c].at = "done"
    BY EndedFields DEF DockerInit, EndSteps
  <1>2. Labelled = {}
    BY DEF DockerInit, Labelled
  <1>3. DockerTypeOK
    <2>1. call \in [Callers -> CallRecords] /\ side \in [Sidecars -> ServiceStates]
      <3>1. Ended("done") \in CallRecords
        BY EndedFields DEF EndSteps
      <3> QED BY <3>1 DEF DockerInit, ServiceStates
    <2>2. plan \in SandboxSpecs /\ box \in BoxStates /\ shot \in ShotStates
      BY DEF DockerInit, SandboxSpecs, BoxStates, ShotStates
    <2>3. nets = {} /\ net = FALSE /\ during = {} /\ doomed = FALSE /\ faults \in 0..MaxFaults /\ drops \in 0..MaxDrops
      BY DockerBoundsAssumption DEF DockerInit
    <2> QED BY <2>1, <2>2, <2>3 DEF DockerTypeOK
  <1>4. CallShapes /\ CreateAlone
    BY <1>1 DEF CallShapes, CallShape, CreateAlone, Quiet, EndSteps, SweepSteps
  <1>5. ServicesArePlanned /\ PrimaryComesFirst /\ SweepsDoom /\ CreatedSoFar /\ RunsOnNetwork /\ ShotsAreSwept
    BY <1>1, <1>2 DEF DockerInit, ServicesArePlanned, PrimaryComesFirst, SweepsDoom, CreatedSoFar, RunsOnNetwork,
      ShotsAreSwept, SweepSteps
  <1> QED BY <1>3, <1>4, <1>5 DEF DockerInv

\* Every step at the daemon keeps the invariant.
LEMMA DockerStep ==
  ASSUME DockerInv, DockerNext
  PROVE  DockerInv'
  <1>1. ASSUME NEW c \in Callers, CreateStep(c) PROVE DockerInv'
    BY <1>1, EnsureImageKeeps, CreatePrimaryKeeps, CreateNetworkKeeps, CreateServiceKeeps, BootServiceKeeps,
      AwaitHealthKeeps, LeaveNoneKeeps, ConnectKeeps, LaunchKeeps, VerifyRunningKeeps, RemoveFailedKeeps
      DEF CreateStep
  <1>2. ASSUME NEW c \in Callers, SweepStep(c) PROVE DockerInv'
    BY <1>2, SweepListKeeps, SweepEachKeeps, SweepAttachedKeeps, SweepDetachKeeps, SweepNetworkKeeps DEF SweepStep
  <1>3. ASSUME NEW c \in Callers, LifecycleStep(c) PROVE DockerInv'
    BY <1>3, InspectKeeps, ListServicesKeeps, SetServiceKeeps, AwaitServicesKeeps, StartBoxKeeps, UnpauseKeeps,
      PauseKeeps, StopBoxKeeps, ListShotsKeeps, RemoveShotsKeeps, EraseKeeps DEF LifecycleStep
  <1>4. ASSUME NEW c \in Callers, ShotStep(c) PROVE DockerInv'
    BY <1>4, PrepareShotKeeps, CreateShotKeeps, AttachShotKeeps, StartShotKeeps, RunShotKeeps, RemoveShotKeeps
      DEF ShotStep
  <1> QED BY <1>1, <1>2, <1>3, <1>4, BeginCreateKeeps, BeginCallKeeps, FaultKeeps, ContainerMovesKeeps DEF DockerNext

\* The daemon rests while another part moves.
LEMMA DockerRests ==
  ASSUME DockerInv, UNCHANGED dockerVars
  PROVE  DockerInv'
  BY DEF DockerInv, DockerTypeOK, CallShapes, CreateAlone, Quiet, ServicesArePlanned, PrimaryComesFirst,
    SweepsDoom, CreatedSoFar, RunsOnNetwork, ShotsAreSwept, Labelled, dockerVars, daemon

\* The invariant implies what the run checks of a Docker sandbox.
LEMMA DockerHolds ==
  ASSUME DockerInv
  PROVE  DockerTypeOK /\ DependentsHavePrimary /\ RunningHasServices
  BY DEF DockerInv, DependentsHavePrimary, RunningHasServices, PrimaryComesFirst, ServicesArePlanned,
    RunsOnNetwork, CreatedSoFar

\* The step of one caller is no step of another.
LEMMA OthersStay ==
  ASSUME DockerInv, NEW c \in Callers, NEW d \in Callers \ {c},
         \/ BeginCreate(d) \/ \E verb \in CallOps \ {"none", "create"} : BeginCall(d, verb)
         \/ CreateStep(d) \/ SweepStep(d) \/ LifecycleStep(d) \/ ShotStep(d) \/ Fault(d) \/ Drop(d)
  PROVE  call'[c] = call[c]
  <1>a. DockerTypeOK
    BY DEF DockerInv
  <1>b. call[d].at = "inspect" => call[d].op \in {"start", "delete"}
    BY OpOfStep DEF DockerInv, DockerTypeOK, CallShapes
  <1>0. \A k : call' = [call EXCEPT ![d] = k] => call'[c] = call[c]
    BY <1>a DEF DockerTypeOK
  <1>1. \A k : Proceed(d, k) => call'[c] = call[c]
    BY <1>0 DEF Proceed
  <1>2. Errs(d) => call'[c] = call[c]
    BY <1>1 DEF Errs
  <1>3. ASSUME NEW k, HealthVerdict(d, k) PROVE call'[c] = call[c]
    BY <1>1, <1>2, <1>3 DEF HealthVerdict
  <1>4. EnsureImage(d) => call'[c] = call[c]
    BY <1>0, <1>1, <1>2, <1>3 DEF EnsureImage
  <1>5. CreatePrimary(d) => call'[c] = call[c]
    BY <1>0, <1>1, <1>2, <1>3 DEF CreatePrimary
  <1>6. CreateNetwork(d) => call'[c] = call[c]
    BY <1>0, <1>1, <1>2, <1>3 DEF CreateNetwork
  <1>7. CreateService(d) => call'[c] = call[c]
    BY <1>0, <1>1, <1>2, <1>3 DEF CreateService
  <1>8. BootService(d) => call'[c] = call[c]
    BY <1>0, <1>1, <1>2, <1>3 DEF BootService
  <1>9. AwaitHealth(d) => call'[c] = call[c]
    BY <1>0, <1>1, <1>2, <1>3 DEF AwaitHealth
  <1>10. LeaveNone(d) => call'[c] = call[c]
    BY <1>0, <1>1, <1>2, <1>3 DEF LeaveNone
  <1>11. Connect(d) => call'[c] = call[c]
    BY <1>0, <1>1, <1>2, <1>3 DEF Connect
  <1>12. Launch(d) => call'[c] = call[c]
    BY <1>0, <1>1, <1>2, <1>3 DEF Launch
  <1>13. VerifyRunning(d) => call'[c] = call[c]
    BY <1>0, <1>1, <1>2, <1>3 DEF VerifyRunning
  <1>14. RemoveFailed(d) => call'[c] = call[c]
    BY <1>0, <1>1, <1>2, <1>3 DEF RemoveFailed
  <1>15. SweepList(d) => call'[c] = call[c]
    BY <1>0, <1>1, <1>2, <1>3 DEF SweepList
  <1>16. SweepEach(d) => call'[c] = call[c]
    BY <1>0, <1>1, <1>2, <1>3 DEF SweepEach
  <1>17. SweepAttached(d) => call'[c] = call[c]
    BY <1>0, <1>1, <1>2, <1>3 DEF SweepAttached
  <1>18. SweepDetach(d) => call'[c] = call[c]
    BY <1>0, <1>1, <1>2, <1>3 DEF SweepDetach
  <1>19. SweepNetwork(d) => call'[c] = call[c]
    BY <1>0, <1>1, <1>2, <1>3 DEF SweepNetwork
  <1>20. Inspect(d) => call'[c] = call[c]
    BY <1>0, <1>1, <1>2, <1>3, <1>b DEF Inspect, At
  <1>21. ListServices(d) => call'[c] = call[c]
    BY <1>0, <1>1, <1>2, <1>3 DEF ListServices
  <1>22. SetService(d) => call'[c] = call[c]
    BY <1>0, <1>1, <1>2, <1>3 DEF SetService
  <1>23. AwaitServices(d) => call'[c] = call[c]
    BY <1>0, <1>1, <1>2, <1>3 DEF AwaitServices
  <1>24. StartBox(d) => call'[c] = call[c]
    BY <1>0, <1>1, <1>2, <1>3 DEF StartBox
  <1>25. Unpause(d) => call'[c] = call[c]
    BY <1>0, <1>1, <1>2, <1>3 DEF Unpause
  <1>26. Pause(d) => call'[c] = call[c]
    BY <1>0, <1>1, <1>2, <1>3 DEF Pause
  <1>27. StopBox(d) => call'[c] = call[c]
    BY <1>0, <1>1, <1>2, <1>3 DEF StopBox
  <1>28. ListShots(d) => call'[c] = call[c]
    BY <1>0, <1>1, <1>2, <1>3 DEF ListShots
  <1>29. RemoveShots(d) => call'[c] = call[c]
    BY <1>0, <1>1, <1>2, <1>3 DEF RemoveShots
  <1>30. Erase(d) => call'[c] = call[c]
    BY <1>0, <1>1, <1>2, <1>3 DEF Erase
  <1>31. PrepareShot(d) => call'[c] = call[c]
    BY <1>0, <1>1, <1>2, <1>3 DEF PrepareShot
  <1>32. CreateShot(d) => call'[c] = call[c]
    BY <1>0, <1>1, <1>2, <1>3 DEF CreateShot
  <1>33. AttachShot(d) => call'[c] = call[c]
    BY <1>0, <1>1, <1>2, <1>3 DEF AttachShot
  <1>34. StartShot(d) => call'[c] = call[c]
    BY <1>0, <1>1, <1>2, <1>3 DEF StartShot
  <1>35. RunShot(d) => call'[c] = call[c]
    BY <1>0, <1>1, <1>2, <1>3 DEF RunShot
  <1>36. RemoveShot(d) => call'[c] = call[c]
    BY <1>0, <1>1, <1>2, <1>3 DEF RemoveShot
  <1>37. BeginCreate(d) \/ (\E verb \in CallOps \ {"none", "create"} : BeginCall(d, verb)) => call'[c] = call[c]
    BY <1>0, <1>1 DEF BeginCreate, BeginCall
  <1>38. Fault(d) \/ Drop(d) => call'[c] = call[c]
    BY <1>a DEF Fault, Drop, DockerTypeOK
  <1> QED BY <1>4, <1>5, <1>6, <1>7, <1>8, <1>9, <1>10, <1>11, <1>12, <1>13, <1>14, <1>15, <1>16, <1>17, <1>18, <1>19, <1>20, <1>21, <1>22, <1>23, <1>24, <1>25, <1>26, <1>27, <1>28, <1>29, <1>30, <1>31, <1>32, <1>33, <1>34, <1>35, <1>36, <1>37, <1>38 DEF CreateStep, SweepStep, LifecycleStep, ShotStep

\* A request that fails ends no call well.
LEMMA ErrorIsNotDone ==
  ASSUME DockerInv, NEW c \in Callers, ~Quiet(c), call' = [call EXCEPT ![c] = OnError(call[c])]
  PROVE  call'[c].at # "done"
  <1>1. call[c] \in CallRecords /\ CallShape(call[c]) /\ call[c].op # "none" /\ plan \in SandboxSpecs /\ DockerTypeOK
    BY DEF DockerInv, DockerTypeOK, CallShapes, CallShape, Quiet
  <1>2. OnError(call[c]).at \in {"sweep", "remove", "shot_remove", "failed"}
    BY <1>1, ErrorOf
  <1>3. call'[c] = OnError(call[c])
    BY <1>1 DEF DockerTypeOK
  <1> QED BY <1>2, <1>3

\* A sweep never ends a call, nor does the sweep of the one-shots.
LEMMA SweepIsNotDone ==
  ASSUME DockerInv, NEW c \in Callers, SweepStep(c) \/ ListShots(c) \/ RemoveShots(c) \/ ListServices(c)
  PROVE  call'[c].at # "done"
  <1>0. DockerTypeOK /\ call[c] \in CallRecords /\ CallShape(call[c]) /\ call \in [Callers -> CallRecords]
    BY DEF DockerInv, DockerTypeOK, CallShapes
  <1>1. ASSUME NEW step, call' = [call EXCEPT ![c] = To(c, step)], step # "done" PROVE call'[c].at # "done"
    BY <1>0, <1>1 DEF To, CallRecords
  <1>2. ASSUME NEW step, NEW todo, call' = [call EXCEPT ![c] = Visit(c, step, todo)], step # "done"
        PROVE  call'[c].at # "done"
    <2>1. call'[c] = LeftTo(call[c], step, todo)
      BY <1>0, <1>2 DEF Visit, LeftTo
    <2>2. LeftTo(call[c], step, todo).at = step
      BY <1>0, Zenon DEF LeftTo, CallRecords
    <2> QED BY <1>2, <2>1, <2>2
  <1>3. ASSUME NEW step \in DockerSteps, NEW aim \in {"none", "abandon", "remove", "erase"}, call' = [call EXCEPT ![c] = AimTo(call[c], step, aim)], step # "done"
        PROVE  call'[c].at # "done"
    BY <1>0, <1>3, Aims DEF CallBecomes
  <1>4. "sweep" \in DockerSteps
    BY DEF DockerSteps, SweepSteps
  <1>5. ASSUME call' = [call EXCEPT ![c] = SweepDone(c)], call[c].at \in SweepSteps PROVE call'[c].at # "done"
    <2>1. call[c].aim \in {"abandon", "remove", "erase"}
      BY <1>0, <1>5, OpOfStep
    <2>2. CASE call[c].aim = "abandon" /\ plan.services
      <3>1. call' = [call EXCEPT ![c] = AimTo(call[c], "sweep", "remove")]
        BY <1>5, <2>2 DEF SweepDone, Abandon, AimTo
      <3> QED BY <1>3, <1>4, <3>1
    <2>3. CASE call[c].aim = "remove" \/ (call[c].aim = "abandon" /\ ~plan.services)
      <3>1. call' = [call EXCEPT ![c] = To(c, "remove")]
        BY <1>5, <2>3 DEF SweepDone, Abandon, To
      <3> QED BY <1>1, <3>1
    <2>4. CASE call[c].aim = "erase"
      <3>1. call' = [call EXCEPT ![c] = To(c, "erase")]
        BY <1>5, <2>4 DEF SweepDone
      <3> QED BY <1>1, <3>1
    <2> QED BY <2>1, <2>2, <2>3, <2>4
  <1>6. ASSUME call' = [call EXCEPT ![c] = AfterShots(c)], call[c].at \in {"shots", "shots_each"} PROVE call'[c].at # "done"
    <2>1. call[c].op \in {"start", "stop", "delete"}
      BY <1>0, <1>6, OpOfStep
    <2>2. CASE call[c].op = "delete" /\ plan.services
      <3>1. call' = [call EXCEPT ![c] = AimTo(call[c], "sweep", "erase")]
        BY <1>6, <2>2 DEF AfterShots, AimTo
      <3> QED BY <1>3, <1>4, <3>1
    <2>3. CASE ~(call[c].op = "delete" /\ plan.services)
      <3>1. PICK step \in {"boot_box", "halt", "erase"} : call' = [call EXCEPT ![c] = To(c, step)]
        BY <1>6, <2>1, <2>3 DEF AfterShots
      <3> QED BY <1>1, <3>1
    <2> QED BY <2>2, <2>3
  <1>7. CASE SweepList(c)
    BY <1>2, <1>7 DEF SweepList
  <1>8. CASE SweepEach(c)
    BY <1>1, <1>2, <1>8 DEF SweepEach, Proceed
  <1>9. CASE SweepAttached(c)
    BY <1>1, <1>5, <1>9 DEF SweepAttached, Proceed, At, SweepSteps
  <1>10. CASE SweepDetach(c)
    BY <1>1, <1>10 DEF SweepDetach, Proceed
  <1>11. CASE SweepNetwork(c)
    <2>1. ~Quiet(c) /\ call[c].at \in SweepSteps
      BY <1>11 DEF SweepNetwork, At, Quiet, EndSteps, SweepSteps
    <2> QED BY <1>5, <1>11, <2>1, ErrorIsNotDone DEF SweepNetwork, Proceed, Errs
  <1>12. CASE ListShots(c)
    BY <1>1, <1>6, <1>12 DEF ListShots, Proceed, At
  <1>13. CASE RemoveShots(c)
    BY <1>6, <1>13 DEF RemoveShots, At
  <1>14. CASE ListServices(c)
    BY <1>2, <1>14 DEF ListServices, Proceed
  <1> QED BY <1>7, <1>8, <1>9, <1>10, <1>11, <1>12, <1>13, <1>14 DEF SweepStep

\* Where a stop and a delete end well.
LEMMA WhereDone ==
  ASSUME DockerInv, DockerNext, NEW c \in Callers, ~Quiet(c), call[c].op \in {"stop", "delete"}, call'[c].at = "done"
  PROVE  \/ call[c].op = "stop" /\ call[c].at \in {"halt", "set_each"} /\ shot' = shot
         \/ call[c].op = "delete" /\ box = "absent" /\ UNCHANGED daemon
         \/ call[c].op = "delete" /\ Erase(c)
  <1>0. DockerTypeOK /\ call[c] \in CallRecords /\ CallShape(call[c]) /\ call \in [Callers -> CallRecords]
    BY DEF DockerInv, DockerTypeOK, CallShapes
  <1>1. ~ContainerMoves
    BY DEF ContainerMoves, Quiet, EndSteps
  <1>2. ASSUME NEW d \in Callers \ {c},
         \/ BeginCreate(d) \/ \E verb \in CallOps \ {"none", "create"} : BeginCall(d, verb)
         \/ CreateStep(d) \/ SweepStep(d) \/ LifecycleStep(d) \/ ShotStep(d) \/ Fault(d) \/ Drop(d)
        PROVE  FALSE
    <2>1. call'[c] = call[c]
      BY <1>0, <1>2, OthersStay
    <2> QED BY <2>1 DEF Quiet, EndSteps
  <1>3. ~BeginCreate(c) /\ \A verb \in CallOps : ~BeginCall(c, verb)
    BY DEF BeginCreate, BeginCall
  <1>4. call[c].at \notin CreateSteps /\ call[c].at \notin ShotSteps /\ call[c].at \notin {"await", "boot_box", "unpause", "freeze"}
    BY <1>0, OpOfStep
  <1>5. ~CreateStep(c)
    BY <1>4 DEF CreateStep, At, CreateSteps, EnsureImage, CreatePrimary, CreateNetwork, CreateService, BootService,
      AwaitHealth, LeaveNone, Connect, Launch, VerifyRunning, RemoveFailed
  <1>6. ~ShotStep(c)
    BY <1>4 DEF ShotStep, At, ShotSteps, PrepareShot, CreateShot, AttachShot, StartShot, RunShot, RemoveShot
  <1>7. ~Fault(c)
    BY <1>0, ErrorIsNotDone DEF Fault
  <1>8. ~Drop(c)
    <2>1. Ended("failed").at = "failed"
      BY DEF Ended, Fresh
    <2> QED BY <1>0, <2>1 DEF Drop
  <1>9. ~SweepStep(c) /\ ~ListShots(c) /\ ~RemoveShots(c) /\ ~ListServices(c)
    BY SweepIsNotDone
  <1>10. ~AwaitServices(c) /\ ~StartBox(c) /\ ~Unpause(c) /\ ~Pause(c)
    BY <1>4 DEF AwaitServices, StartBox, Unpause, Pause, At
  <1>11. ASSUME Inspect(c) PROVE call[c].op = "delete" /\ box = "absent" /\ UNCHANGED daemon
    <2>1. call[c].op = "delete"
      BY <1>0, <1>11, OpOfStep DEF Inspect, At
    <2>2. To(c, "shots").at # "done"
      BY <1>0 DEF To, CallRecords
    <2> QED BY <1>0, <1>11, <2>1, <2>2 DEF Inspect, Proceed
  <1>12. ASSUME StopBox(c) PROVE call[c].op = "stop" /\ call[c].at = "halt" /\ shot' = shot
    BY <1>0, <1>12, OpOfStep DEF StopBox, At
  <1>13. ASSUME SetService(c) PROVE call[c].op = "stop" /\ call[c].at = "set_each" /\ shot' = shot
    <2>1. call[c].op = "stop" /\ call[c].at = "set_each"
      BY <1>0, <1>13, OpOfStep DEF SetService, At
    <2> QED BY <1>13, <2>1 DEF SetService, daemon
  <1>14. Erase(c) => call[c].op = "delete"
    BY <1>0, OpOfStep DEF Erase, At
  <1> QED BY <1>1, <1>2, <1>3, <1>5, <1>6, <1>7, <1>8, <1>9, <1>10, <1>11, <1>12, <1>13, <1>14 DEF DockerNext, LifecycleStep

\* A stop that succeeds has swept the one-shots that are older, and a delete everything.
LEMMA DockerSweeps ==
  ASSUME DockerInv, DockerNext
  PROVE  DeleteLeavesNothing /\ StopSweepsOneShots
  <1>1. ASSUME NEW c \in Callers, Succeeds(c, "stop") PROVE shot' = "absent" \/ c \in during
    <2>1. call[c].op = "stop" /\ call[c].at \in {"halt", "set_each"} /\ shot' = shot
      BY <1>1, WhereDone DEF Succeeds
    <2> QED BY <2>1 DEF DockerInv, ShotsAreSwept
  <1>2. ASSUME NEW c \in Callers, Succeeds(c, "delete")
        PROVE  box' = "absent" /\ ~net' /\ Labelled' = {} /\ (shot' = "absent" \/ during # {})
    <2>1. call[c].op = "delete" /\ ((box = "absent" /\ UNCHANGED daemon) \/ Erase(c))
      BY <1>2, WhereDone DEF Succeeds
    <2>2. CASE box = "absent" /\ UNCHANGED daemon
      <3>1. ~net /\ Labelled = {} /\ (shot = "absent" \/ during # {})
        BY <2>2 DEF DockerInv, PrimaryComesFirst, ServicesArePlanned, ShotsAreSwept
      <3> QED BY <2>2, <3>1 DEF daemon, Labelled
    <2>3. CASE Erase(c)
      <3>1. ~net /\ Labelled = {} /\ (shot = "absent" \/ c \in during)
        BY <2>1, <2>3 DEF DockerInv, PrimaryComesFirst, ServicesArePlanned, ShotsAreSwept, Erase, At
      <3> QED BY <2>3, <3>1 DEF Erase, Labelled
    <2> QED BY <2>1, <2>2, <2>3
  <1> QED BY <1>1, <1>2 DEF DeleteLeavesNothing, StopSweepsOneShots

-----------------------------------------------------------------------------
(***************************************************************************)
(* The owned provider.                                                     *)
(***************************************************************************)
\* What one owned call has seen and touched: a delete past its check touched nothing yet, and a
\* call touches only what carries the labels, but for a delete another client raced.
OwnedCallFits(c) ==
    /\ c.at = "act" => c.op = "delete"
    /\ c.at = "ok" /\ c.op = "undelete" => c.saw
    /\ c.op # "undelete" /\ ~c.raced => \A labels \in c.touched : Owns(labels)
    /\ c.at \in {"new", "describe", "act"} /\ c.op # "undelete" => c.touched = {}

\* A delete past its check acts on a sandbox that carries the labels, unless another client
\* changed it since.
CheckStillHolds(c) ==
    ownedCall[c].at = "act" /\ ~ownedCall[c].raced => Owns(backend[ownedCall[c].id].labels)

OwnedInv ==
    /\ OwnedTypeOK
    /\ \A c \in Consumers : OwnedCallFits(ownedCall[c]) /\ CheckStillHolds(c)

\* One call changes, to a call that fits, and no checked sandbox loses its labels.
LEMMA OwnedCallMoves ==
  ASSUME OwnedInv, NEW c \in Consumers, NEW k \in OwnedCalls,
         ownedCall' = [ownedCall EXCEPT ![c] = k], OwnedCallFits(k),
         k.at = "act" /\ ~k.raced => Owns(backend'[k.id].labels),
         backend' \in [BackendIds -> Boxes], UNCHANGED foreign,
         \A i \in BackendIds : Owns(backend[i].labels) => Owns(backend'[i].labels)
  PROVE  OwnedInv'
  <1>1. OwnedTypeOK'
    BY DEF OwnedInv, OwnedTypeOK
  <1>2. ASSUME NEW d \in Consumers PROVE (OwnedCallFits(ownedCall[d]) /\ CheckStillHolds(d))'
    <2>1. CASE d = c
      <3>1. ownedCall'[d] = k
        BY <2>1 DEF OwnedInv, OwnedTypeOK
      <3> QED
        BY <3>1 DEF OwnedCallFits, CheckStillHolds, Owns
    <2>2. CASE d # c
      <3>1. ownedCall'[d] = ownedCall[d] /\ ownedCall[d].id \in BackendIds
        BY <2>2 DEF OwnedInv, OwnedTypeOK, OwnedCalls
      <3>2. OwnedCallFits(ownedCall[d]) /\ CheckStillHolds(d)
        BY DEF OwnedInv
      <3>3. CheckStillHolds(d)'
        BY <3>1, <3>2 DEF CheckStillHolds
      <3> QED
        BY <3>1, <3>2, <3>3 DEF OwnedCallFits, Owns
    <2> QED
      BY <2>1, <2>2
  <1> QED
    BY <1>1, <1>2 DEF OwnedInv

\* A call that goes somewhere else and touches nothing.
LEMMA OwnedCallGoes ==
  ASSUME OwnedInv, NEW c \in Consumers, NEW where, Goes(c, where), UNCHANGED <<backend, foreign>>,
         \/ where = "failed"
         \/ where = "describe" /\ ownedCall[c].at = "new"
         \/ where = "ok" /\ ownedCall[c].op = "delete" /\ ownedCall[c].at \in {"new", "describe"}
  PROVE  OwnedInv'
  <1> DEFINE k == [ownedCall[c] EXCEPT !.at = where]
  <1>1. k \in OwnedCalls
    BY DEF OwnedInv, OwnedTypeOK, OwnedCalls
  <1>2. ownedCall' = [ownedCall EXCEPT ![c] = k]
    BY DEF Goes, OwnedInv, OwnedTypeOK
  <1>3. /\ k.at = where /\ k.op = ownedCall[c].op /\ k.touched = ownedCall[c].touched
        /\ k.raced = ownedCall[c].raced /\ k.id = ownedCall[c].id
    BY DEF OwnedInv, OwnedTypeOK, OwnedCalls
  <1>4. OwnedCallFits(ownedCall[c])
    BY DEF OwnedInv
  <1>5. OwnedCallFits(k)
    BY <1>3, <1>4 DEF OwnedCallFits
  <1>6. k.at # "act"
    BY <1>3
  <1> HIDE DEF k
  <1> QED
    BY <1>1, <1>2, <1>5, <1>6, OwnedCallMoves DEF OwnedInv, OwnedTypeOK

\* create stamps its labels.
LEMMA OwnedCreateKeeps ==
  ASSUME OwnedInv, NEW c \in Consumers, OwnedCreate(c)
  PROVE  OwnedInv'
  <1>1. CASE Goes(c, "failed") /\ UNCHANGED backend
    BY <1>1, OwnedCallGoes DEF OwnedCreate
  <1>2. CASE ~(Goes(c, "failed") /\ UNCHANGED backend)
    <2>1. PICK labels \in SUBSET OwnershipKeys :
            /\ backend' = [backend EXCEPT ![ownedCall[c].id] = [at |-> "live", labels |-> Stamp(labels)]]
            /\ ownedCall' = [ownedCall EXCEPT ![c].at = "ok", ![c].touched = {Stamp(labels)}]
      BY <1>2 DEF OwnedCreate
    <2> DEFINE k == [ownedCall[c] EXCEPT !.at = "ok", !.touched = {Stamp(labels)}]
    <2>2. Stamp(labels) \in SUBSET OwnershipKeys /\ Owns(Stamp(labels))
      BY DEF Stamp, Owns
    <2>3. ownedCall[c] \in OwnedCalls /\ ownedCall[c].id \in BackendIds
      BY DEF OwnedInv, OwnedTypeOK, OwnedCalls
    <2>4. k \in OwnedCalls /\ k.at = "ok" /\ k.op = "create" /\ k.touched = {Stamp(labels)}
      BY <2>2, <2>3 DEF OwnedCalls, OwnedCreate
    <2>5. ownedCall' = [ownedCall EXCEPT ![c] = k]
      BY <2>1 DEF OwnedInv, OwnedTypeOK
    <2>6. [at |-> "live", labels |-> Stamp(labels)] \in Boxes
      BY <2>2 DEF Boxes
    <2>7. backend' \in [BackendIds -> Boxes]
      BY <2>1, <2>6 DEF OwnedInv, OwnedTypeOK
    <2>8. \A i \in BackendIds : Owns(backend[i].labels) => Owns(backend'[i].labels)
      BY <2>1, <2>2 DEF OwnedInv, OwnedTypeOK
    <2>9. OwnedCallFits(k)
      BY <2>2, <2>4 DEF OwnedCallFits
    <2> HIDE DEF k
    <2> QED
      BY <2>4, <2>5, <2>7, <2>8, <2>9, OwnedCallMoves DEF OwnedCreate
  <1> QED
    BY <1>1, <1>2

\* undelete restores before it looks; its sandbox keeps its labels.
LEMMA InnerUndeleteKeeps ==
  ASSUME OwnedInv, NEW c \in Consumers, InnerUndelete(c)
  PROVE  OwnedInv'
  <1>1. CASE Goes(c, "failed") /\ UNCHANGED backend
    BY <1>1, OwnedCallGoes DEF InnerUndelete
  <1>2. CASE ~(Goes(c, "failed") /\ UNCHANGED backend)
    <2> DEFINE aim == ownedCall[c].id
               k == [ownedCall[c] EXCEPT !.at = "describe", !.touched = {backend[aim].labels}]
    <2>1. /\ backend[aim].at = "deleted"
          /\ backend' = [backend EXCEPT ![aim].at = "live"]
          /\ ownedCall' = [ownedCall EXCEPT ![c].at = "describe", ![c].touched = {backend[aim].labels}]
      BY <1>2 DEF InnerUndelete
    <2>3. ownedCall[c] \in OwnedCalls /\ aim \in BackendIds /\ backend[aim] \in Boxes
      BY DEF OwnedInv, OwnedTypeOK, OwnedCalls
    <2>4. k \in OwnedCalls /\ k.at = "describe" /\ k.op = "undelete"
      BY <2>3 DEF OwnedCalls, InnerUndelete, Boxes
    <2>5. ownedCall' = [ownedCall EXCEPT ![c] = k]
      BY <2>1 DEF OwnedInv, OwnedTypeOK
    <2>6. [backend[aim] EXCEPT !.at = "live"] \in Boxes
          /\ [backend[aim] EXCEPT !.at = "live"].labels = backend[aim].labels
      BY <2>3 DEF Boxes
    <2>7. backend' \in [BackendIds -> Boxes]
      BY <2>1, <2>6 DEF OwnedInv, OwnedTypeOK
    <2>8. \A i \in BackendIds : Owns(backend[i].labels) => Owns(backend'[i].labels)
      BY <2>1, <2>3, <2>6 DEF OwnedInv, OwnedTypeOK
    <2>9. OwnedCallFits(k)
      BY <2>4 DEF OwnedCallFits
    <2> HIDE DEF k
    <2> QED
      BY <2>4, <2>5, <2>7, <2>8, <2>9, OwnedCallMoves DEF InnerUndelete
  <1> QED
    BY <1>1, <1>2

\* The check: what goes on carries every label.
LEMMA OwnershipCheckedKeeps ==
  ASSUME OwnedInv, NEW c \in Consumers, OwnershipChecked(c)
  PROVE  OwnedInv'
  <1> DEFINE aim == ownedCall[c].id
             op == ownedCall[c].op
             k == [ownedCall[c] EXCEPT !.at = IF op = "delete" THEN "act" ELSE "ok", !.saw = TRUE,
                    !.touched = IF op = "attach" THEN {backend[aim].labels} ELSE @]
  <1>1. CASE Goes(c, "failed")
    BY <1>1, OwnedCallGoes DEF OwnershipChecked
  <1>2. CASE op = "delete" /\ Goes(c, "ok")
    BY <1>2, OwnedCallGoes DEF OwnershipChecked
  <1>3. CASE /\ Owns(backend[aim].labels)
             /\ ownedCall' = [ownedCall EXCEPT
                  ![c].at = IF op = "delete" THEN "act" ELSE "ok", ![c].saw = TRUE,
                  ![c].touched = IF op = "attach" THEN {backend[aim].labels} ELSE @]
    <2>1. ownedCall[c] \in OwnedCalls /\ aim \in BackendIds /\ backend[aim] \in Boxes
      BY DEF OwnedInv, OwnedTypeOK, OwnedCalls
    <2>2. k \in OwnedCalls
      BY <2>1 DEF OwnedCalls, Boxes
    <2>3. /\ k.at = (IF op = "delete" THEN "act" ELSE "ok") /\ k.saw = TRUE
          /\ k.op = op /\ k.id = aim /\ k.raced = ownedCall[c].raced
          /\ k.touched = (IF op = "attach" THEN {backend[aim].labels} ELSE ownedCall[c].touched)
      BY <2>1 DEF OwnedCalls
    <2>4. ownedCall' = [ownedCall EXCEPT ![c] = k]
      BY <1>3 DEF OwnedInv, OwnedTypeOK
    <2>5. ownedCall[c].at = "describe" /\ OwnedCallFits(ownedCall[c])
      BY DEF OwnedInv, OwnershipChecked
    <2> HIDE DEF k
    <2>6. OwnedCallFits(k)
      BY <1>3, <2>3, <2>5 DEF OwnedCallFits
    <2>7. Owns(backend'[k.id].labels) /\ UNCHANGED <<backend, foreign>>
      BY <1>3, <2>3 DEF OwnershipChecked
    <2> QED
      BY <2>2, <2>4, <2>6, <2>7, OwnedCallMoves DEF OwnedInv, OwnedTypeOK
  <1> QED
    BY <1>1, <1>2, <1>3 DEF OwnershipChecked

\* A delete takes what its check saw; the sandbox keeps its labels.
LEMMA InnerDeleteKeeps ==
  ASSUME OwnedInv, NEW c \in Consumers, InnerDelete(c)
  PROVE  OwnedInv'
  <1>1. CASE Goes(c, "failed") /\ UNCHANGED backend
    BY <1>1, OwnedCallGoes DEF InnerDelete
  <1>2. CASE ~(Goes(c, "failed") /\ UNCHANGED backend)
    <2> DEFINE aim == ownedCall[c].id
               b == IF backend[aim].at = "live" THEN [backend[aim] EXCEPT !.at = "deleted"] ELSE backend[aim]
               k == [ownedCall[c] EXCEPT !.at = "ok",
                      !.touched = IF backend[aim].at = "live" THEN {backend[aim].labels} ELSE {}]
    <2>3. ownedCall[c] \in OwnedCalls /\ aim \in BackendIds /\ backend[aim] \in Boxes
      BY DEF OwnedInv, OwnedTypeOK, OwnedCalls
    <2>1. /\ backend' = [backend EXCEPT ![aim] = b]
          /\ ownedCall' = [ownedCall EXCEPT ![c] = k]
      BY <1>2, <2>3 DEF InnerDelete, OwnedInv, OwnedTypeOK
    <2>4. k \in OwnedCalls
      BY <2>3 DEF OwnedCalls, Boxes
    <2>5. /\ k.at = "ok" /\ k.op = ownedCall[c].op /\ k.raced = ownedCall[c].raced
          /\ k.touched = (IF backend[aim].at = "live" THEN {backend[aim].labels} ELSE {})
      BY <2>3 DEF OwnedCalls
    <2>6. b \in Boxes /\ b.labels = backend[aim].labels
      BY <2>3 DEF Boxes
    <2>9. OwnedCallFits(ownedCall[c]) /\ CheckStillHolds(c) /\ ownedCall[c].at = "act"
      BY DEF OwnedInv, InnerDelete
    <2> HIDE DEF k, b
    <2>7. backend' \in [BackendIds -> Boxes]
      BY <2>1, <2>6 DEF OwnedInv, OwnedTypeOK
    <2>8. \A i \in BackendIds : Owns(backend[i].labels) => Owns(backend'[i].labels)
      BY <2>1, <2>3, <2>6 DEF OwnedInv, OwnedTypeOK
    <2>10. OwnedCallFits(k)
      BY <2>5, <2>9 DEF OwnedCallFits, CheckStillHolds
    <2> QED
      BY <2>1, <2>4, <2>5, <2>7, <2>8, <2>10, OwnedCallMoves DEF InnerDelete
  <1> QED
    BY <1>1, <1>2

\* list drops what does not carry the labels.
LEMMA OwnedListKeeps ==
  ASSUME OwnedInv, NEW c \in Consumers, OwnedList(c)
  PROVE  OwnedInv'
  <1>1. CASE Goes(c, "failed")
    BY <1>1, OwnedCallGoes DEF OwnedList
  <1>2. CASE ~Goes(c, "failed")
    <2>1. PICK found \in SUBSET {i \in BackendIds : backend[i].at = "live"} :
            ownedCall' = [ownedCall EXCEPT ![c].at = "ok",
              ![c].touched = {backend[i].labels : i \in {j \in found : Owns(backend[j].labels)}}]
      BY <1>2 DEF OwnedList
    <2> DEFINE seen == {backend[i].labels : i \in {j \in found : Owns(backend[j].labels)}}
               k == [ownedCall[c] EXCEPT !.at = "ok", !.touched = seen]
    <2>2. \A i \in BackendIds : backend[i] \in Boxes /\ backend[i].labels \in SUBSET OwnershipKeys
      BY DEF OwnedInv, OwnedTypeOK, Boxes
    <2>3. seen \in SUBSET (SUBSET OwnershipKeys) /\ \A labels \in seen : Owns(labels)
      BY <2>2
    <2>4. ownedCall[c] \in OwnedCalls
      BY DEF OwnedInv, OwnedTypeOK
    <2> HIDE DEF seen
    <2>5. k \in OwnedCalls /\ k.at = "ok" /\ k.op = "list" /\ k.touched = seen
      BY <2>3, <2>4 DEF OwnedCalls, OwnedList
    <2>6. ownedCall' = [ownedCall EXCEPT ![c] = k]
      BY <2>1 DEF OwnedInv, OwnedTypeOK, seen
    <2>7. OwnedCallFits(k)
      BY <2>3, <2>5 DEF OwnedCallFits
    <2> HIDE DEF k
    <2> QED
      BY <2>5, <2>6, <2>7, OwnedCallMoves DEF OwnedList, OwnedInv, OwnedTypeOK
  <1> QED
    BY <1>1, <1>2

\* Another client's step marks the deletes it races.
LEMMA ForeignStepKeeps ==
  ASSUME OwnedInv, ForeignStep
  PROVE  OwnedInv'
  <1>1. PICK i \in BackendIds, b \in Boxes :
          /\ backend' = [backend EXCEPT ![i] = b]
          /\ ownedCall' = [c \in Consumers |->
               IF ownedCall[c].id = i /\ ownedCall[c].at = "act"
               THEN [ownedCall[c] EXCEPT !.raced = TRUE] ELSE ownedCall[c]]
    BY DEF ForeignStep
  <1>2. backend' \in [BackendIds -> Boxes] /\ foreign' \in 0..MaxForeign
    BY <1>1, OwnershipAssumption DEF OwnedInv, OwnedTypeOK, ForeignStep
  <1>3. ASSUME NEW c \in Consumers
        PROVE  ownedCall'[c] \in OwnedCalls /\ OwnedCallFits(ownedCall'[c]) /\ CheckStillHolds(c)'
    <2>1. ownedCall[c] \in OwnedCalls /\ OwnedCallFits(ownedCall[c]) /\ CheckStillHolds(c)
      BY DEF OwnedInv, OwnedTypeOK
    <2>2. CASE ownedCall[c].id = i /\ ownedCall[c].at = "act"
      <3>1. ownedCall'[c] = [ownedCall[c] EXCEPT !.raced = TRUE]
        BY <1>1, <2>2
      <3>2. /\ ownedCall'[c] \in OwnedCalls /\ ownedCall'[c].raced = TRUE
            /\ ownedCall'[c].at = ownedCall[c].at /\ ownedCall'[c].op = ownedCall[c].op
            /\ ownedCall'[c].touched = ownedCall[c].touched /\ ownedCall'[c].saw = ownedCall[c].saw
        BY <2>1, <3>1 DEF OwnedCalls
      <3> QED
        BY <2>1, <2>2, <3>2 DEF OwnedCallFits, CheckStillHolds
    <2>3. CASE ~(ownedCall[c].id = i /\ ownedCall[c].at = "act")
      <3>1. ownedCall'[c] = ownedCall[c] /\ ownedCall[c].id \in BackendIds
        BY <1>1, <2>1, <2>3 DEF OwnedCalls
      <3>2. ownedCall[c].at = "act" => backend'[ownedCall[c].id] = backend[ownedCall[c].id]
        BY <1>1, <2>3, <3>1 DEF OwnedInv, OwnedTypeOK
      <3> QED
        BY <2>1, <3>1, <3>2 DEF CheckStillHolds
    <2> QED
      BY <2>2, <2>3
  <1>4. ownedCall' \in [Consumers -> OwnedCalls]
    BY <1>1, <1>3
  <1> QED
    BY <1>2, <1>3, <1>4 DEF OwnedInv, OwnedTypeOK, OwnedCallFits, Owns

\* A step of the owned provider or of another client.
LEMMA OwnedStep ==
  ASSUME OwnedInv, OwnedNext
  PROVE  OwnedInv'
  <1>1. ASSUME NEW c \in Consumers, InnerAttach(c) PROVE OwnedInv'
    BY <1>1, OwnedCallGoes DEF InnerAttach
  <1> QED
    BY <1>1, OwnedCreateKeeps, InnerUndeleteKeeps, OwnershipCheckedKeeps, InnerDeleteKeeps,
       OwnedListKeeps, ForeignStepKeeps DEF OwnedNext

\* Every call starts new.
LEMMA OwnedInitially ==
  ASSUME OwnedInit
  PROVE  OwnedInv
  <1>1. ASSUME NEW k \in NewOwnedCalls
        PROVE  k \in OwnedCalls /\ OwnedCallFits(k) /\ k.at = "new"
    <2>1. PICK o \in OwnedOps, i \in BackendIds :
            k = [op |-> o, id |-> i, at |-> "new", saw |-> FALSE, raced |-> FALSE, touched |-> {}]
      BY DEF NewOwnedCalls
    <2>2. k \in OwnedCalls
      BY <2>1 DEF OwnedCalls
    <2>3. k.at = "new" /\ k.touched = {}
      BY <2>1
    <2> QED
      BY <2>2, <2>3 DEF OwnedCallFits
  <1>2. ownedCall \in [Consumers -> OwnedCalls]
    BY <1>1 DEF OwnedInit
  <1>3. OwnedTypeOK
    BY <1>2, OwnershipAssumption DEF OwnedInit, OwnedTypeOK
  <1>4. \A c \in Consumers : ownedCall[c] \in NewOwnedCalls
    BY DEF OwnedInit
  <1> QED
    BY <1>1, <1>3, <1>4 DEF OwnedInv, CheckStillHolds

\* Nothing moves.
LEMMA OwnedRests ==
  ASSUME OwnedInv, UNCHANGED ownedVars
  PROVE  OwnedInv'
  BY DEF OwnedInv, OwnedTypeOK, OwnedCallFits, CheckStillHolds, Owns, ownedVars

\* What the run checks of the owned provider.
LEMMA OwnedHolds ==
  ASSUME OwnedInv
  PROVE  OwnedTypeOK /\ ActsOnItsOwn
  BY DEF OwnedInv, OwnedCallFits, ActsOnItsOwn

-----------------------------------------------------------------------------
(***************************************************************************)
(* Activation.                                                             *)
(***************************************************************************)
\* Where an activation is says what it saw and asked for so far.
ActivationInv ==
    /\ ActivationTypeOK
    /\ activation.at \in {"describe", "settle"} => activation.asked = "none"
    /\ activation.at \in {"start", "resume"} =>
         /\ activation.asked = "none" /\ activation.acts \in StableStates \ {"Running"}
         /\ activation.at = "resume" <=> activation.acts = "Paused"
    /\ activation.asked # "none" =>
         /\ activation.acts \in StableStates \ {"Running"}
         /\ activation.asked = "resume" <=> activation.acts = "Paused"
    /\ activation.at \in {"reach", "probe", "stream", "ok"} /\ activation.acts # "Running" =>
         activation.asked # "none"
    /\ activation.at \in {"probe", "stream", "ok"} => activation.running
    /\ activation.at = "stream" => activation.probed = {"buffered"}
    /\ activation.at = "ok" => activation.probed = {"buffered", "streaming"}

\* A settled state decides what comes next.
LEMMA SettledKeeps ==
  ASSUME ActivationInv, activation.at \in {"describe", "settle"}, sandboxState \in StableStates,
         Settled, UNCHANGED sandboxState
  PROVE  ActivationInv'
  <1>1. activation \in ActivationCalls /\ sandboxState \in SandboxStates
    BY DEF ActivationInv, ActivationTypeOK
  <1> DEFINE next == CASE sandboxState = "Running" -> "probe"
                       [] sandboxState = "Paused" -> "resume"
                       [] OTHER -> "start"
  <1>2. /\ next \in {"probe", "resume", "start"}
        /\ next = "probe" <=> sandboxState = "Running"
        /\ next = "resume" <=> sandboxState = "Paused"
    OBVIOUS
  <1>3. activation' = [activation EXCEPT !.at = next, !.acts = sandboxState,
                                         !.running = sandboxState = "Running"]
    BY DEF Settled
  <1> HIDE DEF next
  <1>4. (sandboxState = "Running") \in BOOLEAN
    OBVIOUS
  <1>5. activation' \in ActivationCalls
    BY <1>1, <1>2, <1>3, <1>4 DEF ActivationCalls
  <1>6. /\ activation'.at = next /\ activation'.acts = sandboxState
        /\ activation'.asked = activation.asked
        /\ activation'.running = (sandboxState = "Running")
    BY <1>1, <1>3 DEF ActivationCalls
  <1> QED
    BY <1>1, <1>2, <1>5, <1>6 DEF ActivationInv, ActivationTypeOK

\* The call moves on, its record otherwise as it was.
LEMMA ActivationFailsKeeps ==
  ASSUME ActivationInv, ActivationFails
  PROVE  ActivationInv'
  <1>1. activation \in ActivationCalls
    BY DEF ActivationInv, ActivationTypeOK
  <1>2. /\ activation' \in ActivationCalls /\ activation'.at = "failed"
        /\ activation'.asked = activation.asked /\ activation'.acts = activation.acts
    BY <1>1 DEF ActivationFails, ActivationCalls
  <1> QED
    BY <1>2 DEF ActivationInv, ActivationTypeOK, ActivationFails

\* A step of an activation, or of the sandbox under it.
LEMMA ActivationStep ==
  ASSUME ActivationInv, ActivationNext
  PROVE  ActivationInv'
  <1>0. activation \in ActivationCalls /\ sandboxState \in SandboxStates
    BY DEF ActivationInv, ActivationTypeOK
  <1>1. CASE ActivationFails
    BY <1>1, ActivationFailsKeeps
  <1>2. CASE UNCHANGED activationVars
    BY <1>2 DEF ActivationInv, ActivationTypeOK, activationVars
  <1>3. ASSUME Describes, ~ActivationFails PROVE ActivationInv'
    <2>1. CASE activation' = [activation EXCEPT !.at = "settle"] /\ UNCHANGED sandboxState
      <3>1. /\ activation' \in ActivationCalls /\ activation'.at = "settle"
            /\ activation'.asked = activation.asked /\ activation'.acts = activation.acts
        BY <1>0, <2>1 DEF ActivationCalls
      <3> QED
        BY <1>3, <2>1, <3>1 DEF ActivationInv, ActivationTypeOK, Describes
    <2> QED
      BY <1>3, <2>1, SettledKeeps DEF Describes
  <1>4. ASSUME PollsStable, ~ActivationFails PROVE ActivationInv'
    BY <1>2, <1>4, SettledKeeps DEF PollsStable
  <1>5. ASSUME Asks, ~ActivationFails PROVE ActivationInv'
    <2>1. /\ activation' \in ActivationCalls /\ activation'.at = "reach"
          /\ activation'.asked = activation.at /\ activation'.acts = activation.acts
      BY <1>0, <1>5 DEF ActivationCalls, Asks
    <2>2. sandboxState' \in SandboxStates
      BY <1>0, <1>5 DEF Asks, SandboxStates, StableStates
    <2> QED
      BY <1>5, <2>1, <2>2 DEF ActivationInv, ActivationTypeOK, Asks
  <1>6. ASSUME PollsRunning, ~ActivationFails PROVE ActivationInv'
    <2>1. CASE /\ activation' = [activation EXCEPT !.at = "probe", !.running = TRUE]
               /\ UNCHANGED sandboxState
      <3>1. /\ activation' \in ActivationCalls /\ activation'.at = "probe"
            /\ activation'.asked = activation.asked /\ activation'.acts = activation.acts
            /\ activation'.running = TRUE
        BY <1>0, <2>1 DEF ActivationCalls
      <3> QED
        BY <1>6, <2>1, <3>1 DEF ActivationInv, ActivationTypeOK, PollsRunning
    <2> QED
      BY <1>2, <1>6, <2>1 DEF PollsRunning
  <1>7. ASSUME ProbesBuffered, ~ActivationFails PROVE ActivationInv'
    <2>1. /\ activation' \in ActivationCalls /\ activation'.at = "stream"
          /\ activation'.asked = activation.asked /\ activation'.acts = activation.acts
          /\ activation'.running = activation.running /\ activation'.probed = {"buffered"}
      BY <1>0, <1>7 DEF ActivationCalls, ProbesBuffered
    <2> QED
      BY <1>7, <2>1 DEF ActivationInv, ActivationTypeOK, ProbesBuffered
  <1>8. ASSUME ProbesStreaming, ~ActivationFails PROVE ActivationInv'
    <2>1. /\ activation' \in ActivationCalls /\ activation'.at = "ok"
          /\ activation'.asked = activation.asked /\ activation'.acts = activation.acts
          /\ activation'.running = activation.running
          /\ activation'.probed = activation.probed \cup {"streaming"}
      BY <1>0, <1>8 DEF ActivationCalls, ProbesStreaming
    <2> QED
      BY <1>8, <2>1 DEF ActivationInv, ActivationTypeOK, ProbesStreaming
  <1>9. ASSUME SandboxMoves PROVE ActivationInv'
    BY <1>0, <1>9 DEF ActivationInv, ActivationTypeOK, SandboxMoves
  <1> QED
    BY <1>1, <1>3, <1>4, <1>5, <1>6, <1>7, <1>8, <1>9 DEF ActivationNext

\* An activation starts by looking.
LEMMA ActivationInitially ==
  ASSUME ActivationInit
  PROVE  ActivationInv
  BY DEF ActivationInit, ActivationInv, ActivationTypeOK, ActivationCalls

\* Nothing moves.
LEMMA ActivationRests ==
  ASSUME ActivationInv, UNCHANGED activationVars
  PROVE  ActivationInv'
  BY DEF ActivationInv, ActivationTypeOK, activationVars

\* What the run checks of an activation.
LEMMA ActivationHolds ==
  ASSUME ActivationInv
  PROVE  ActivationTypeOK /\ ActivatedMeansUsable
  BY DEF ActivationInv, ActivatedMeansUsable

-----------------------------------------------------------------------------
(***************************************************************************)
(* Daytona: sandboxes, snapshots and volumes.                              *)
(***************************************************************************)
\* The steps of a create before its request: no sandbox exists yet.
BeforePost == {"image_list", "image_create", "image_activate", "image_poll", "post"}

\* What is left of a sandbox nobody has to be told about.
Accounted == vm \in {"absent", "destroyed", "gone"} \/ revived

\* One call: an answer is true, and so is an undelete before it looks again; the calls on a
\* sandbox come after it was made, the request of a create before.
RequestFits(r) ==
    /\ r.op = "none" => r.at = "idle"
    /\ r.at = "done" => r.met
    /\ r.op = "undelete" /\ r.at = "again" => r.met
    /\ r.op \in Lifecycle \cup Looked => vm # "absent"
    /\ r.op = "create" /\ r.at \in BeforePost => vm = "absent"
    /\ r.op = "create" /\ r.at = "failed" /\ ~r.named => Accounted

\* A snapshot that was ever usable was written.
UsableIsWritten(i) == i.state \in {"active", "inactive", "deactivating"} => i.written

\* There is one create.
OneCreate ==
    \A c, d \in ApiClients : request[c].op = "create" /\ request[d].op = "create" => c = d

\* Only a create made the sandbox.
SomeoneCreated == vm # "absent" => \E c \in ApiClients : request[c].op = "create"

DaytonaInv ==
    /\ DaytonaTypeOK
    /\ UsableIsWritten(image)
    /\ OneCreate
    /\ SomeoneCreated
    /\ \A c \in ApiClients : RequestFits(request[c])

\* What no step undoes: a sandbox that was made, one that is gone, an undelete, and, but for
\* the request of a create, that none was made.
SandboxKeeps(c) ==
    /\ vm # "absent" => vm' # "absent"
    /\ vm \in {"destroyed", "gone"} => vm' \in {"destroyed", "gone"} \/ revived'
    /\ revived => revived'
    /\ vm = "absent" => vm' = "absent" \/ AtStep(c, {"create"}, "post")

RecordsTyped ==
    /\ vm \in VmStates
    /\ child \in {"none", "starting", "started", "error"}
    /\ image \in [state : ImageStates, written : BOOLEAN]
    /\ volume \in VolumeStates
    /\ apiErrors \in 0..MaxApiErrors
    /\ revived \in BOOLEAN

\* What Noted makes of one call.
LEMMA NotedCall ==
  ASSUME NEW r \in [ApiClients -> Requests], Noted(r), NEW d \in ApiClients,
         r[d].op = "none" => r[d].at = "idle"
  PROVE  /\ request'[d] \in Requests
         /\ request'[d].op = r[d].op /\ request'[d].at = r[d].at /\ request'[d].named = r[d].named
         /\ r[d].at # "failed" /\ r[d].met => request'[d].met
         /\ /\ r[d].op # "none" /\ r[d].at # "failed" /\ ~(r[d].at = "done" /\ request[d].at = "done")
            /\ GoalMet(r[d].op, vm', image', volume')
            => request'[d].met
  <1> DEFINE goal == GoalMet(r[d].op, vm', image', volume')
  <1>1. request'[d] =
          CASE r[d].op = "none" -> r[d]
            [] r[d].at = "failed" -> [r[d] EXCEPT !.met = FALSE]
            [] r[d].at = "done" /\ request[d].at = "done" -> r[d]
            [] OTHER -> [r[d] EXCEPT !.met = @ \/ goal]
    BY DEF Noted
  <1> HIDE DEF goal
  <1>0. r[d] \in Requests
    OBVIOUS
  <1>2. CASE r[d].op = "none"
    <2>1. request'[d] = r[d]
      BY <1>1, <1>2
    <2> QED
      BY <1>0, <1>2, <2>1
  <1>3. CASE r[d].op # "none" /\ r[d].at = "failed"
    <2>1. request'[d] = [r[d] EXCEPT !.met = FALSE]
      BY <1>1, <1>3
    <2> QED
      BY <1>0, <1>3, <2>1 DEF Requests
  <1>4. CASE r[d].op # "none" /\ r[d].at = "done" /\ request[d].at = "done"
    <2>1. request'[d] = r[d]
      BY <1>1, <1>4
    <2> QED
      BY <1>0, <1>4, <2>1
  <1>5. CASE r[d].op # "none" /\ r[d].at # "failed" /\ ~(r[d].at = "done" /\ request[d].at = "done")
    <2>1. request'[d] = [r[d] EXCEPT !.met = r[d].met \/ goal]
      BY <1>1, <1>5
    <2>2. (r[d].met \/ goal) \in BOOLEAN
      OBVIOUS
    <2>3. ASSUME NEW b \in BOOLEAN
          PROVE  /\ [r[d] EXCEPT !.met = b] \in Requests
                 /\ [r[d] EXCEPT !.met = b].met = b
                 /\ [r[d] EXCEPT !.met = b].op = r[d].op
                 /\ [r[d] EXCEPT !.met = b].at = r[d].at
                 /\ [r[d] EXCEPT !.met = b].named = r[d].named
      BY <1>0 DEF Requests
    <2>4. /\ request'[d] \in Requests
          /\ request'[d].op = r[d].op /\ request'[d].at = r[d].at /\ request'[d].named = r[d].named
          /\ request'[d].met = (r[d].met \/ goal)
      BY <2>1, <2>2, <2>3
    <2> QED
      BY <2>4 DEF goal
  <1> QED
    BY <1>2, <1>3, <1>4, <1>5

\* A step changes the records and one call, or none.
LEMMA RequestMoves ==
  ASSUME DaytonaInv, NEW c \in ApiClients, NEW q \in Requests,
         NEW r, r = [request EXCEPT ![c] = q], Noted(r),
         RecordsTyped', UsableIsWritten(image'), SandboxKeeps(c),
         q.op = "none" => q.at = "idle",
         q.op = "create" => request[c].op = "create" \/ \A d \in ApiClients : request[d].op # "create",
         request[c].op = "create" => q.op = "create",
         q.at = "done" => q.met \/ (request[c].at # "done" /\ GoalMet(q.op, vm', image', volume')),
         q.op = "undelete" /\ q.at = "again" => q.met \/ GoalMet(q.op, vm', image', volume'),
         q.op \in Lifecycle \cup Looked => vm' # "absent",
         q.op = "create" /\ q.at \in BeforePost => vm' = "absent",
         q.op = "create" /\ q.at = "failed" /\ ~q.named => Accounted'
  PROVE  DaytonaInv'
  <1>0. request \in [ApiClients -> Requests]
    BY DEF DaytonaInv, DaytonaTypeOK
  <1>1. r \in [ApiClients -> Requests] /\ r[c] = q /\ \A d \in ApiClients \ {c} : r[d] = request[d]
    BY <1>0
  <1>2. \A d \in ApiClients : RequestFits(request[d])
    BY DEF DaytonaInv
  <1>3. \A d \in ApiClients : r[d].op = "none" => r[d].at = "idle"
    BY <1>1, <1>2 DEF RequestFits
  <1>4. \A d \in ApiClients :
          /\ request'[d] \in Requests
          /\ request'[d].op = r[d].op /\ request'[d].at = r[d].at /\ request'[d].named = r[d].named
          /\ r[d].at # "failed" /\ r[d].met => request'[d].met
          /\ /\ r[d].op # "none" /\ r[d].at # "failed" /\ ~(r[d].at = "done" /\ request[d].at = "done")
             /\ GoalMet(r[d].op, vm', image', volume')
             => request'[d].met
    BY <1>1, <1>3, NotedCall
  <1>5. request' \in [ApiClients -> Requests]
    <2>1. \E f : request' = [d \in ApiClients |-> f[d]]
      <3> DEFINE f == [d \in ApiClients |->
        CASE r[d].op = "none" -> r[d]
          [] r[d].at = "failed" -> [r[d] EXCEPT !.met = FALSE]
          [] r[d].at = "done" /\ request[d].at = "done" -> r[d]
          [] OTHER -> [r[d] EXCEPT !.met = @ \/ GoalMet(r[d].op, vm', image', volume')]]
      <3>1. request' = f
        BY DEF Noted
      <3>2. f = [d \in ApiClients |-> f[d]]
        OBVIOUS
      <3> HIDE DEF f
      <3> QED
        BY <3>1, <3>2
    <2> QED
      BY <1>4, <2>1
  <1>6. DaytonaTypeOK'
    BY <1>5 DEF DaytonaTypeOK, RecordsTyped
  <1>7. OneCreate'
    <2>1. \A d \in ApiClients \ {c} : request'[d].op = request[d].op
      BY <1>1, <1>4
    <2>2. request'[c].op = q.op
      BY <1>1, <1>4
    <2> QED
      BY <2>1, <2>2 DEF OneCreate, DaytonaInv
  <1>8. ASSUME NEW d \in ApiClients PROVE RequestFits(request[d])'
    <2>1. CASE d = c
      <3>1. /\ request'[d].op = q.op /\ request'[d].at = q.at /\ request'[d].named = q.named
            /\ q.at # "failed" /\ q.met => request'[d].met
            /\ /\ q.op # "none" /\ q.at # "failed" /\ ~(q.at = "done" /\ request[c].at = "done")
               /\ GoalMet(q.op, vm', image', volume')
               => request'[d].met
        BY <1>1, <1>4, <2>1
      <3>2. request'[d].at = "done" => request'[d].met
        BY <3>1
      <3>3. request'[d].op = "undelete" /\ request'[d].at = "again" => request'[d].met
        BY <3>1
      <3> QED
        BY <3>1, <3>2, <3>3 DEF RequestFits
    <2>2. CASE d # c
      <3>1. /\ request'[d].op = request[d].op /\ request'[d].at = request[d].at
            /\ request'[d].named = request[d].named
            /\ request[d].at # "failed" /\ request[d].met => request'[d].met
        BY <1>1, <1>4, <2>2
      <3>2. RequestFits(request[d])
        BY <1>2
      <3>3. request[d].op = "create" => ~AtStep(c, {"create"}, "post")
        BY <2>2 DEF AtStep, DaytonaInv, OneCreate
      <3>4. request[d].op = "create" /\ Accounted => Accounted'
        BY <3>3 DEF Accounted, SandboxKeeps
      <3>5. request[d].op = "create" /\ vm = "absent" => vm' = "absent"
        BY <3>3 DEF SandboxKeeps
      <3>6. vm # "absent" => vm' # "absent"
        BY DEF SandboxKeeps
      <3> QED
        BY <3>1, <3>2, <3>4, <3>5, <3>6 DEF RequestFits
    <2> QED
      BY <2>1, <2>2
  <1>9. SomeoneCreated'
    <2>1. \A d \in ApiClients : request[d].op = "create" => request'[d].op = "create"
      BY <1>1, <1>4
    <2>2. vm # "absent" => \E d \in ApiClients : request[d].op = "create"
      BY DEF DaytonaInv, SomeoneCreated
    <2>3. vm = "absent" /\ vm' # "absent" => request[c].op = "create"
      BY DEF SandboxKeeps, AtStep
    <2> QED
      BY <2>1, <2>2, <2>3 DEF SomeoneCreated
  <1> QED
    BY <1>6, <1>7, <1>8, <1>9 DEF DaytonaInv, UsableIsWritten

\* A call that is under way goes on, and the records change as they may.
LEMMA CallGoesOn ==
  ASSUME DaytonaInv, NEW c \in ApiClients, NEW at \in Steps \ {"idle"}, request[c].op # "none",
         Noted(GoesOn(c, at)), RecordsTyped', UsableIsWritten(image'), SandboxKeeps(c),
         at = "done" => request[c].met
                        \/ (request[c].at # "done" /\ GoalMet(request[c].op, vm', image', volume')),
         request[c].op = "undelete" /\ at = "again" =>
            request[c].met \/ GoalMet(request[c].op, vm', image', volume'),
         request[c].op = "create" /\ at \in BeforePost => vm' = "absent",
         request[c].op = "create" /\ at = "failed" => Accounted'
  PROVE  DaytonaInv'
  <1> DEFINE q == [request[c] EXCEPT !.at = at]
  <1>1. request \in [ApiClients -> Requests] /\ request[c] \in Requests
    BY DEF DaytonaInv, DaytonaTypeOK
  <1>2. q \in Requests /\ q.op = request[c].op /\ q.at = at /\ q.met = request[c].met
    BY <1>1 DEF Requests
  <1>3. GoesOn(c, at) = [request EXCEPT ![c] = q]
    BY <1>1 DEF GoesOn
  <1>4. request[c].op \in Lifecycle \cup Looked => vm' # "absent"
    BY DEF DaytonaInv, RequestFits, SandboxKeeps
  <1> HIDE DEF q
  <1> QED
    BY <1>2, <1>3, <1>4, RequestMoves

\* The records stay typed and usable snapshots written.
LEMMA RecordsAre ==
  ASSUME DaytonaInv
  PROVE  RecordsTyped /\ UsableIsWritten(image)
  BY DEF DaytonaInv, DaytonaTypeOK, RecordsTyped

\* A step that changes no record.
LEMMA CallKeeps ==
  ASSUME DaytonaInv, NEW c \in ApiClients, NEW at \in Steps \ {"idle"}, request[c].op # "none",
         Keep(c, at),
         at = "done" => request[c].met
                        \/ (request[c].at # "done" /\ GoalMet(request[c].op, vm, image, volume)),
         request[c].op = "undelete" => at # "again",
         request[c].op = "create" /\ at \in BeforePost => vm = "absent",
         request[c].op = "create" /\ at = "failed" => Accounted
  PROVE  DaytonaInv'
  <1>1. UNCHANGED <<vm, child, image, volume, apiErrors, revived>> /\ Noted(GoesOn(c, at))
    BY DEF Keep
  <1>2. RecordsTyped' /\ UsableIsWritten(image')
    BY <1>1, RecordsAre DEF RecordsTyped, UsableIsWritten
  <1>3. SandboxKeeps(c)
    BY <1>1 DEF SandboxKeeps
  <1>4. Accounted => Accounted'
    BY <1>1 DEF Accounted
  <1>5. GoalMet(request[c].op, vm, image, volume) = GoalMet(request[c].op, vm', image', volume')
    BY <1>1
  <1> QED
    BY <1>1, <1>2, <1>3, <1>4, <1>5, CallGoesOn

\* A refused request changes no record.
LEMMA CallRefused ==
  ASSUME DaytonaInv, NEW c \in ApiClients, request[c].op # "none",
         NEW at \in {"failed", "clean", "image_recheck", "volume_recheck"}, ApiRefuses(c, at),
         request[c].op = "create" /\ at = "failed" => Accounted
  PROVE  DaytonaInv'
  <1>1. UNCHANGED <<vm, child, image, volume, revived>> /\ Noted(GoesOn(c, at))
    BY DEF ApiRefuses
  <1>2. apiErrors' \in 0..MaxApiErrors
    BY ApiErrorsAssumption, RecordsAre DEF ApiRefuses, RecordsTyped
  <1>3. RecordsTyped' /\ UsableIsWritten(image')
    BY <1>1, <1>2, RecordsAre DEF RecordsTyped, UsableIsWritten
  <1>4. SandboxKeeps(c)
    BY <1>1 DEF SandboxKeeps
  <1>5. Accounted => Accounted'
    BY <1>1 DEF Accounted
  <1>6. at \in Steps \ {"idle"}
    BY DEF Steps
  <1>7. at \notin {"done", "again"} \cup BeforePost
    BY DEF BeforePost
  <1> QED
    BY <1>1, <1>3, <1>4, <1>5, <1>6, <1>7, CallGoesOn

\* A request the service takes moves the sandbox.
LEMMA CallMovesVm ==
  ASSUME DaytonaInv, NEW c \in ApiClients, NEW at \in Steps \ {"idle"}, request[c].op # "none",
         Noted(GoesOn(c, at)), vm' \in VmStates, SandboxKeeps(c),
         UNCHANGED <<child, image, volume>>, apiErrors' \in 0..MaxApiErrors, revived' \in BOOLEAN,
         at = "done" => (request[c].at # "done" /\ GoalMet(request[c].op, vm', image', volume')),
         request[c].op = "undelete" /\ at = "again" => GoalMet(request[c].op, vm', image', volume'),
         request[c].op = "create" /\ at \in BeforePost => vm' = "absent",
         request[c].op = "create" /\ at = "failed" => Accounted'
  PROVE  DaytonaInv'
  <1>1. RecordsTyped' /\ UsableIsWritten(image')
    BY RecordsAre DEF RecordsTyped, UsableIsWritten
  <1> QED
    BY <1>1, CallGoesOn

\* What a lifecycle request does to the sandbox: it moves one that is there and not yet gone.
LEMMA BecomesMoves ==
  ASSUME NEW op \in Operations, vm \in VmStates, vm' \in Becomes(op), revived' = revived,
         NEW c
  PROVE  /\ vm' \in VmStates /\ SandboxKeeps(c)
         /\ op = "delete" => vm' = "destroying"
         /\ op = "archive" => vm' = "archiving"
  BY DEF Becomes, VmStates, SandboxKeeps, Dead, InProgress

\* What the states a call looks at stand for.
LEMMA StatesMapped ==
  ASSUME vm \in VmStates
  PROVE  /\ map_state(vm) = "Running" <=> vm \in {"started", "snapshotting"}
         /\ map_state(vm) = "Stopped" <=> vm = "stopped"
         /\ map_state(vm) = "Archived" <=> vm = "archived"
         /\ map_state(vm) = "Deleting" <=> vm = "destroying"
         /\ map_state(vm) = "Deleted" <=> vm \in {"destroyed", "gone", "absent"}
  BY DEF map_state, VmStates

\* The same for a snapshot's states.
LEMMA ImagesMapped ==
  ASSUME image.state \in ImageStates, Visible
  PROVE  /\ map_snapshot_state(image.state) = "Active" <=> image.state = "active"
         /\ map_snapshot_state(image.state) = "Inactive" <=> image.state \in {"inactive", "deactivating"}
  BY DEF map_snapshot_state, ImageStates, Visible

\* The same for a volume's states.
LEMMA VolumesMapped ==
  ASSUME volume \in VolumeStates, volume # "absent"
  PROVE  /\ map_volume_state(volume) = "Deleting" <=> volume = "deleting"
         /\ map_volume_state(volume) = "Deleted" <=> volume = "deleted"
  BY DEF map_volume_state, VolumeStates

\* When a goal is met, operation by operation.
LEMMA Goals ==
  ASSUME NEW op, NEW s, NEW i, NEW v
  PROVE  /\ op \in {"create", "start"} /\ map_state(s) = "Running" => GoalMet(op, s, i, v)
         /\ op = "stop" /\ s \in {"stopped", "archived", "destroyed", "gone"} => GoalMet(op, s, i, v)
         /\ op = "delete" /\ s \in Dead => GoalMet(op, s, i, v)
         /\ op = "archive" /\ s \in {"archiving", "archived"} => GoalMet(op, s, i, v)
         /\ op = "undelete" /\ s \notin Dead => GoalMet(op, s, i, v)
         /\ op \in Snapshotting /\ i.written => GoalMet(op, s, i, v)
         /\ op = "ensure" /\ i.state = "active" => GoalMet(op, s, i, v)
         /\ op = "image_delete" /\ i.state \in {"absent", "pending", "removing"} => GoalMet(op, s, i, v)
         /\ op = "volume_delete" /\ v \in {"absent", "deleting", "deleted"} => GoalMet(op, s, i, v)
         /\ op \in {"pause", "fork", "activate", "deactivate", "volume_create"} => GoalMet(op, s, i, v)
  BY DEF GoalMet, Snapshotting

\* The types a step starts from.
LEMMA DaytonaTyped ==
  ASSUME DaytonaInv, NEW c \in ApiClients
  PROVE  /\ vm \in VmStates /\ image \in [state : ImageStates, written : BOOLEAN]
         /\ image.state \in ImageStates /\ volume \in VolumeStates
         /\ apiErrors \in 0..MaxApiErrors /\ revived \in BOOLEAN
         /\ request[c] \in Requests /\ RequestFits(request[c]) /\ UsableIsWritten(image)
  BY DEF DaytonaInv, DaytonaTypeOK

\* start looks first: a running sandbox is started.
LEMMA start_innerKeeps ==
  ASSUME DaytonaInv, NEW c \in ApiClients, start_inner(c)
  PROVE  DaytonaInv'
  <1>0. /\ vm \in VmStates /\ image.state \in ImageStates /\ volume \in VolumeStates
        /\ RequestFits(request[c]) /\ UsableIsWritten(image)
    BY DaytonaTyped
  <1>1. request[c].op = "start" /\ request[c].at = "look"
    BY DEF start_inner, AtStep
  <1>2. CASE ApiRefuses(c, "failed")
    BY <1>1, <1>2, CallRefused
  <1>3. CASE Keep(c, "failed")
    BY <1>1, <1>3, CallKeeps DEF Steps
  <1>4. CASE map_state(vm) = "Running" /\ Keep(c, "done")
    BY <1>1, <1>4, CallKeeps, Goals DEF Steps
  <1>5. CASE Keep(c, "post")
    BY <1>1, <1>5, CallKeeps DEF Steps
  <1> QED
    BY <1>2, <1>3, <1>4, <1>5 DEF start_inner

\* The request of a start, stop or delete.
LEMMA LifecycleCallKeeps ==
  ASSUME DaytonaInv, NEW c \in ApiClients, LifecycleCall(c)
  PROVE  DaytonaInv'
  <1>0. /\ vm \in VmStates /\ image.state \in ImageStates /\ volume \in VolumeStates
        /\ RequestFits(request[c]) /\ UsableIsWritten(image)
    BY DaytonaTyped
  <1> DEFINE op == request[c].op
  <1>1. op \in Lifecycle /\ request[c].at = "post" /\ vm # "absent"
    BY <1>0 DEF LifecycleCall, AtStep, RequestFits
  <1>2. op # "none" /\ op # "create" /\ op # "undelete" /\ op \in Operations
    BY <1>1 DEF Lifecycle, Operations, OnSandbox
  <1>3. apiErrors \in 0..MaxApiErrors /\ revived \in BOOLEAN
    BY DaytonaTyped
  <1>4. CASE /\ vm' \in Becomes(op) /\ UNCHANGED <<child, image, volume, apiErrors, revived>>
             /\ Noted(GoesOn(c, IF op \in Awaited THEN "landed" ELSE "done"))
    <2>1. vm' \in VmStates /\ SandboxKeeps(c) /\ (op = "delete" => vm' = "destroying")
      BY <1>0, <1>2, <1>4, BecomesMoves
    <2>2. op \notin Awaited => op = "delete"
      BY <1>1 DEF Lifecycle, Awaited
    <2>3. op \notin Awaited => GoalMet(op, vm', image', volume')
      BY <2>1, <2>2, Goals DEF Dead
    <2> QED
      BY <1>1, <1>2, <1>3, <1>4, <2>1, <2>3, CallMovesVm DEF Steps
  <1>5. CASE /\ vm' \in Becomes(op) /\ apiErrors < MaxApiErrors /\ apiErrors' = apiErrors + 1
             /\ UNCHANGED <<child, image, volume, revived>> /\ Noted(GoesOn(c, "failed"))
    <2>1. vm' \in VmStates /\ SandboxKeeps(c)
      BY <1>0, <1>2, <1>5, BecomesMoves
    <2>2. apiErrors' \in 0..MaxApiErrors
      BY <1>3, <1>5, ApiErrorsAssumption
    <2> QED
      BY <1>1, <1>2, <1>3, <1>5, <2>1, <2>2, CallMovesVm DEF Steps
  <1>6. CASE (IsNotFound \/ vm = "destroyed") /\ Keep(c, IF op = "start" THEN "failed" ELSE "done")
    <2>1. vm \in {"destroyed", "gone"}
      BY <1>1, <1>6 DEF IsNotFound
    <2>2. op # "start" => GoalMet(op, vm, image, volume)
      BY <1>1, <2>1, Goals DEF Dead, Lifecycle
    <2> QED
      BY <1>1, <1>2, <1>6, <2>2, CallKeeps DEF Steps
  <1>7. CASE Keep(c, "wait")
    BY <1>1, <1>2, <1>7, CallKeeps DEF Steps
  <1>8. CASE Keep(c, "failed")
    BY <1>1, <1>2, <1>8, CallKeeps DEF Steps
  <1>9. CASE ApiRefuses(c, "failed")
    BY <1>2, <1>9, CallRefused
  <1> QED
    BY <1>4, <1>5, <1>6, <1>7, <1>8, <1>9 DEF LifecycleCall

\* A start, stop or pause has landed.
LEMMA LandedKeeps ==
  ASSUME DaytonaInv, NEW c \in ApiClients, Landed(c)
  PROVE  DaytonaInv'
  <1>0. /\ vm \in VmStates /\ image.state \in ImageStates /\ volume \in VolumeStates
        /\ RequestFits(request[c]) /\ UsableIsWritten(image)
    BY DaytonaTyped
  <1> DEFINE op == request[c].op
             ok == CASE op = "start" -> map_state(vm) = "Running"
                     [] op = "stop" -> vm \in {"stopped", "archived", "destroyed", "gone"}
                     [] op = "pause" -> TRUE
  <1>1. op \in Awaited /\ request[c].at = "landed"
    BY DEF Landed, AtStep
  <1>2. op # "none" /\ op # "create" /\ op # "undelete"
    BY <1>1 DEF Awaited
  <1>3. ok => GoalMet(op, vm, image, volume)
    BY <1>1, Goals DEF Awaited
  <1>4. Keep(c, IF ok THEN "done" ELSE "failed") \/ ApiRefuses(c, "failed")
    BY DEF Landed
  <1> HIDE DEF ok
  <1>5. CASE ok /\ Keep(c, "done")
    BY <1>1, <1>2, <1>3, <1>5, CallKeeps DEF Steps
  <1>6. CASE Keep(c, "failed")
    BY <1>1, <1>2, <1>6, CallKeeps DEF Steps
  <1>7. CASE ApiRefuses(c, "failed")
    BY <1>2, <1>7, CallRefused
  <1> QED
    BY <1>4, <1>5, <1>6, <1>7

\* A call that waits for somebody else's change.
LEMMA wait_for_stateKeeps ==
  ASSUME DaytonaInv, NEW c \in ApiClients, wait_for_state(c)
  PROVE  DaytonaInv'
  <1>0. /\ vm \in VmStates /\ image.state \in ImageStates /\ volume \in VolumeStates
        /\ RequestFits(request[c]) /\ UsableIsWritten(image)
    BY DaytonaTyped
  <1> DEFINE op == request[c].op
  <1>1. op \in Lifecycle /\ request[c].at = "wait" /\ vm # "absent"
    BY <1>0 DEF wait_for_state, AtStep, RequestFits
  <1>2. op # "none" /\ op # "create" /\ op # "undelete"
    BY <1>1 DEF Lifecycle
  <1>3. settled(op, map_state(vm)) => GoalMet(op, vm, image, volume)
    BY <1>0, <1>1, StatesMapped, Goals DEF settled, Lifecycle, Dead
  <1>4. CASE settled(op, map_state(vm)) /\ Keep(c, "done")
    BY <1>1, <1>2, <1>3, <1>4, CallKeeps DEF Steps
  <1>5. CASE Keep(c, "pause")
    BY <1>1, <1>2, <1>5, CallKeeps DEF Steps
  <1>6. CASE Keep(c, "failed")
    BY <1>1, <1>2, <1>6, CallKeeps DEF Steps
  <1>7. CASE ApiRefuses(c, "failed")
    BY <1>2, <1>7, CallRefused
  <1> QED
    BY <1>4, <1>5, <1>6, <1>7 DEF wait_for_state

\* A pause before the next request.
LEMMA transition_retry_pauseKeeps ==
  ASSUME DaytonaInv, NEW c \in ApiClients, transition_retry_pause(c)
  PROVE  DaytonaInv'
  <1>1. request[c].op \in Lifecycle
    BY DEF transition_retry_pause, AtStep
  <1>2. request[c].op # "none" /\ request[c].op # "create" /\ request[c].op # "undelete"
    BY <1>1 DEF Lifecycle
  <1>3. CASE Keep(c, "post")
    BY <1>2, <1>3, CallKeeps DEF Steps
  <1>4. CASE Keep(c, "failed")
    BY <1>2, <1>4, CallKeeps DEF Steps
  <1> QED
    BY <1>3, <1>4 DEF transition_retry_pause

\* A create that fails and names its sandbox.
LEMMA CreateNamed ==
  ASSUME DaytonaInv, NEW c \in ApiClients, request[c].op = "create",
         Noted([request EXCEPT ![c].at = "failed", ![c].named = TRUE]),
         vm' \in VmStates, SandboxKeeps(c), UNCHANGED <<child, image, volume, revived>>,
         apiErrors' \in 0..MaxApiErrors
  PROVE  DaytonaInv'
  <1> DEFINE q == [request[c] EXCEPT !.at = "failed", !.named = TRUE]
             r == [request EXCEPT ![c].at = "failed", ![c].named = TRUE]
  <1>1. request \in [ApiClients -> Requests] /\ request[c] \in Requests
    BY DEF DaytonaInv, DaytonaTypeOK
  <1>2. q \in Requests /\ q.op = "create" /\ q.at = "failed" /\ q.named = TRUE
    BY <1>1 DEF Requests, Steps
  <1>3. r = [request EXCEPT ![c] = q]
    BY <1>1
  <1>4. RecordsTyped' /\ UsableIsWritten(image')
    BY RecordsAre DEF RecordsTyped, UsableIsWritten
  <1>5. q.op \notin Lifecycle \cup Looked
    BY <1>2 DEF Lifecycle, Looked
  <1>6. q.at \notin BeforePost
    BY <1>2 DEF BeforePost
  <1>7. Noted(r)
    OBVIOUS
  <1> HIDE DEF q, r
  <1> QED
    BY <1>2, <1>3, <1>4, <1>5, <1>6, <1>7, RequestMoves

\* The request of a create.
LEMMA CreateCallKeeps ==
  ASSUME DaytonaInv, NEW c \in ApiClients, CreateCall(c)
  PROVE  DaytonaInv'
  <1>0. /\ vm \in VmStates /\ image.state \in ImageStates /\ volume \in VolumeStates
        /\ RequestFits(request[c]) /\ UsableIsWritten(image)
    BY DaytonaTyped
  <1>1. request[c].op = "create" /\ request[c].at = "post" /\ vm = "absent"
    BY <1>0 DEF CreateCall, AtStep, RequestFits, BeforePost
  <1>2. apiErrors \in 0..MaxApiErrors /\ revived \in BOOLEAN
    BY DaytonaTyped
  <1>3. vm' \in VmStates /\ UNCHANGED <<child, image, volume, revived>>
    BY <1>1 DEF CreateCall, VmStates
  <1>4. SandboxKeeps(c)
    BY <1>1, <1>3 DEF SandboxKeeps, AtStep
  <1>5. CASE UNCHANGED apiErrors /\ Noted(GoesOn(c, "poll"))
    BY <1>1, <1>2, <1>3, <1>4, <1>5, CallMovesVm DEF Steps, BeforePost
  <1>6. CASE /\ apiErrors < MaxApiErrors /\ apiErrors' = apiErrors + 1
             /\ Noted([request EXCEPT ![c].at = "failed", ![c].named = TRUE])
    <2>1. apiErrors' \in 0..MaxApiErrors
      BY <1>2, <1>6, ApiErrorsAssumption
    <2> QED
      BY <1>1, <1>3, <1>4, <1>6, <2>1, CreateNamed
  <1> QED
    BY <1>5, <1>6 DEF CreateCall

\* A create waits for its sandbox.
LEMMA poll_startedKeeps ==
  ASSUME DaytonaInv, NEW c \in ApiClients, poll_started(c)
  PROVE  DaytonaInv'
  <1>1. request[c].op = "create" /\ request[c].at = "poll"
    BY DEF poll_started, AtStep
  <1>2. CASE Keep(c, "clean")
    BY <1>1, <1>2, CallKeeps DEF Steps, BeforePost
  <1>3. CASE Keep(c, "finish")
    BY <1>1, <1>3, CallKeeps DEF Steps, BeforePost
  <1>4. CASE ApiRefuses(c, "clean")
    BY <1>1, <1>4, CallRefused
  <1> QED
    BY <1>2, <1>3, <1>4 DEF poll_started

\* A create answers for a running sandbox.
LEMMA finish_createKeeps ==
  ASSUME DaytonaInv, NEW c \in ApiClients, finish_create(c)
  PROVE  DaytonaInv'
  <1>1. request[c].op = "create" /\ request[c].at = "finish"
    BY DEF finish_create, AtStep
  <1>2. CASE map_state(vm) = "Running" /\ Keep(c, "done")
    BY <1>1, <1>2, CallKeeps, Goals DEF Steps, BeforePost
  <1>3. CASE Keep(c, "clean")
    BY <1>1, <1>3, CallKeeps DEF Steps, BeforePost
  <1>4. CASE ApiRefuses(c, "clean")
    BY <1>1, <1>4, CallRefused
  <1> QED
    BY <1>2, <1>3, <1>4 DEF finish_create

\* The cleanup of a failed create.
LEMMA delete_and_confirmKeeps ==
  ASSUME DaytonaInv, NEW c \in ApiClients, delete_and_confirm(c)
  PROVE  DaytonaInv'
  <1>0. /\ vm \in VmStates /\ image.state \in ImageStates /\ volume \in VolumeStates
        /\ RequestFits(request[c]) /\ UsableIsWritten(image)
    BY DaytonaTyped
  <1>1. request[c].op = "create" /\ request[c].at \in {"clean", "confirm"}
    BY DEF delete_and_confirm, AtStep
  <1>2. apiErrors \in 0..MaxApiErrors /\ revived \in BOOLEAN
    BY DaytonaTyped
  <1>3. CASE (IsNotFound \/ vm = "destroyed") /\ Keep(c, "failed")
    <2>1. Accounted
      BY <1>3 DEF Accounted, IsNotFound
    <2> QED
      BY <1>1, <1>3, <2>1, CallKeeps DEF Steps, BeforePost
  <1>4. CASE /\ vm' \in Becomes("delete") /\ UNCHANGED <<child, image, volume, apiErrors, revived>>
             /\ Noted(GoesOn(c, "confirm"))
    <2>1. vm' \in VmStates /\ SandboxKeeps(c)
      BY <1>0, <1>4, BecomesMoves DEF Operations, OnSandbox, Lifecycle
    <2> QED
      BY <1>1, <1>2, <1>4, <2>1, CallMovesVm DEF Steps, BeforePost
  <1>5. CASE map_state(vm) = "Deleted" /\ Keep(c, "failed")
    <2>1. Accounted
      BY <1>0, <1>5, StatesMapped DEF Accounted
    <2> QED
      BY <1>1, <1>5, <2>1, CallKeeps DEF Steps, BeforePost
  <1>6. CASE /\ UNCHANGED <<vm, child, image, volume, revived>> /\ Unconfirmed(c)
             /\ apiErrors' \in {apiErrors, apiErrors + 1} \cap 0..MaxApiErrors
    <2>1. SandboxKeeps(c)
      BY <1>6 DEF SandboxKeeps
    <2> QED
      BY <1>0, <1>1, <1>6, <2>1, CreateNamed DEF Unconfirmed
  <1> QED
    BY <1>3, <1>4, <1>5, <1>6 DEF delete_and_confirm

\* An operation that fetches the sandbox first.
LEMMA FetchKeeps ==
  ASSUME DaytonaInv, NEW c \in ApiClients, Fetch(c)
  PROVE  DaytonaInv'
  <1>1. request[c].op \in Looked /\ request[c].op # "none" /\ request[c].op # "create"
    BY DEF Fetch, AtStep, Looked
  <1>2. CASE Keep(c, "failed")
    BY <1>1, <1>2, CallKeeps DEF Steps
  <1>3. CASE Keep(c, "post")
    BY <1>1, <1>3, CallKeeps DEF Steps
  <1>4. CASE ApiRefuses(c, "failed")
    BY <1>1, <1>4, CallRefused
  <1> QED
    BY <1>2, <1>3, <1>4 DEF Fetch

\* Archive answers as soon as it is under way, pause once it landed.
LEMMA archive_or_pauseKeeps ==
  ASSUME DaytonaInv, NEW c \in ApiClients, archive_or_pause(c)
  PROVE  DaytonaInv'
  <1>0. /\ vm \in VmStates /\ image.state \in ImageStates /\ volume \in VolumeStates
        /\ RequestFits(request[c]) /\ UsableIsWritten(image)
    BY DaytonaTyped
  <1>t. /\ image \in [state : ImageStates, written : BOOLEAN]
        /\ apiErrors \in 0..MaxApiErrors /\ revived \in BOOLEAN
    BY DaytonaTyped
  <1> DEFINE op == request[c].op
  <1>1. op \in {"archive", "pause"} /\ request[c].at = "post" /\ op \in Operations
    BY DEF archive_or_pause, AtStep, Operations, OnSandbox, Looked
  <1>2. CASE /\ vm' \in Becomes(op) /\ UNCHANGED <<child, image, volume, apiErrors, revived>>
             /\ Noted(GoesOn(c, IF op = "pause" THEN "landed" ELSE "done"))
    <2>1. vm' \in VmStates /\ SandboxKeeps(c) /\ (op = "archive" => vm' = "archiving")
      BY <1>0, <1>1, <1>2, BecomesMoves
    <2>2. op = "archive" => GoalMet(op, vm', image', volume')
      BY <2>1, Goals
    <2> QED
      BY <1>t, <1>1, <1>2, <2>1, <2>2, CallMovesVm DEF Steps
  <1>3. CASE Keep(c, "failed")
    BY <1>1, <1>3, CallKeeps DEF Steps
  <1>4. CASE ApiRefuses(c, "failed")
    BY <1>1, <1>4, CallRefused
  <1> QED
    BY <1>2, <1>3, <1>4 DEF archive_or_pause

\* A fork waits for its child.
LEMMA forkKeeps ==
  ASSUME DaytonaInv, NEW c \in ApiClients, fork(c)
  PROVE  DaytonaInv'
  <1>0. /\ vm \in VmStates /\ image.state \in ImageStates /\ volume \in VolumeStates
        /\ RequestFits(request[c]) /\ UsableIsWritten(image)
    BY DaytonaTyped
  <1>t. /\ image \in [state : ImageStates, written : BOOLEAN]
        /\ apiErrors \in 0..MaxApiErrors /\ revived \in BOOLEAN
    BY DaytonaTyped
  <1>1. request[c].op = "fork" /\ request[c].at \in {"post", "again"}
    BY DEF fork, AtStep
  <1>2. CASE /\ child' = "starting" /\ UNCHANGED <<vm, image, volume, apiErrors, revived>>
             /\ Noted(GoesOn(c, "again"))
    <2>1. RecordsTyped' /\ UsableIsWritten(image')
      BY <1>2, RecordsAre DEF RecordsTyped, UsableIsWritten
    <2>2. SandboxKeeps(c)
      BY <1>2 DEF SandboxKeeps
    <2> QED
      BY <1>1, <1>2, <2>1, <2>2, CallGoesOn DEF Steps
  <1>3. CASE Keep(c, "failed")
    BY <1>1, <1>3, CallKeeps DEF Steps
  <1>4. CASE Keep(c, "done")
    BY <1>1, <1>4, CallKeeps, Goals DEF Steps
  <1>5. CASE ApiRefuses(c, "failed")
    BY <1>1, <1>5, CallRefused
  <1> QED
    BY <1>2, <1>3, <1>4, <1>5 DEF fork

\* An undelete met its goal before it looks again.
LEMMA undeleteKeeps ==
  ASSUME DaytonaInv, NEW c \in ApiClients, undelete(c)
  PROVE  DaytonaInv'
  <1>0. /\ vm \in VmStates /\ image.state \in ImageStates /\ volume \in VolumeStates
        /\ RequestFits(request[c]) /\ UsableIsWritten(image)
    BY DaytonaTyped
  <1>t. /\ image \in [state : ImageStates, written : BOOLEAN]
        /\ apiErrors \in 0..MaxApiErrors /\ revived \in BOOLEAN
    BY DaytonaTyped
  <1>1. request[c].op = "undelete" /\ request[c].at \in {"post", "again"}
    BY DEF undelete, AtStep
  <1>2. CASE /\ vm = "destroyed" /\ vm' = "stopped" /\ revived' = TRUE
             /\ UNCHANGED <<child, image, volume, apiErrors>> /\ Noted(GoesOn(c, "again"))
    <2>1. vm' \in VmStates /\ SandboxKeeps(c)
      BY <1>2 DEF VmStates, SandboxKeeps
    <2>2. GoalMet(request[c].op, vm', image', volume')
      BY <1>1, <1>2, Goals DEF Dead
    <2> QED
      BY <1>t, <1>1, <1>2, <2>1, <2>2, CallMovesVm DEF Steps
  <1>3. CASE Keep(c, "failed")
    BY <1>1, <1>3, CallKeeps DEF Steps
  <1>4. CASE request[c].at = "again" /\ Keep(c, "done")
    <2>1. request[c].met
      BY <1>0, <1>1, <1>4 DEF RequestFits
    <2> QED
      BY <1>1, <1>4, <2>1, CallKeeps DEF Steps
  <1>5. CASE ApiRefuses(c, "failed")
    BY <1>1, <1>5, CallRefused
  <1> QED
    BY <1>2, <1>3, <1>4, <1>5 DEF undelete, AtStep

\* A request the service takes changes the snapshot, which is not usable for it.
LEMMA CallMovesImage ==
  ASSUME DaytonaInv, NEW c \in ApiClients, NEW at \in Steps \ {"idle"}, request[c].op # "none",
         request[c].op # "undelete", Noted(GoesOn(c, at)),
         image' \in [state : ImageStates, written : BOOLEAN], UsableIsWritten(image'),
         UNCHANGED <<vm, child, volume, apiErrors, revived>>,
         at = "done" => (request[c].at # "done" /\ GoalMet(request[c].op, vm', image', volume')),
         request[c].op = "create" => vm = "absent"
  PROVE  DaytonaInv'
  <1>1. RecordsTyped'
    BY RecordsAre DEF RecordsTyped
  <1>2. SandboxKeeps(c)
    BY DEF SandboxKeeps
  <1>3. request[c].op = "create" => vm' = "absent" /\ Accounted'
    BY DEF Accounted
  <1> QED
    BY <1>1, <1>2, <1>3, CallGoesOn

\* The request of a snapshot of a sandbox.
LEMMA create_sandbox_snapshotKeeps ==
  ASSUME DaytonaInv, NEW c \in ApiClients, create_sandbox_snapshot(c)
  PROVE  DaytonaInv'
  <1>0. /\ vm \in VmStates /\ image.state \in ImageStates /\ volume \in VolumeStates
        /\ RequestFits(request[c]) /\ UsableIsWritten(image)
    BY DaytonaTyped
  <1>t. /\ image \in [state : ImageStates, written : BOOLEAN]
        /\ apiErrors \in 0..MaxApiErrors /\ revived \in BOOLEAN
    BY DaytonaTyped
  <1>1. request[c].op \in Snapshotting /\ request[c].at = "post"
    BY DEF create_sandbox_snapshot, AtStep
  <1>2. request[c].op # "none" /\ request[c].op # "create" /\ request[c].op # "undelete"
    BY <1>1 DEF Snapshotting
  <1>3. CASE /\ image' = [state |-> "pending", written |-> FALSE]
             /\ UNCHANGED <<vm, child, volume, apiErrors, revived>> /\ Noted(GoesOn(c, "record"))
    <2>1. image' \in [state : ImageStates, written : BOOLEAN] /\ UsableIsWritten(image')
      BY <1>3 DEF ImageStates, UsableIsWritten
    <2> QED
      BY <1>1, <1>2, <1>3, <2>1, CallMovesImage DEF Steps
  <1>4. CASE Keep(c, "failed")
    BY <1>2, <1>4, CallKeeps DEF Steps
  <1>5. CASE ApiRefuses(c, "failed")
    BY <1>2, <1>5, CallRefused
  <1> QED
    BY <1>3, <1>4, <1>5 DEF create_sandbox_snapshot

\* A snapshot answers once its record is usable: then it was written.
LEMMA AwaitRecordKeeps ==
  ASSUME DaytonaInv, NEW c \in ApiClients, AwaitRecord(c)
  PROVE  DaytonaInv'
  <1>0. /\ vm \in VmStates /\ image.state \in ImageStates /\ volume \in VolumeStates
        /\ RequestFits(request[c]) /\ UsableIsWritten(image)
    BY DaytonaTyped
  <1>t. /\ image \in [state : ImageStates, written : BOOLEAN]
        /\ apiErrors \in 0..MaxApiErrors /\ revived \in BOOLEAN
    BY DaytonaTyped
  <1>1. request[c].op \in Snapshotting /\ request[c].at = "record"
    BY DEF AwaitRecord, AtStep
  <1>2. request[c].op # "none" /\ request[c].op # "create" /\ request[c].op # "undelete"
    BY <1>1 DEF Snapshotting
  <1>3. CASE Visible /\ map_snapshot_state(image.state) \in {"Active", "Inactive"} /\ Keep(c, "done")
    <2>1. image.state \in {"active", "inactive", "deactivating"}
      BY <1>0, <1>3, ImagesMapped
    <2>2. image.written
      BY <1>0, <2>1 DEF UsableIsWritten
    <2>3. GoalMet(request[c].op, vm, image, volume)
      BY <1>1, <2>2, Goals
    <2> QED
      BY <1>1, <1>2, <1>3, <2>3, CallKeeps DEF Steps
  <1>4. CASE Keep(c, "failed")
    BY <1>2, <1>4, CallKeeps DEF Steps
  <1>5. CASE ApiRefuses(c, "failed")
    BY <1>2, <1>5, CallRefused
  <1> QED
    BY <1>3, <1>4, <1>5 DEF AwaitRecord

\* A step of a snapshot's user that changes no record: ensure, or a create before its request.
LEMMA UserKeeps ==
  ASSUME DaytonaInv, NEW c \in ApiClients, request[c].op \in SnapshotUsers,
         request[c].at \in BeforePost \ {"post"}, NEW at \in Steps \ {"idle"}, Keep(c, at),
         at = "done" => request[c].op = "ensure" /\ image.state = "active"
  PROVE  DaytonaInv'
  <1>1. request[c].op # "none" /\ request[c].op # "undelete"
    BY DEF SnapshotUsers
  <1>2. request[c].op = "create" => vm = "absent"
    BY DaytonaTyped DEF RequestFits
  <1>3. vm = "absent" => Accounted
    BY DEF Accounted
  <1>4. at = "done" => GoalMet(request[c].op, vm, image, volume)
    BY Goals
  <1>5. request[c].at # "done"
    BY DEF BeforePost
  <1> QED
    BY <1>1, <1>2, <1>3, <1>4, <1>5, CallKeeps

\* The same for a refused request.
LEMMA UserRefused ==
  ASSUME DaytonaInv, NEW c \in ApiClients, request[c].op \in SnapshotUsers,
         request[c].at \in BeforePost \ {"post"}, ApiRefuses(c, "failed")
  PROVE  DaytonaInv'
  <1>1. request[c].op # "none"
    BY DEF SnapshotUsers
  <1>2. request[c].op = "create" => vm = "absent"
    BY DaytonaTyped DEF RequestFits
  <1> QED
    BY <1>1, <1>2, CallRefused DEF Accounted

\* A snapshot's user looks for it and waits for it.
LEMMA ensure_snapshotKeeps ==
  ASSUME DaytonaInv, NEW c \in ApiClients, ensure_snapshot(c)
  PROVE  DaytonaInv'
  <1>0. /\ vm \in VmStates /\ image.state \in ImageStates /\ volume \in VolumeStates
        /\ RequestFits(request[c]) /\ UsableIsWritten(image)
    BY DaytonaTyped
  <1>t. /\ image \in [state : ImageStates, written : BOOLEAN]
        /\ apiErrors \in 0..MaxApiErrors /\ revived \in BOOLEAN
    BY DaytonaTyped
  <1>1. request[c].op \in SnapshotUsers /\ request[c].at \in {"image_list", "image_poll"}
    BY DEF ensure_snapshot, AtStep
  <1>2. request[c].at \in BeforePost \ {"post"}
    BY <1>1 DEF BeforePost
  <1>3. CASE ApiRefuses(c, "failed")
    BY <1>1, <1>2, <1>3, UserRefused
  <1>4. ASSUME NEW nx \in {"failed", "image_activate", "image_poll", "image_create", "post"}, Keep(c, nx)
        PROVE  DaytonaInv'
    BY <1>1, <1>2, <1>4, UserKeeps DEF Steps
  <1>5. CASE Visible /\ map_snapshot_state(image.state) = "Active" /\ Keep(c, Usable(c))
    <2>1. image.state = "active"
      BY <1>0, <1>5, ImagesMapped
    <2>2. Usable(c) = "post" \/ (Usable(c) = "done" /\ request[c].op = "ensure")
      BY <1>1 DEF Usable, SnapshotUsers
    <2> QED
      BY <1>1, <1>2, <1>4, <1>5, <2>1, <2>2, UserKeeps DEF Steps
  <1>6. CASE request[c].at = "image_list" /\ ~ApiRefuses(c, "failed")
    <2> DEFINE seen == IF Visible THEN map_snapshot_state(image.state) ELSE "Missing"
               nx == CASE seen = "Active" -> Usable(c)
                         [] seen \in {"Error", "Deleting"} -> "failed"
                         [] seen = "Inactive" -> "image_activate"
                         [] seen = "Building" -> "image_poll"
                         [] seen = "Missing" -> "image_create"
    <2>1. seen \in {"Active", "Error", "Deleting", "Inactive", "Building", "Missing"}
      BY <1>0 DEF map_snapshot_state, ImageStates, Visible
    <2>2. seen = "Active" => Visible /\ map_snapshot_state(image.state) = "Active"
      OBVIOUS
    <2>3. Keep(c, nx)
      BY <1>6 DEF ensure_snapshot, AtStep
    <2> HIDE DEF seen
    <2>4. seen # "Active" => nx \in {"failed", "image_activate", "image_poll", "image_create"}
      BY <2>1
    <2>5. seen = "Active" => nx = Usable(c)
      OBVIOUS
    <2> QED
      BY <1>4, <1>5, <2>2, <2>3, <2>4, <2>5
  <1> QED
    BY <1>3, <1>4, <1>5, <1>6 DEF ensure_snapshot, AtStep

\* A snapshot's user asks for it.
LEMMA snapshot_from_imageKeeps ==
  ASSUME DaytonaInv, NEW c \in ApiClients, snapshot_from_image(c)
  PROVE  DaytonaInv'
  <1>0. /\ vm \in VmStates /\ image.state \in ImageStates /\ volume \in VolumeStates
        /\ RequestFits(request[c]) /\ UsableIsWritten(image)
    BY DaytonaTyped
  <1>t. /\ image \in [state : ImageStates, written : BOOLEAN]
        /\ apiErrors \in 0..MaxApiErrors /\ revived \in BOOLEAN
    BY DaytonaTyped
  <1>1. request[c].op \in SnapshotUsers /\ request[c].at = "image_create"
    BY DEF snapshot_from_image, AtStep
  <1>2. request[c].at \in BeforePost \ {"post"}
    BY <1>1 DEF BeforePost
  <1>3. CASE /\ image' = [state |-> "building", written |-> FALSE]
             /\ UNCHANGED <<vm, child, volume, apiErrors, revived>> /\ Noted(GoesOn(c, "image_poll"))
    <2>1. image' \in [state : ImageStates, written : BOOLEAN] /\ UsableIsWritten(image')
      BY <1>3 DEF ImageStates, UsableIsWritten
    <2>2. request[c].op = "create" => vm = "absent"
      BY <1>0, <1>2 DEF RequestFits
    <2>3. request[c].op # "none" /\ request[c].op # "undelete"
      BY <1>1 DEF SnapshotUsers
    <2> QED
      BY <1>3, <2>1, <2>2, <2>3, CallMovesImage DEF Steps
  <1>4. CASE Keep(c, "failed")
    BY <1>1, <1>2, <1>4, UserKeeps DEF Steps
  <1>5. CASE ApiRefuses(c, "failed")
    BY <1>1, <1>2, <1>5, UserRefused
  <1> QED
    BY <1>3, <1>4, <1>5 DEF snapshot_from_image

\* A snapshot is activated, for its user or alone.
LEMMA activateKeeps ==
  ASSUME DaytonaInv, NEW c \in ApiClients, activate(c)
  PROVE  DaytonaInv'
  <1>0. /\ vm \in VmStates /\ image.state \in ImageStates /\ volume \in VolumeStates
        /\ RequestFits(request[c]) /\ UsableIsWritten(image)
    BY DaytonaTyped
  <1>t. /\ image \in [state : ImageStates, written : BOOLEAN]
        /\ apiErrors \in 0..MaxApiErrors /\ revived \in BOOLEAN
    BY DaytonaTyped
  <1> DEFINE at == request[c].at
             after == IF at = "image_activate" THEN "image_poll" ELSE "done"
  <1>1. \/ request[c].op \in SnapshotUsers /\ at = "image_activate" /\ after = "image_poll"
        \/ request[c].op = "activate" /\ at = "image_post" /\ after = "done"
    BY DEF activate, AtStep
  <1>2. /\ request[c].op # "none" /\ request[c].op # "undelete"
        /\ request[c].op = "create" => vm = "absent"
    BY <1>0, <1>1 DEF SnapshotUsers, RequestFits, BeforePost
  <1>3. after \in Steps \ {"idle"} /\ at \in Steps \ {"idle", "done"}
    BY <1>1 DEF Steps
  <1>4. after = "done" => GoalMet(request[c].op, vm, image, volume)
                          /\ GoalMet(request[c].op, vm', image', volume')
    BY <1>1, Goals
  <1>7. \/ image.state = "inactive" /\ SetImage(c, "active", after)
        \/ Keep(c, after) \/ Keep(c, at) \/ Keep(c, "failed") \/ ApiRefuses(c, "failed")
    BY DEF activate
  <1>10. vm = "absent" => Accounted
    BY DEF Accounted
  <1> HIDE DEF at, after
  <1>11. at = request[c].at
    BY DEF at
  <1>5. CASE image.state = "inactive" /\ SetImage(c, "active", after)
    <2>1. image' = [image EXCEPT !.state = "active"]
      BY <1>5 DEF SetImage
    <2>2. image' \in [state : ImageStates, written : BOOLEAN] /\ image'.written = image.written
      BY <1>t, <2>1 DEF ImageStates
    <2>3. UsableIsWritten(image')
      BY <1>0, <1>5, <2>2 DEF UsableIsWritten
    <2> QED
      BY <1>2, <1>3, <1>4, <1>5, <1>11, <2>2, <2>3, CallMovesImage DEF SetImage
  <1>6. CASE Keep(c, after)
    BY <1>2, <1>3, <1>4, <1>6, <1>10, <1>11, CallKeeps
  <1>8. CASE Keep(c, at)
    BY <1>2, <1>3, <1>8, <1>10, CallKeeps
  <1>9. CASE Keep(c, "failed")
    BY <1>2, <1>9, <1>10, CallKeeps DEF Steps
  <1>12. CASE ApiRefuses(c, "failed")
    BY <1>2, <1>10, <1>12, CallRefused
  <1> QED
    BY <1>5, <1>6, <1>7, <1>8, <1>9, <1>12

\* A snapshot is deactivated.
LEMMA deactivateKeeps ==
  ASSUME DaytonaInv, NEW c \in ApiClients, deactivate(c)
  PROVE  DaytonaInv'
  <1>0. /\ vm \in VmStates /\ image.state \in ImageStates /\ volume \in VolumeStates
        /\ RequestFits(request[c]) /\ UsableIsWritten(image)
    BY DaytonaTyped
  <1>t. /\ image \in [state : ImageStates, written : BOOLEAN]
        /\ apiErrors \in 0..MaxApiErrors /\ revived \in BOOLEAN
    BY DaytonaTyped
  <1>1. request[c].op = "deactivate" /\ request[c].at = "image_post"
    BY DEF deactivate, AtStep
  <1>2. CASE image.state = "active" /\ SetImage(c, "deactivating", "done")
    <2>1. image' = [image EXCEPT !.state = "deactivating"]
      BY <1>2 DEF SetImage
    <2>2. image' \in [state : ImageStates, written : BOOLEAN] /\ image'.written = image.written
      BY <1>t, <2>1 DEF ImageStates
    <2>3. UsableIsWritten(image')
      BY <1>0, <1>2, <2>2 DEF UsableIsWritten
    <2>4. GoalMet(request[c].op, vm', image', volume')
      BY <1>1, Goals
    <2> QED
      BY <1>1, <1>2, <2>2, <2>3, <2>4, CallMovesImage DEF SetImage, Steps
  <1>3. CASE Keep(c, "failed")
    BY <1>1, <1>3, CallKeeps DEF Steps
  <1>4. CASE ApiRefuses(c, "failed")
    BY <1>1, <1>4, CallRefused
  <1> QED
    BY <1>2, <1>3, <1>4 DEF deactivate

\* A snapshot's delete answers when the deletion is under way.
LEMMA image_deleteKeeps ==
  ASSUME DaytonaInv, NEW c \in ApiClients, image_delete(c)
  PROVE  DaytonaInv'
  <1>0. /\ vm \in VmStates /\ image.state \in ImageStates /\ volume \in VolumeStates
        /\ RequestFits(request[c]) /\ UsableIsWritten(image)
    BY DaytonaTyped
  <1>t. /\ image \in [state : ImageStates, written : BOOLEAN]
        /\ apiErrors \in 0..MaxApiErrors /\ revived \in BOOLEAN
    BY DaytonaTyped
  <1>1. request[c].op = "image_delete" /\ request[c].at \in {"image_post", "image_recheck"}
    BY DEF image_delete, AtStep
  <1>2. CASE Visible /\ SetImage(c, "removing", "done")
    <2>1. image' = [image EXCEPT !.state = "removing"]
      BY <1>2 DEF SetImage
    <2>2. image' \in [state : ImageStates, written : BOOLEAN] /\ image'.state = "removing"
      BY <1>t, <2>1 DEF ImageStates
    <2>3. UsableIsWritten(image')
      BY <2>2 DEF UsableIsWritten
    <2>4. GoalMet(request[c].op, vm', image', volume')
      BY <1>1, <2>2, Goals
    <2> QED
      BY <1>1, <1>2, <2>2, <2>3, <2>4, CallMovesImage DEF SetImage, Steps
  <1>3. CASE (~Visible \/ image.state = "removing") /\ Keep(c, "done")
    <2>1. GoalMet(request[c].op, vm, image, volume)
      BY <1>1, <1>3, Goals DEF Visible
    <2> QED
      BY <1>1, <1>3, <2>1, CallKeeps DEF Steps
  <1>4. CASE Keep(c, "failed")
    BY <1>1, <1>4, CallKeeps DEF Steps
  <1>5. CASE Keep(c, "image_recheck")
    BY <1>1, <1>5, CallKeeps DEF Steps
  <1>6. CASE ApiRefuses(c, "failed") \/ ApiRefuses(c, "image_recheck")
    BY <1>1, <1>6, CallRefused
  <1> QED
    BY <1>2, <1>3, <1>4, <1>5, <1>6 DEF image_delete

\* A request the service takes changes the volume.
LEMMA CallMovesVolume ==
  ASSUME DaytonaInv, NEW c \in ApiClients, request[c].op \in OnVolume, request[c].at # "done",
         Noted(GoesOn(c, "done")), volume' \in VolumeStates,
         UNCHANGED <<vm, child, image, apiErrors, revived>>,
         GoalMet(request[c].op, vm', image', volume')
  PROVE  DaytonaInv'
  <1>1. RecordsTyped' /\ UsableIsWritten(image')
    BY RecordsAre DEF RecordsTyped, UsableIsWritten
  <1>2. SandboxKeeps(c)
    BY DEF SandboxKeeps
  <1>3. request[c].op # "none" /\ request[c].op # "create" /\ request[c].op # "undelete"
    BY DEF OnVolume
  <1> QED
    BY <1>1, <1>2, <1>3, CallGoesOn DEF Steps

\* A volume is created.
LEMMA volume_createKeeps ==
  ASSUME DaytonaInv, NEW c \in ApiClients, volume_create(c)
  PROVE  DaytonaInv'
  <1>0. /\ vm \in VmStates /\ image.state \in ImageStates /\ volume \in VolumeStates
        /\ RequestFits(request[c]) /\ UsableIsWritten(image)
    BY DaytonaTyped
  <1>t. /\ image \in [state : ImageStates, written : BOOLEAN]
        /\ apiErrors \in 0..MaxApiErrors /\ revived \in BOOLEAN
    BY DaytonaTyped
  <1>1. request[c].op = "volume_create" /\ request[c].at = "volume_post" /\ request[c].op \in OnVolume
    BY DEF volume_create, AtStep, OnVolume
  <1>2. CASE /\ volume' = "creating" /\ UNCHANGED <<vm, child, image, apiErrors, revived>>
             /\ Noted(GoesOn(c, "done"))
    BY <1>1, <1>2, Goals, CallMovesVolume DEF VolumeStates
  <1>3. CASE Keep(c, "failed")
    BY <1>1, <1>3, CallKeeps DEF Steps
  <1>4. CASE ApiRefuses(c, "failed")
    BY <1>1, <1>4, CallRefused
  <1> QED
    BY <1>2, <1>3, <1>4 DEF volume_create

\* A volume's delete answers when the deletion is under way.
LEMMA volume_deleteKeeps ==
  ASSUME DaytonaInv, NEW c \in ApiClients, volume_delete(c)
  PROVE  DaytonaInv'
  <1>0. /\ vm \in VmStates /\ image.state \in ImageStates /\ volume \in VolumeStates
        /\ RequestFits(request[c]) /\ UsableIsWritten(image)
    BY DaytonaTyped
  <1>t. /\ image \in [state : ImageStates, written : BOOLEAN]
        /\ apiErrors \in 0..MaxApiErrors /\ revived \in BOOLEAN
    BY DaytonaTyped
  <1>1. /\ request[c].op = "volume_delete" /\ request[c].at \in {"volume_post", "volume_recheck"}
        /\ request[c].op \in OnVolume
    BY DEF volume_delete, AtStep, OnVolume
  <1>2. CASE /\ volume' = "deleting" /\ UNCHANGED <<vm, child, image, apiErrors, revived>>
             /\ Noted(GoesOn(c, "done"))
    BY <1>1, <1>2, Goals, CallMovesVolume DEF VolumeStates
  <1>3. CASE volume \in {"absent", "deleting", "deleted"} /\ Keep(c, "done")
    BY <1>1, <1>3, Goals, CallKeeps DEF Steps
  <1>4. CASE Keep(c, "failed")
    BY <1>1, <1>4, CallKeeps DEF Steps
  <1>5. CASE Keep(c, "volume_recheck")
    BY <1>1, <1>5, CallKeeps DEF Steps
  <1>6. CASE ApiRefuses(c, "failed") \/ ApiRefuses(c, "volume_recheck")
    BY <1>1, <1>6, CallRefused
  <1>7. (IF volume = "absent" THEN "Missing" ELSE map_volume_state(volume)) \in {"Deleting", "Deleted"}
          => volume \in {"absent", "deleting", "deleted"}
    BY <1>0, VolumesMapped
  <1> QED
    BY <1>2, <1>3, <1>4, <1>5, <1>6, <1>7 DEF volume_delete

\* The service moves by itself.
LEMMA ServiceMoves ==
  ASSUME DaytonaInv, Noted(request), RecordsTyped', UsableIsWritten(image'), \A c : SandboxKeeps(c),
         vm = "absent" => vm' = "absent"
  PROVE  DaytonaInv'
  <1>1. CASE ApiClients = {}
    <2>1. request' \in [ApiClients -> Requests]
      BY <1>1 DEF Noted
    <2> QED
      BY <1>1, <2>1 DEF DaytonaInv, DaytonaTypeOK, RecordsTyped, OneCreate, SomeoneCreated,
         UsableIsWritten, SandboxKeeps
  <1>2. ASSUME NEW c \in ApiClients PROVE DaytonaInv'
    <2> DEFINE q == request[c]
    <2>1. request = [request EXCEPT ![c] = q]
      BY DEF DaytonaInv, DaytonaTypeOK
    <2>2. q \in Requests /\ RequestFits(q) /\ SandboxKeeps(c)
      BY DEF DaytonaInv, DaytonaTypeOK
    <2>3. Accounted => Accounted'
      BY DEF Accounted, SandboxKeeps
    <2> HIDE DEF q
    <2>4. q.op = "create" <=> request[c].op = "create"
      BY DEF q
    <2> QED
      BY <2>1, <2>2, <2>3, <2>4, RequestMoves DEF RequestFits, SandboxKeeps
  <1> QED
    BY <1>1, <1>2

\* The service: changes that land, and its timers.
LEMMA ServiceKeeps ==
  ASSUME DaytonaInv, Service
  PROVE  DaytonaInv'
  <1>0. RecordsTyped /\ UsableIsWritten(image) /\ UNCHANGED <<apiErrors, revived>> /\ Noted(request)
    BY RecordsAre DEF Service
  <1>1. CASE vm' \in VmMoves /\ UNCHANGED <<child, image, volume>>
    <2>1. /\ vm' \in VmStates /\ vm # "absent" /\ vm' # "absent"
          /\ vm \in {"destroyed", "gone"} => vm' \in {"destroyed", "gone"}
      BY <1>0, <1>1 DEF VmMoves, VmStates, RecordsTyped
    <2>2. \A c : SandboxKeeps(c)
      BY <1>0, <2>1 DEF SandboxKeeps
    <2>3. RecordsTyped' /\ UsableIsWritten(image')
      BY <1>0, <1>1, <2>1 DEF RecordsTyped, UsableIsWritten
    <2> QED
      BY <1>0, <2>1, <2>2, <2>3, ServiceMoves
  <1>2. CASE child' \in {"started", "error"} /\ UNCHANGED <<vm, image, volume>>
    <2>1. \A c : SandboxKeeps(c)
      BY <1>0, <1>2 DEF SandboxKeeps
    <2>2. RecordsTyped' /\ UsableIsWritten(image')
      BY <1>0, <1>2 DEF RecordsTyped, UsableIsWritten
    <2> QED
      BY <1>0, <1>2, <2>1, <2>2, ServiceMoves
  <1>3. CASE ~(vm' \in VmMoves /\ UNCHANGED <<child, image, volume>>)
             /\ ~(child' \in {"started", "error"} /\ UNCHANGED <<vm, image, volume>>)
    <2>1. /\ image' \in CASE image.state = "pending" -> {[image EXCEPT !.state = "snapshotting"]}
                           [] image.state \in {"building", "snapshotting"} ->
                                {[state |-> "active", written |-> TRUE],
                                 [state |-> "inactive", written |-> TRUE],
                                 [image EXCEPT !.state = "build_failed"]}
                           [] image.state \in {"deactivating", "active"} ->
                                {[image EXCEPT !.state = "inactive"]}
                           [] image.state = "removing" -> {[image EXCEPT !.state = "absent"]}
                           [] OTHER -> {}
          /\ UNCHANGED <<vm, child, volume>>
      BY <1>3 DEF Service
    <2>2. \/ image' = [image EXCEPT !.state = "snapshotting"]
          \/ image' = [state |-> "active", written |-> TRUE]
          \/ image' = [state |-> "inactive", written |-> TRUE]
          \/ image' = [image EXCEPT !.state = "build_failed"]
          \/ image.state \in {"deactivating", "active"} /\ image' = [image EXCEPT !.state = "inactive"]
          \/ image' = [image EXCEPT !.state = "absent"]
      BY <2>1
    <2>3. image \in [state : ImageStates, written : BOOLEAN]
      BY <1>0 DEF RecordsTyped
    <2>4. image' \in [state : ImageStates, written : BOOLEAN] /\ UsableIsWritten(image')
      <3>1. ASSUME NEW s \in ImageStates, image' = [image EXCEPT !.state = s]
            PROVE  /\ image' \in [state : ImageStates, written : BOOLEAN]
                   /\ image'.state = s /\ image'.written = image.written
        BY <2>3, <3>1
      <3>2. ASSUME NEW s \in ImageStates, image' = [state |-> s, written |-> TRUE]
            PROVE  image' \in [state : ImageStates, written : BOOLEAN] /\ image'.written = TRUE
        BY <3>2
      <3>3. {"snapshotting", "build_failed", "inactive", "active", "absent"} \subseteq ImageStates
        BY DEF ImageStates
      <3> QED
        BY <1>0, <2>2, <3>1, <3>2, <3>3 DEF UsableIsWritten
    <2>5. \A c : SandboxKeeps(c)
      BY <1>0, <2>1 DEF SandboxKeeps
    <2>6. RecordsTyped'
      BY <1>0, <2>1, <2>4 DEF RecordsTyped
    <2> QED
      BY <1>0, <2>1, <2>4, <2>5, <2>6, ServiceMoves
  <1> QED
    BY <1>1, <1>2, <1>3

\* The volumes' service.
LEMMA VolumeServiceKeeps ==
  ASSUME DaytonaInv, VolumeService
  PROVE  DaytonaInv'
  <1>1. volume' \in VolumeStates
    BY DEF VolumeService, VolumeStates
  <1>2. RecordsTyped' /\ UsableIsWritten(image')
    BY <1>1, RecordsAre DEF RecordsTyped, UsableIsWritten, VolumeService
  <1>3. \A c : SandboxKeeps(c)
    BY DEF SandboxKeeps, VolumeService
  <1> QED
    BY <1>2, <1>3, ServiceMoves DEF VolumeService

\* A caller issues a request.
LEMMA IssueKeeps ==
  ASSUME DaytonaInv, NEW c \in ApiClients, NEW op \in Operations, IssueRequest(c, op)
  PROVE  DaytonaInv'
  <1>1. PICK at \in FirstSteps(op) :
          Noted([request EXCEPT ![c] = [op |-> op, at |-> at, met |-> FALSE, named |-> FALSE]])
    BY DEF IssueRequest
  <1> DEFINE q == [op |-> op, at |-> at, met |-> FALSE, named |-> FALSE]
             r == [request EXCEPT ![c] = q]
  <1>2. /\ at \in Steps /\ at \notin {"idle", "done", "failed", "again"}
        /\ op # "none"
    BY DEF FirstSteps, Steps, Operations, OnSandbox, Lifecycle, Looked, OnImage, OnVolume
  <1>3. q \in Requests /\ q.op = op /\ q.at = at
    BY <1>2 DEF Requests
  <1>4. UNCHANGED <<vm, child, image, volume, apiErrors, revived>>
    BY DEF IssueRequest
  <1>5. RecordsTyped' /\ UsableIsWritten(image') /\ SandboxKeeps(c)
    BY <1>4, RecordsAre DEF RecordsTyped, UsableIsWritten, SandboxKeeps
  <1>6. op = "create" => \A d \in ApiClients : request[d].op # "create"
    BY DEF IssueRequest
  <1>7. op \in Lifecycle \cup Looked => vm' # "absent"
    BY <1>4 DEF IssueRequest
  <1>8. op = "create" => vm' = "absent"
    BY <1>4, <1>6 DEF DaytonaInv, SomeoneCreated
  <1>9. request[c].op # "create"
    BY DEF IssueRequest
  <1> QED
    BY <1>1, <1>2, <1>3, <1>5, <1>6, <1>7, <1>8, <1>9, RequestMoves

\* A step of a Daytona caller or of the service.
LEMMA DaytonaStep ==
  ASSUME DaytonaInv, DaytonaNext \/ VolumeNext
  PROVE  DaytonaInv'
  <1>1. ASSUME NEW c \in ApiClients, Step(c) PROVE DaytonaInv'
    BY <1>1, start_innerKeeps, LifecycleCallKeeps, LandedKeeps, wait_for_stateKeeps,
       transition_retry_pauseKeeps, CreateCallKeeps, poll_startedKeeps, finish_createKeeps,
       delete_and_confirmKeeps, FetchKeeps, archive_or_pauseKeeps, forkKeeps, undeleteKeeps,
       create_sandbox_snapshotKeeps, AwaitRecordKeeps, ensure_snapshotKeeps,
       snapshot_from_imageKeeps, activateKeeps, deactivateKeeps, image_deleteKeeps DEF Step
  <1>2. OnSandbox \subseteq Operations /\ OnVolume \subseteq Operations
    BY DEF Operations
  <1>3. CASE DaytonaNext
    BY <1>1, <1>2, <1>3, ServiceKeeps, IssueKeeps DEF DaytonaNext
  <1>4. CASE VolumeNext
    BY <1>2, <1>4, VolumeServiceKeeps, volume_createKeeps, volume_deleteKeeps, IssueKeeps DEF VolumeNext
  <1> QED
    BY <1>3, <1>4

\* There is no sandbox and no call yet.
LEMMA DaytonaInitially ==
  ASSUME DaytonaInit
  PROVE  DaytonaInv
  <1>1. NoRequest \in Requests
    BY DEF NoRequest, Requests, Steps
  <1>a. request \in [ApiClients -> Requests]
    BY <1>1 DEF DaytonaInit
  <1>b. image \in [state : ImageStates, written : BOOLEAN]
    BY DEF DaytonaInit, ImageStates
  <1>2. DaytonaTypeOK
    <2>1. apiErrors \in 0..MaxApiErrors
      BY ApiErrorsAssumption DEF DaytonaInit
    <2>2. /\ vm \in VmStates /\ child \in {"none", "starting", "started", "error"}
          /\ volume \in VolumeStates
      BY DEF DaytonaInit, VmStates, VolumeStates
    <2>3. revived \in BOOLEAN
      BY DEF DaytonaInit
    <2> QED
      BY <1>a, <1>b, <2>1, <2>2, <2>3 DEF DaytonaTypeOK
  <1>3. \A c \in ApiClients : request[c].op = "none" /\ request[c].at = "idle"
    BY DEF DaytonaInit, NoRequest
  <1>4. UsableIsWritten(image) /\ vm = "absent"
    BY DEF DaytonaInit, UsableIsWritten
  <1> QED
    BY <1>2, <1>3, <1>4 DEF DaytonaInv, OneCreate, SomeoneCreated, RequestFits, Lifecycle, Looked

\* Nothing moves.
LEMMA DaytonaRests ==
  ASSUME DaytonaInv, UNCHANGED daytonaVars
  PROVE  DaytonaInv'
  BY DEF DaytonaInv, DaytonaTypeOK, UsableIsWritten, OneCreate, SomeoneCreated, RequestFits, Accounted,
     daytonaVars

\* What the run checks of Daytona.
LEMMA DaytonaHolds ==
  ASSUME DaytonaInv
  PROVE  DaytonaTypeOK /\ AnswersAreTrue /\ FailedCreateIsAccounted
  BY DEF DaytonaInv, RequestFits, Accounted, AnswersAreTrue, FailedCreateIsAccounted, AtStep

-----------------------------------------------------------------------------
(***************************************************************************)
(* Nested services.                                                        *)
(***************************************************************************)
CreateOnly == {"login", "pull", "logout", "create", "network", "disconnect", "connect"}

\* The order of a pass: the primary is made before any service, the services are up before they
\* are waited for, all of that before the primary joins them and starts.
Rank(c) ==
    IF c.on # Primary THEN IF c.do = "health" THEN 3 ELSE 2
    ELSE IF c.do = "disconnect" THEN 4
    ELSE IF c.do = "connect" THEN 5
    ELSE IF c.do \in {"start", "directory"} THEN 6 ELSE 1

Sorted(st) == \A i, j \in DOMAIN st : i <= j => Rank(st[i]) <= Rank(st[j])

\* A login is followed by its pull, a pull by its logout.
PullsAreWhole(st) ==
    \A i \in DOMAIN st :
        /\ st[i].do = "login" => i + 1 \in DOMAIN st /\ st[i + 1] = Cmd("pull", st[i].on)
        /\ st[i].do = "pull" => i + 1 \in DOMAIN st /\ st[i + 1] = Cmd("logout", st[i].on)

Has(st, c) == \E i \in DOMAIN st : st[i] = c

\* The shape of a handle's pass.
PassShape(k) ==
    /\ Sorted(k.steps) /\ PullsAreWhole(k.steps)
    /\ k.pass = "idle" => k.steps = <<>>
    /\ k.pass # "create" => \A i \in DOMAIN k.steps : k.steps[i].do \notin CreateOnly
    /\ k.pass # "idle" => k.state # "Ready"

\* What a create still has to build is not built, and nothing else is missing.
StillBuilds(k, prim, svc, list) ==
    /\ Has(k.steps, Cmd("disconnect", Primary)) => prim.net # "services"
    /\ k.pass = "create" =>
         /\ prim.made \/ Has(k.steps, Cmd("create", Primary))
         /\ \A s \in ToSet(list) : svc[s].made \/ Has(k.steps, Cmd("create", s))

\* What was not brought up since generation n is still to come in the pass.
Past(n, b) == b.ran > n \/ b.health # "starting"
PrimaryComes(st, n, prim) == prim.ran >= n \/ Has(st, Cmd("start", Primary))
NetworkComes(st, prim, list) ==
    Len(list) > 0 => prim.net = "services" \/ Has(st, Cmd("connect", Primary))
ServiceComes(st, n, svc, s) ==
    /\ svc[s].ran >= n \/ Has(st, Cmd("start", s))
    /\ s \in Checked => \/ svc[s].ran >= n /\ Past(n, svc[s])
                        \/ Has(st, Cmd("health", s))

StillBrings(st, n, prim, svc, list) ==
    \/ Has(st, Cmd("inspect", Primary))
    \/ /\ PrimaryComes(st, n, prim)
       /\ NetworkComes(st, prim, list)
       /\ \A s \in ToSet(list) : ServiceComes(st, n, svc, s)

\* A pass began in some generation, the last its handle was told of at the earliest, unless one
\* ended since that the handle has yet to note.
BegunFits(k, gen) ==
    /\ k.began \in 0..gen /\ k.told \in 0..gen
    /\ k.pass # "idle" \/ k.state = "Ready" => k.began # 0 /\ (k.ended \/ k.began >= k.told)

HandleFits(k, gen, prim, svc, list, kind) ==
    /\ PassShape(k)
    /\ BegunFits(k, gen)
    /\ StillBuilds(k, prim, svc, list)
    /\ kind = "Container" /\ (k.pass # "idle" \/ k.state = "Ready") =>
         StillBrings(k.steps, k.began, prim, svc, list)

\* What the daemon keeps: only what was made ran, in no boot to come, and the primary joins
\* once all services are made.
DaemonFits(boot, prim, svc, list) ==
    /\ prim.ran <= boot /\ (prim.ran # Never => prim.made)
    /\ \A s \in ToSet(Services) : svc[s].ran <= boot /\ (svc[s].ran # Never => svc[s].made)
    /\ prim.net = "services" => prim.made /\ \A s \in ToSet(list) : svc[s].made

\* A login is there only while the create is between it and its logout, or after one that did
\* not succeed.
LoginInv ==
    /\ created \in {"no", "ok"} => logins = {}
    /\ created = "running" => \A x \in logins :
         /\ nestedHandle[Creator].steps # <<>>
         /\ Head(nestedHandle[Creator].steps) \in {Cmd("pull", x), Cmd("logout", x)}

\* The create runs in its creator's pass, of a container target, once.
CreateInv ==
    /\ \A h \in NestedHandles :
         nestedHandle[h].pass = "create" <=> h = Creator /\ created = "running"
    /\ created = "running" => target = "Container"
    /\ created = "no" => /\ nestedHandle[Creator].pass = "idle" /\ nestedHandle[Creator].state # "Ready"
                         /\ ~primaryBox.made

NestedInv ==
    /\ NestedServicesTypeOK
    /\ ~machine.up => machine.boot < MaxBoots
    /\ DaemonFits(machine.boot, primaryBox, service, wanted)
    /\ LoginInv
    /\ CreateInv
    /\ \A h \in NestedHandles :
         HandleFits(nestedHandle[h], VmGeneration, primaryBox, service, wanted, target)

-----------------------------------------------------------------------------
\* A command is what it does on what.
LEMMA CommandIs ==
  ASSUME NEW c \in Commands
  PROVE  /\ c = Cmd(c.do, c.on)
         /\ c.on \in ToSet(Services) \cup {Primary}
         /\ c.on \in ToSet(Services) => c.on # Primary
         /\ c.on # Primary => c.do \in {"login", "pull", "logout", "create", "start", "health"}
         /\ c.on = Primary => c.do # "health"
  BY NestedAssumption DEF Commands, Cmd, Primary

\* The fields of a command.
LEMMA CmdIs ==
  ASSUME NEW do, NEW x
  PROVE  Cmd(do, x).do = do /\ Cmd(do, x).on = x
  BY DEF Cmd

\* t is what a pass has left of st after n of its steps.
IsRest(t, st, n) ==
    /\ n \in 0..Len(st) /\ Len(t) = Len(st) - n
    /\ \A i \in 1..Len(t) : t[i] = st[i + n]

\* What holds of a pass holds of its rest.
LEMMA SuffixKeeps ==
  ASSUME NEW st \in Seq(Commands), NEW n, NEW t \in Seq(Commands), IsRest(t, st, n)
  PROVE  /\ Sorted(st) => Sorted(t)
         /\ PullsAreWhole(st) => PullsAreWhole(t)
         /\ (\A i \in DOMAIN st : st[i].do \notin CreateOnly) =>
              \A i \in DOMAIN t : t[i].do \notin CreateOnly
         /\ \A c : Has(t, c) => Has(st, c)
         /\ \A c : Has(st, c) => Has(t, c) \/ \E i \in 1..n : st[i] = c
  <1>1. DOMAIN t = 1..Len(t) /\ DOMAIN st = 1..Len(st) /\ Len(st) \in Nat /\ Len(t) \in Nat
    OBVIOUS
  <1>n. n \in 0..Len(st) /\ Len(t) = Len(st) - n /\ \A i \in 1..Len(t) : t[i] = st[i + n]
    BY DEF IsRest
  <1>2. \A i \in DOMAIN t : i + n \in DOMAIN st /\ t[i] = st[i + n]
    BY <1>1, <1>n
  <1>3. \A i \in DOMAIN st : i \in 1..n \/ (i - n \in DOMAIN t /\ t[i - n] = st[i])
    BY <1>1, <1>n
  <1>4. Sorted(st) => Sorted(t)
    <2> SUFFICES ASSUME Sorted(st), NEW i \in DOMAIN t, NEW j \in DOMAIN t, i <= j
                 PROVE  Rank(t[i]) <= Rank(t[j])
      BY DEF Sorted
    <2>1. i + n <= j + n
      BY <1>1, <1>n
    <2> QED
      BY <1>2, <2>1 DEF Sorted
  <1>5. PullsAreWhole(st) => PullsAreWhole(t)
    <2> SUFFICES ASSUME PullsAreWhole(st), NEW i \in DOMAIN t
                 PROVE  /\ t[i].do = "login" => i + 1 \in DOMAIN t /\ t[i + 1] = Cmd("pull", t[i].on)
                        /\ t[i].do = "pull" => i + 1 \in DOMAIN t /\ t[i + 1] = Cmd("logout", t[i].on)
      BY DEF PullsAreWhole
    <2>1. i + n \in DOMAIN st /\ t[i] = st[i + n]
      BY <1>2
    <2>2. (i + n) + 1 \in DOMAIN st => i + 1 \in DOMAIN t /\ t[i + 1] = st[(i + n) + 1]
      BY <1>1, <1>n
    <2> QED
      BY <2>1, <2>2 DEF PullsAreWhole
  <1>6. \A c : Has(t, c) => Has(st, c)
    BY <1>2 DEF Has
  <1>7. \A c : Has(st, c) => Has(t, c) \/ \E i \in 1..n : st[i] = c
    BY <1>3 DEF Has
  <1> QED
    BY <1>2, <1>4, <1>5, <1>6, <1>7

\* One step less.
LEMMA TailKeeps ==
  ASSUME NEW st \in Seq(Commands), st # <<>>
  PROVE  /\ Head(st) \in Commands /\ Tail(st) \in Seq(Commands)
         /\ Sorted(st) => Sorted(Tail(st))
         /\ PullsAreWhole(st) => PullsAreWhole(Tail(st))
         /\ (\A i \in DOMAIN st : st[i].do \notin CreateOnly) =>
              Head(st).do \notin CreateOnly /\ \A i \in DOMAIN Tail(st) : Tail(st)[i].do \notin CreateOnly
         /\ \A c : Has(Tail(st), c) => Has(st, c)
         /\ \A c : Has(st, c) => Has(Tail(st), c) \/ c = Head(st)
         /\ Sorted(st) => \A c : Has(Tail(st), c) => Rank(Head(st)) <= Rank(c)
         /\ Head(st) = st[1] /\ 1 \in DOMAIN st /\ Has(st, Head(st))
         /\ 2 \in DOMAIN st => Tail(st) # <<>> /\ Head(Tail(st)) = st[2]
  <1> DEFINE t == Tail(st)
  <1>1. Len(st) \in Nat /\ Len(st) >= 1 /\ 1 \in 0..Len(st) /\ t \in Seq(Commands) /\ Len(t) = Len(st) - 1
    OBVIOUS
  <1>2. \A i \in 1..Len(t) : t[i] = st[i + 1]
    BY <1>1
  <1>3. Head(st) = st[1] /\ 1 \in DOMAIN st /\ Head(st) \in Commands
    BY <1>1
  <1>4. \A i \in 1..1 : i = 1
    OBVIOUS
  <1>5. DOMAIN t = 1..Len(t) /\ DOMAIN st = 1..Len(st)
    BY <1>1
  <1>6. 2 \in DOMAIN st => t # <<>> /\ Head(t) = st[2]
    <2> SUFFICES ASSUME 2 \in DOMAIN st PROVE t # <<>> /\ Head(t) = st[2]
      OBVIOUS
    <2>1. Len(t) >= 1 /\ 1 \in 1..Len(t) /\ 1 + 1 = 2
      BY <1>1, <1>5
    <2>2. t[1] = st[2]
      BY <1>2, <2>1
    <2> HIDE DEF t
    <2>3. t # <<>> /\ Head(t) = t[1]
      BY <1>1, <2>1
    <2> QED
      BY <2>2, <2>3
  <1> HIDE DEF t
  <1>7. /\ Sorted(st) => Sorted(t)
        /\ PullsAreWhole(st) => PullsAreWhole(t)
        /\ (\A i \in DOMAIN st : st[i].do \notin CreateOnly) =>
             \A i \in DOMAIN t : t[i].do \notin CreateOnly
        /\ \A c : Has(t, c) => Has(st, c)
        /\ \A c : Has(st, c) => Has(t, c) \/ \E i \in 1..1 : st[i] = c
    <2>1. IsRest(t, st, 1)
      BY <1>1, <1>2 DEF IsRest
    <2> QED
      BY <1>1, <2>1, SuffixKeeps
  <1>8. ASSUME Sorted(st), NEW c, Has(t, c) PROVE Rank(Head(st)) <= Rank(c)
    <2>1. PICK i \in DOMAIN t : t[i] = c
      BY <1>8 DEF Has
    <2>2. i + 1 \in DOMAIN st /\ 1 <= i + 1 /\ st[i + 1] = c
      BY <1>1, <1>2, <1>5, <2>1
    <2> QED
      BY <1>3, <1>8, <2>2 DEF Sorted
  <1>9. Has(st, Head(st))
    BY <1>3 DEF Has
  <1>10. \A c : Has(st, c) => Has(t, c) \/ c = Head(st)
    BY <1>3, <1>4, <1>7
  <1> QED
    BY <1>1, <1>3, <1>6, <1>7, <1>8, <1>9, <1>10 DEF t

\* One sequence after another.
LEMMA ConcatHas ==
  ASSUME NEW a \in Seq(Commands), NEW b \in Seq(Commands)
  PROVE  /\ a \o b \in Seq(Commands)
         /\ \A c : Has(a \o b, c) <=> Has(a, c) \/ Has(b, c)
  <1>0. a \o b \in Seq(Commands)
    OBVIOUS
  <1>1. /\ DOMAIN a = 1..Len(a) /\ DOMAIN b = 1..Len(b) /\ Len(a) \in Nat /\ Len(b) \in Nat
        /\ DOMAIN (a \o b) = 1..(Len(a) + Len(b))
    OBVIOUS
  <1>2. \A i \in DOMAIN a : i \in DOMAIN (a \o b) /\ (a \o b)[i] = a[i]
    BY <1>1
  <1>3. \A i \in DOMAIN b : Len(a) + i \in DOMAIN (a \o b) /\ (a \o b)[Len(a) + i] = b[i]
    BY <1>1
  <1>4. \A i \in DOMAIN (a \o b) :
          \/ i \in DOMAIN a /\ (a \o b)[i] = a[i]
          \/ i - Len(a) \in DOMAIN b /\ (a \o b)[i] = b[i - Len(a)]
    BY <1>1
  <1>5. ASSUME NEW c, Has(a, c) PROVE Has(a \o b, c)
    BY <1>2, <1>5 DEF Has
  <1>6. ASSUME NEW c, Has(b, c) PROVE Has(a \o b, c)
    BY <1>3, <1>6 DEF Has
  <1>7. ASSUME NEW c, Has(a \o b, c) PROVE Has(a, c) \/ Has(b, c)
    BY <1>4, <1>7 DEF Has
  <1> QED
    BY <1>0, <1>5, <1>6, <1>7

\* The ranks of a sequence lie between two bounds.
Between(st, lo, hi) == \A i \in DOMAIN st : lo <= Rank(st[i]) /\ Rank(st[i]) <= hi

\* A rank is one of six.
LEMMA RankIsNumber ==
  ASSUME NEW c
  PROVE  Rank(c) \in 1..6 /\ Rank(c) \in Nat
  BY DEF Rank

\* Two sequences in order, the second after the first.
LEMMA ConcatSorted ==
  ASSUME NEW a \in Seq(Commands), NEW b \in Seq(Commands), Sorted(a), Sorted(b),
         NEW lo \in Nat, NEW mid \in Nat, NEW hi \in Nat, lo <= mid, mid <= hi,
         Between(a, lo, mid), Between(b, mid, hi)
  PROVE  Sorted(a \o b) /\ Between(a \o b, lo, hi)
  <1>1. /\ DOMAIN a = 1..Len(a) /\ DOMAIN b = 1..Len(b) /\ Len(a) \in Nat /\ Len(b) \in Nat
        /\ DOMAIN (a \o b) = 1..(Len(a) + Len(b))
    OBVIOUS
  <1>2. \A i \in DOMAIN (a \o b) :
          \/ i \in DOMAIN a /\ (a \o b)[i] = a[i]
          \/ i > Len(a) /\ i - Len(a) \in DOMAIN b /\ (a \o b)[i] = b[i - Len(a)]
    BY <1>1
  <1>3. Between(a \o b, lo, hi)
    <2> SUFFICES ASSUME NEW i \in DOMAIN (a \o b)
                 PROVE  lo <= Rank((a \o b)[i]) /\ Rank((a \o b)[i]) <= hi
      BY DEF Between
    <2>1. Rank((a \o b)[i]) \in Nat
      BY RankIsNumber
    <2>2. CASE i \in DOMAIN a /\ (a \o b)[i] = a[i]
      BY <2>1, <2>2 DEF Between
    <2>3. CASE i - Len(a) \in DOMAIN b /\ (a \o b)[i] = b[i - Len(a)]
      BY <2>1, <2>3 DEF Between
    <2> QED
      BY <1>2, <2>2, <2>3
  <1>4. Sorted(a \o b)
    <2> SUFFICES ASSUME NEW i \in DOMAIN (a \o b), NEW j \in DOMAIN (a \o b), i <= j
                 PROVE  Rank((a \o b)[i]) <= Rank((a \o b)[j])
      BY DEF Sorted
    <2>0. i \in Nat /\ j \in Nat
      BY <1>1
    <2>1. Rank((a \o b)[i]) \in Nat /\ Rank((a \o b)[j]) \in Nat /\ i \in Nat /\ j \in Nat
      BY <2>0, RankIsNumber
    <2>2. CASE j \in DOMAIN a /\ (a \o b)[j] = a[j]
      <3>1. i \in DOMAIN a /\ (a \o b)[i] = a[i]
        BY <1>1, <1>2, <2>1, <2>2
      <3> QED
        BY <2>2, <3>1 DEF Sorted
    <2>3. CASE j - Len(a) \in DOMAIN b /\ (a \o b)[j] = b[j - Len(a)]
      <3>1. CASE i \in DOMAIN a /\ (a \o b)[i] = a[i]
        BY <2>1, <2>3, <3>1 DEF Between
      <3>2. CASE i - Len(a) \in DOMAIN b /\ (a \o b)[i] = b[i - Len(a)]
        <4>1. i - Len(a) <= j - Len(a)
          BY <1>1, <2>1
        <4> QED
          BY <2>3, <3>2, <4>1 DEF Sorted
      <3> QED
        BY <1>2, <3>1, <3>2
    <2> QED
      BY <1>2, <2>2, <2>3
  <1> QED
    BY <1>3, <1>4

\* Pulls stay whole.
LEMMA ConcatWhole ==
  ASSUME NEW a \in Seq(Commands), NEW b \in Seq(Commands), PullsAreWhole(a), PullsAreWhole(b)
  PROVE  PullsAreWhole(a \o b)
  <1>1. /\ DOMAIN a = 1..Len(a) /\ DOMAIN b = 1..Len(b) /\ Len(a) \in Nat /\ Len(b) \in Nat
        /\ DOMAIN (a \o b) = 1..(Len(a) + Len(b))
    OBVIOUS
  <1>2. \A i \in DOMAIN a : i \in DOMAIN (a \o b) /\ (a \o b)[i] = a[i]
    BY <1>1
  <1>3. \A i \in DOMAIN (a \o b) :
          \/ i \in DOMAIN a /\ (a \o b)[i] = a[i]
          \/ i - Len(a) \in DOMAIN b /\ (a \o b)[i] = b[i - Len(a)]
    BY <1>1
  <1> SUFFICES ASSUME NEW i \in DOMAIN (a \o b)
               PROVE  /\ (a \o b)[i].do = "login" =>
                           i + 1 \in DOMAIN (a \o b) /\ (a \o b)[i + 1] = Cmd("pull", (a \o b)[i].on)
                      /\ (a \o b)[i].do = "pull" =>
                           i + 1 \in DOMAIN (a \o b) /\ (a \o b)[i + 1] = Cmd("logout", (a \o b)[i].on)
    BY DEF PullsAreWhole
  <1>4. CASE i \in DOMAIN a /\ (a \o b)[i] = a[i]
    BY <1>2, <1>4 DEF PullsAreWhole
  <1>5. CASE i - Len(a) \in DOMAIN b /\ (a \o b)[i] = b[i - Len(a)]
    <2>1. (i - Len(a)) + 1 \in DOMAIN b =>
            i + 1 \in DOMAIN (a \o b) /\ (a \o b)[i + 1] = b[(i - Len(a)) + 1]
      BY <1>1, <1>5
    <2> QED
      BY <1>5, <2>1 DEF PullsAreWhole
  <1> QED
    BY <1>3, <1>4, <1>5

\* A list of commands in order, between two ranks, whose pulls are whole.
Shaped(st, lo, hi) ==
    st \in Seq(Commands) /\ Sorted(st) /\ Between(st, lo, hi) /\ PullsAreWhole(st)

\* One shaped list after another of higher ranks is shaped.
LEMMA ConcatShaped ==
  ASSUME NEW a, NEW b, NEW l1 \in Nat, NEW h1 \in Nat, NEW l2 \in Nat, NEW h2 \in Nat,
         Shaped(a, l1, h1), Shaped(b, l2, h2), l1 <= h1, h1 <= l2, l2 <= h2
  PROVE  /\ Shaped(a \o b, l1, h2)
         /\ \A c : Has(a \o b, c) <=> Has(a, c) \/ Has(b, c)
  <1>1. a \in Seq(Commands) /\ b \in Seq(Commands) /\ Sorted(a) /\ Sorted(b)
    BY DEF Shaped
  <1>2. Between(a, l1, h1) /\ Between(b, l2, h2)
    BY DEF Shaped
  <1>3. Between(b, h1, h2)
    <2> SUFFICES ASSUME NEW i \in DOMAIN b PROVE h1 <= Rank(b[i]) /\ Rank(b[i]) <= h2
      BY DEF Between
    <2>1. l2 <= Rank(b[i]) /\ Rank(b[i]) <= h2 /\ Rank(b[i]) \in Nat
      BY <1>2, RankIsNumber DEF Between
    <2> QED
      BY <2>1
  <1>4. h1 <= h2
    OBVIOUS
  <1>5. Sorted(a \o b) /\ Between(a \o b, l1, h2)
    BY <1>1, <1>2, <1>3, <1>4, ConcatSorted
  <1>6. a \o b \in Seq(Commands) /\ \A c : Has(a \o b, c) <=> Has(a, c) \/ Has(b, c)
    BY <1>1, ConcatHas
  <1>7. PullsAreWhole(a \o b)
    BY <1>1, ConcatWhole DEF Shaped
  <1> QED
    BY <1>5, <1>6, <1>7 DEF Shaped

\* The empty list.
LEMMA EmptyShaped ==
  ASSUME NEW lo, NEW hi
  PROVE  Shaped(<<>>, lo, hi) /\ \A c : ~Has(<<>>, c)
  BY DEF Shaped, Sorted, Between, PullsAreWhole, Has

\* One command.
LEMMA OneShaped ==
  ASSUME NEW c \in Commands, c.do \notin {"login", "pull"}
  PROVE  /\ Shaped(<<c>>, Rank(c), Rank(c))
         /\ \A x : Has(<<c>>, x) <=> x = c
  <1>1. <<c>> \in Seq(Commands) /\ DOMAIN <<c>> = {1} /\ <<c>>[1] = c
    OBVIOUS
  <1>2. Rank(c) <= Rank(c)
    BY RankIsNumber
  <1> DEFINE st == <<c>>
  <1> HIDE DEF st
  <1>3. st \in Seq(Commands) /\ DOMAIN st = {1} /\ st[1] = c
    BY <1>1 DEF st
  <1>4. Sorted(st) /\ Between(st, Rank(c), Rank(c))
    BY <1>2, <1>3 DEF Sorted, Between
  <1>5. PullsAreWhole(st)
    BY <1>3 DEF PullsAreWhole
  <1>6. \A x : Has(st, x) <=> x = c
    BY <1>3 DEF Has
  <1> QED
    BY <1>3, <1>4, <1>5, <1>6 DEF Shaped, st

\* Two commands, the second not before the first.
LEMMA TwoShaped ==
  ASSUME NEW c \in Commands, NEW d \in Commands, Rank(c) <= Rank(d),
         c.do \notin {"login", "pull"}, d.do \notin {"login", "pull"}
  PROVE  /\ Shaped(<<c, d>>, Rank(c), Rank(d))
         /\ \A x : Has(<<c, d>>, x) <=> x = c \/ x = d
  <1>1. <<c, d>> \in Seq(Commands) /\ DOMAIN <<c, d>> = 1..2 /\ <<c, d>>[1] = c /\ <<c, d>>[2] = d
    OBVIOUS
  <1>2. Rank(c) <= Rank(c) /\ Rank(d) <= Rank(d)
    BY RankIsNumber
  <1>a. \A i \in 1..2 : i = 1 \/ i = 2
    OBVIOUS
  <1>b. 1 \in 1..2 /\ 2 \in 1..2 /\ ~(2 <= 1)
    OBVIOUS
  <1> DEFINE st == <<c, d>>
  <1> HIDE DEF st
  <1>3. st \in Seq(Commands) /\ DOMAIN st = 1..2 /\ st[1] = c /\ st[2] = d
    BY <1>1 DEF st
  <1>4. Sorted(st) /\ Between(st, Rank(c), Rank(d))
    BY <1>2, <1>3, <1>a, <1>b DEF Sorted, Between
  <1>5. PullsAreWhole(st)
    BY <1>3, <1>a DEF PullsAreWhole
  <1>6. \A x : Has(st, x) <=> x = c \/ x = d
    BY <1>3, <1>a, <1>b DEF Has
  <1> QED
    BY <1>3, <1>4, <1>5, <1>6 DEF Shaped, st

\* A pull.
LEMMA PullShaped ==
  ASSUME NEW x \in ToSet(Services) \cup {Primary}
  PROVE  Shaped(pull(x), Rank(Cmd("pull", x)), Rank(Cmd("pull", x)))
  <1> DEFINE r == Rank(Cmd("pull", x))
             st == pull(x)
  <1>1. /\ Cmd("login", x) \in Commands /\ Cmd("pull", x) \in Commands /\ Cmd("logout", x) \in Commands
    BY DEF Cmd, Commands
  <1>2. Rank(Cmd("login", x)) = r /\ Rank(Cmd("logout", x)) = r /\ r \in Nat
    BY CmdIs, RankIsNumber DEF Rank
  <1>3. /\ st \in Seq(Commands) /\ DOMAIN st = 1..3
        /\ st[1] = Cmd("login", x) /\ st[2] = Cmd("pull", x) /\ st[3] = Cmd("logout", x)
    BY <1>1 DEF pull
  <1>a. \A i \in 1..3 : i = 1 \/ i = 2 \/ i = 3
    OBVIOUS
  <1> HIDE DEF st, r
  <1>4. \A i \in DOMAIN st : Rank(st[i]) = r
    BY <1>2, <1>3, <1>a DEF r
  <1>5. Sorted(st) /\ Between(st, r, r)
    BY <1>2, <1>4 DEF Sorted, Between
  <1>6. st[1].do = "login" /\ st[2].do = "pull" /\ st[3].do = "logout" /\ st[1].on = x /\ st[2].on = x
    BY <1>3, CmdIs
  <1>7. PullsAreWhole(st)
    BY <1>3, <1>6, <1>a DEF PullsAreWhole
  <1> QED
    BY <1>3, <1>5, <1>7 DEF Shaped, st, r

\* The same command on each of a list.
LEMMA EachShaped ==
  ASSUME NEW list \in Seq(ToSet(Services)), NEW do \in {"start", "health"}
  PROVE  /\ Shaped(OnEach(do, list), IF do = "health" THEN 3 ELSE 2, IF do = "health" THEN 3 ELSE 2)
         /\ \A s \in ToSet(list) : Has(OnEach(do, list), Cmd(do, s))
         /\ \A i \in DOMAIN OnEach(do, list) : OnEach(do, list)[i].do = do
  <1> DEFINE st == OnEach(do, list)
             r == IF do = "health" THEN 3 ELSE 2
  <1>1. \A i \in 1..Len(list) : list[i] \in ToSet(Services) /\ Cmd(do, list[i]) \in Commands
    BY DEF Cmd, Commands
  <1>2. /\ st \in Seq(Commands) /\ DOMAIN st = 1..Len(list)
        /\ \A i \in 1..Len(list) : st[i] = Cmd(do, list[i])
    BY <1>1 DEF OnEach
  <1>3. \A i \in DOMAIN st : st[i].do = do /\ st[i].on # Primary
    BY <1>1, <1>2, CmdIs, NestedAssumption DEF Primary
  <1>4. \A i \in DOMAIN st : Rank(st[i]) = r
    BY <1>3 DEF Rank
  <1>5. r \in Nat
    OBVIOUS
  <1>8. ASSUME NEW s \in ToSet(list) PROVE Has(st, Cmd(do, s))
    <2>1. PICK i \in DOMAIN list : list[i] = s
      BY DEF ToSet
    <2> QED
      BY <1>2, <2>1 DEF Has
  <1> HIDE DEF st, r
  <1>6. Sorted(st) /\ Between(st, r, r)
    BY <1>4, <1>5 DEF Sorted, Between
  <1>7. PullsAreWhole(st)
    BY <1>3 DEF PullsAreWhole
  <1>9. Shaped(st, r, r)
    BY <1>2, <1>6, <1>7 DEF Shaped
  <1> QED
    BY <1>3, <1>8, <1>9 DEF st, r

\* What create asks of one service.
LEMMA AddServiceIs ==
  ASSUME NEW s
  PROVE  /\ AddService(s)[1] = Cmd("login", s) /\ AddService(s)[2] = Cmd("pull", s)
         /\ AddService(s)[3] = Cmd("logout", s) /\ AddService(s)[4] = Cmd("create", s)
         /\ AddService(s)[5] = Cmd("start", s)
  BY DEF AddService, pull

\* The services of a create, five commands each.
LEMMA AddedShaped ==
  ASSUME wanted \in Seq(ToSet(Services))
  PROVE  /\ Shaped(ServicesAdded, 2, 2)
         /\ \A s \in ToSet(wanted) : Has(ServicesAdded, Cmd("create", s)) /\ Has(ServicesAdded, Cmd("start", s))
  <1> DEFINE st == ServicesAdded
             n == Len(wanted)
  <1>1. n \in Nat /\ DOMAIN wanted = 1..n
    OBVIOUS
  <1>2. \A i \in 1..(5 * n) : /\ (i + 4) \div 5 \in 1..n
                              /\ (i + 4) % 5 \in {0, 1, 2, 3, 4}
                              /\ i + 4 = 5 * ((i + 4) \div 5) + ((i + 4) % 5)
    BY <1>1
  <1>3. DOMAIN st = 1..(5 * n)
        /\ \A i \in 1..(5 * n) : st[i] = AddService(wanted[(i + 4) \div 5])[1 + ((i + 4) % 5)]
    BY <1>1 DEF ServicesAdded
  <1>4. ASSUME NEW k \in 1..n, NEW j \in {0, 1, 2, 3, 4}
        PROVE  /\ 5 * k + j - 4 \in DOMAIN st
               /\ st[5 * k + j - 4] = AddService(wanted[k])[1 + j]
    <2>1. 5 * k + j - 4 \in 1..(5 * n)
      BY <1>1
    <2>2. ((5 * k + j - 4) + 4) \div 5 = k /\ ((5 * k + j - 4) + 4) % 5 = j
      BY <1>1
    <2> QED
      BY <1>3, <2>1, <2>2
  <1>5. ASSUME NEW i \in DOMAIN st
        PROVE  \E k \in 1..n, j \in {0, 1, 2, 3, 4} : i = 5 * k + j - 4
    <2>1. i \in 1..(5 * n) /\ i \in Nat
      BY <1>1, <1>3
    <2>2. i = 5 * ((i + 4) \div 5) + ((i + 4) % 5) - 4
      <3>1. ASSUME NEW x \in Nat, NEW y \in Nat, i + 4 = 5 * x + y PROVE i = 5 * x + y - 4
        BY <2>1, <3>1
      <3>2. (i + 4) \div 5 \in 1..n /\ (i + 4) % 5 \in {0, 1, 2, 3, 4}
        BY <1>2, <2>1
      <3>3. (i + 4) \div 5 \in Nat /\ (i + 4) % 5 \in Nat
        BY <1>1, <3>2
      <3> QED
        BY <1>2, <2>1, <3>1, <3>3
    <2> QED
      BY <1>2, <2>1, <2>2
  <1> HIDE DEF st, n
  <1>6. ASSUME NEW k \in 1..n
        PROVE  /\ wanted[k] \in ToSet(Services)
               /\ st[5 * k - 4] = Cmd("login", wanted[k]) /\ 5 * k - 4 \in DOMAIN st
               /\ st[5 * k - 3] = Cmd("pull", wanted[k]) /\ 5 * k - 3 \in DOMAIN st
               /\ st[5 * k - 2] = Cmd("logout", wanted[k]) /\ 5 * k - 2 \in DOMAIN st
               /\ st[5 * k - 1] = Cmd("create", wanted[k]) /\ 5 * k - 1 \in DOMAIN st
               /\ st[5 * k] = Cmd("start", wanted[k]) /\ 5 * k \in DOMAIN st
    <2>0. wanted[k] \in ToSet(Services)
      BY <1>1
    <2>1. st[5 * k - 4] = AddService(wanted[k])[1] /\ 5 * k - 4 \in DOMAIN st
      <3>1. 5 * k + 0 - 4 = 5 * k - 4 /\ 1 + 0 = 1
        BY <1>1
      <3> QED
        BY <1>4, <3>1
    <2>2. st[5 * k - 3] = AddService(wanted[k])[2] /\ 5 * k - 3 \in DOMAIN st
      <3>1. 5 * k + 1 - 4 = 5 * k - 3 /\ 1 + 1 = 2
        BY <1>1
      <3> QED
        BY <1>4, <3>1
    <2>3. st[5 * k - 2] = AddService(wanted[k])[3] /\ 5 * k - 2 \in DOMAIN st
      <3>1. 5 * k + 2 - 4 = 5 * k - 2 /\ 1 + 2 = 3
        BY <1>1
      <3> QED
        BY <1>4, <3>1
    <2>4. st[5 * k - 1] = AddService(wanted[k])[4] /\ 5 * k - 1 \in DOMAIN st
      <3>1. 5 * k + 3 - 4 = 5 * k - 1 /\ 1 + 3 = 4
        BY <1>1
      <3> QED
        BY <1>4, <3>1
    <2>5. st[5 * k] = AddService(wanted[k])[5] /\ 5 * k \in DOMAIN st
      <3>1. 5 * k + 4 - 4 = 5 * k /\ 1 + 4 = 5
        BY <1>1
      <3> QED
        BY <1>4, <3>1
    <2> QED
      BY <2>0, <2>1, <2>2, <2>3, <2>4, <2>5, AddServiceIs
  <1>7. ASSUME NEW i \in DOMAIN st
        PROVE  \E k \in 1..n : i \in {5 * k - 4, 5 * k - 3, 5 * k - 2, 5 * k - 1, 5 * k}
    <2>1. PICK k \in 1..n, j \in {0, 1, 2, 3, 4} : i = 5 * k + j - 4
      BY <1>5
    <2>2. i \in {5 * k - 4, 5 * k - 3, 5 * k - 2, 5 * k - 1, 5 * k}
      BY <1>1, <2>1
    <2> QED
      BY <2>2
  <1>8. ASSUME NEW i \in DOMAIN st
        PROVE  /\ st[i] \in Commands /\ Rank(st[i]) = 2
               /\ st[i].do = "login" => i + 1 \in DOMAIN st /\ st[i + 1] = Cmd("pull", st[i].on)
               /\ st[i].do = "pull" => i + 1 \in DOMAIN st /\ st[i + 1] = Cmd("logout", st[i].on)
    <2>1. PICK k \in 1..n : i \in {5 * k - 4, 5 * k - 3, 5 * k - 2, 5 * k - 1, 5 * k}
      BY <1>7
    <2>2. k \in Nat
      BY <1>1
    <2>3. wanted[k] \in ToSet(Services) /\ wanted[k] # Primary
      BY <1>6, NestedAssumption DEF Primary
    <2>4. \A do \in {"login", "pull", "logout", "create", "start"} :
            Cmd(do, wanted[k]) \in Commands /\ Rank(Cmd(do, wanted[k])) = 2
      BY <2>3, CmdIs DEF Rank, Commands, Cmd
    <2>5. (5 * k - 4) + 1 = 5 * k - 3 /\ (5 * k - 3) + 1 = 5 * k - 2
      BY <2>2
    <2>6. \A do : Cmd(do, wanted[k]).do = do /\ Cmd(do, wanted[k]).on = wanted[k]
      BY CmdIs
    <2>7. CASE i = 5 * k - 4
      BY <1>6, <2>4, <2>5, <2>6, <2>7
    <2>8. CASE i = 5 * k - 3
      BY <1>6, <2>4, <2>5, <2>6, <2>8
    <2>9. CASE i \in {5 * k - 2, 5 * k - 1, 5 * k}
      BY <1>6, <2>4, <2>6, <2>9
    <2> QED
      BY <2>1, <2>7, <2>8, <2>9
  <1>9. st \in Seq(Commands)
    <2>1. st = [i \in 1..(5 * n) |-> st[i]] /\ 5 * n \in Nat
      BY <1>1 DEF st, n, ServicesAdded
    <2>2. ASSUME NEW m \in Nat, st = [i \in 1..m |-> st[i]], \A i \in 1..m : st[i] \in Commands
          PROVE  st \in Seq(Commands)
      BY <2>2
    <2>3. \A i \in 1..(5 * n) : st[i] \in Commands
      BY <1>3, <1>8
    <2> QED
      BY <2>1, <2>2, <2>3
  <1>10. Sorted(st) /\ Between(st, 2, 2)
    BY <1>8 DEF Sorted, Between
  <1>11. PullsAreWhole(st)
    BY <1>8 DEF PullsAreWhole
  <1>12. ASSUME NEW s \in ToSet(wanted) PROVE Has(st, Cmd("create", s)) /\ Has(st, Cmd("start", s))
    <2>1. PICK k \in 1..n : wanted[k] = s
      BY <1>1 DEF ToSet, n
    <2> QED
      BY <1>6, <2>1 DEF Has
  <1> QED
    BY <1>9, <1>10, <1>11, <1>12 DEF Shaped, st

\* The names a create may ask for.
LEMMA WantedIs ==
  ASSUME wanted \in {<<>>, Services}
  PROVE  /\ wanted \in Seq(ToSet(Services)) /\ ToSet(wanted) \subseteq ToSet(Services)
         /\ ToSet(wanted) # {} => Len(wanted) > 0
         /\ IsFiniteSet(ToSet(wanted))
  <1>1. wanted \in Seq(ToSet(Services))
    <2>1. \A S : <<>> \in Seq(S)
      OBVIOUS
    <2>2. Services \in Seq(ToSet(Services))
      BY NestedAssumption
    <2> QED
      BY <2>1, <2>2, Zenon
  <1>2. Len(wanted) \in Nat /\ DOMAIN wanted = 1..Len(wanted) /\ wanted \in [1..Len(wanted) -> ToSet(Services)]
    BY <1>1
  <1>3. ToSet(wanted) \subseteq ToSet(Services)
    BY <1>2 DEF ToSet
  <1>4. ToSet(wanted) # {} => Len(wanted) > 0
    BY <1>2 DEF ToSet
  <1>5. wanted \in Surjection(1..Len(wanted), ToSet(wanted))
    BY <1>2 DEF ToSet, Surjection
  <1>6. IsFiniteSet(1..Len(wanted))
    BY <1>2, FS_Interval
  <1>7. IsFiniteSet(ToSet(wanted))
    BY <1>5, <1>6, FS_Surjection
  <1> QED
    BY <1>1, <1>3, <1>4, <1>7

\* The daemon lists all that is there.
LEMMA FoundIs ==
  ASSUME wanted \in {<<>>, Services}, NEW found \in Found
  PROVE  /\ found \in Seq(ToSet(Services))
         /\ \A s \in ToSet(wanted) : service[s].made => s \in ToSet(found)
  <1> DEFINE made == {s \in ToSet(wanted) : service[s].made}
             n == Cardinality(made)
  <1>1. IsFiniteSet(made) /\ n \in Nat
    BY WantedIs, FS_Subset, FS_CardinalityType
  <1>2. made \subseteq ToSet(Services)
    BY WantedIs
  <1>3. found \in [1..n -> made] /\ \A i, j \in 1..n : i # j => found[i] # found[j]
    BY DEF Found, SetToSeqs
  <1> HIDE DEF made, n
  <1>4. found \in Injection(1..n, made)
    BY <1>3 DEF Injection, IsInjective
  <1>5. Cardinality(1..n) = n
    BY <1>1, FS_Interval
  <1>6. found \in Surjection(1..n, made)
    BY <1>1, <1>4, <1>5, FS_Injection DEF n
  <1>7. found \in Seq(ToSet(Services))
    BY <1>1, <1>2, <1>3
  <1>8. made \subseteq ToSet(found)
    BY <1>3, <1>6 DEF Surjection, ToSet
  <1> QED
    BY <1>7, <1>8 DEF made

\* The commands on the primary, and their ranks.
LEMMA PrimaryCommands ==
  /\ \A do \in {"boot", "clean", "sweep", "inspect", "create", "network"} :
       Cmd(do, Primary) \in Commands /\ Rank(Cmd(do, Primary)) = 1
  /\ Cmd("disconnect", Primary) \in Commands /\ Rank(Cmd("disconnect", Primary)) = 4
  /\ Cmd("connect", Primary) \in Commands /\ Rank(Cmd("connect", Primary)) = 5
  /\ \A do \in {"start", "directory"} : Cmd(do, Primary) \in Commands /\ Rank(Cmd(do, Primary)) = 6
  /\ Rank(Cmd("pull", Primary)) = 1
  <1>1. \A do \in {"boot", "clean", "sweep", "inspect", "create", "network", "disconnect", "connect",
                   "start", "directory"} : Cmd(do, Primary) \in Commands
    BY DEF Cmd, Commands
  <1>2. \A do : Cmd(do, Primary).do = do /\ Cmd(do, Primary).on = Primary
    BY CmdIs
  <1> QED
    BY <1>1, <1>2 DEF Rank

\* The last two steps of every pass of a container target.
LEMMA LastShaped ==
  LET last == <<Cmd("start", Primary), Cmd("directory", Primary)>>
  IN  /\ Shaped(last, 6, 6)
      /\ \A c : Has(last, c) <=> c = Cmd("start", Primary) \/ c = Cmd("directory", Primary)
  <1>1. Cmd("start", Primary).do = "start" /\ Cmd("directory", Primary).do = "directory"
    BY CmdIs
  <1>2. /\ Cmd("start", Primary) \in Commands /\ Cmd("directory", Primary) \in Commands
        /\ Rank(Cmd("start", Primary)) = 6 /\ Rank(Cmd("directory", Primary)) = 6
    BY PrimaryCommands
  <1> QED
    BY <1>1, <1>2, TwoShaped

\* The services' part of a create.
LEMMA ServiceStepsShaped ==
  ASSUME wanted \in {<<>>, Services}
  PROVE  /\ Shaped(ServiceSteps, 1, 5) /\ Has(ServiceSteps, Cmd("connect", Primary))
         /\ \A s \in ToSet(wanted) : \A do \in {"create", "start", "health"} :
              Has(ServiceSteps, Cmd(do, s))
  <1> DEFINE a == <<Cmd("network", Primary)>>
             b == ServicesAdded
             e == HealthOf(wanted)
             f == <<Cmd("disconnect", Primary), Cmd("connect", Primary)>>
  <1>1. Shaped(a, 1, 1)
    <2>1. /\ Cmd("network", Primary) \in Commands /\ Rank(Cmd("network", Primary)) = 1
          /\ Cmd("network", Primary).do = "network"
      BY PrimaryCommands, CmdIs
    <2> QED
      BY <2>1, OneShaped
  <1>2. /\ Shaped(b, 2, 2)
        /\ \A s \in ToSet(wanted) : Has(b, Cmd("create", s)) /\ Has(b, Cmd("start", s))
    BY WantedIs, AddedShaped
  <1>3. Shaped(e, 3, 3) /\ \A s \in ToSet(wanted) : Has(e, Cmd("health", s))
    BY WantedIs, EachShaped DEF HealthOf
  <1>4. Shaped(f, 4, 5) /\ Has(f, Cmd("connect", Primary))
    <2>1. /\ Cmd("disconnect", Primary).do = "disconnect" /\ Cmd("connect", Primary).do = "connect"
      BY CmdIs
    <2>2. /\ Cmd("disconnect", Primary) \in Commands /\ Cmd("connect", Primary) \in Commands
          /\ Rank(Cmd("disconnect", Primary)) = 4 /\ Rank(Cmd("connect", Primary)) = 5
      BY PrimaryCommands
    <2> QED
      BY <2>1, <2>2, TwoShaped
  <1>5. ServiceSteps = ((a \o b) \o e) \o f
    BY DEF ServiceSteps
  <1> HIDE DEF a, b, e, f
  <1>6. Shaped(a \o b, 1, 2) /\ \A c : Has(b, c) => Has(a \o b, c)
    BY <1>1, <1>2, ConcatShaped
  <1>7. Shaped((a \o b) \o e, 1, 3) /\ \A c : Has(a \o b, c) \/ Has(e, c) => Has((a \o b) \o e, c)
    BY <1>3, <1>6, ConcatShaped
  <1>8. /\ Shaped(((a \o b) \o e) \o f, 1, 5)
        /\ \A c : Has((a \o b) \o e, c) \/ Has(f, c) => Has(((a \o b) \o e) \o f, c)
    BY <1>4, <1>7, ConcatShaped
  <1>9. ASSUME NEW s \in ToSet(wanted), NEW do \in {"create", "start", "health"}
        PROVE  Has(ServiceSteps, Cmd(do, s))
    BY <1>2, <1>3, <1>5, <1>6, <1>7, <1>8
  <1> QED
    BY <1>4, <1>5, <1>8, <1>9

\* A create's steps.
LEMMA CreateShaped ==
  ASSUME wanted \in {<<>>, Services}
  PROVE  /\ Shaped(NestedCreateSteps, 1, 6)
         /\ Has(NestedCreateSteps, Cmd("create", Primary)) /\ Has(NestedCreateSteps, Cmd("start", Primary))
         /\ Len(wanted) > 0 => Has(NestedCreateSteps, Cmd("connect", Primary))
         /\ \A s \in ToSet(wanted) : \A do \in {"create", "start", "health"} :
              Has(NestedCreateSteps, Cmd(do, s))
         /\ NestedCreateSteps # <<>> /\ Head(NestedCreateSteps) = Cmd("boot", Primary)
  <1> DEFINE a == <<Cmd("boot", Primary), Cmd("clean", Primary)>>
             b == pull(Primary)
             d == <<Cmd("create", Primary)>>
             e == IF Len(wanted) > 0 THEN ServiceSteps ELSE <<>>
             f == <<Cmd("start", Primary), Cmd("directory", Primary)>>
  <1>1. Shaped(a, 1, 1)
    <2>1. Cmd("boot", Primary).do = "boot" /\ Cmd("clean", Primary).do = "clean"
      BY CmdIs
    <2>2. /\ Cmd("boot", Primary) \in Commands /\ Cmd("clean", Primary) \in Commands
          /\ Rank(Cmd("boot", Primary)) = 1 /\ Rank(Cmd("clean", Primary)) = 1
      BY PrimaryCommands
    <2> QED
      BY <2>1, <2>2, TwoShaped
  <1>2. Shaped(b, 1, 1)
    BY PullShaped, PrimaryCommands
  <1>3. Shaped(d, 1, 1) /\ Has(d, Cmd("create", Primary))
    <2>1. /\ Cmd("create", Primary) \in Commands /\ Rank(Cmd("create", Primary)) = 1
          /\ Cmd("create", Primary).do = "create"
      BY PrimaryCommands, CmdIs
    <2> QED
      BY <2>1, OneShaped
  <1>4. /\ Shaped(e, 1, 5)
        /\ Len(wanted) > 0 => Has(e, Cmd("connect", Primary))
        /\ \A s \in ToSet(wanted) : \A do \in {"create", "start", "health"} : Has(e, Cmd(do, s))
    BY ServiceStepsShaped, EmptyShaped, WantedIs
  <1>5. Shaped(f, 6, 6) /\ Has(f, Cmd("start", Primary))
    BY LastShaped
  <1>6. NestedCreateSteps = (((a \o b) \o d) \o e) \o f
    BY DEF NestedCreateSteps
  <1>h. a \in Seq(Commands) /\ Len(a) >= 2 /\ a[1] = Cmd("boot", Primary)
    BY <1>1 DEF Shaped
  <1> HIDE DEF a, b, d, e, f
  <1>7. Shaped(a \o b, 1, 1)
    BY <1>1, <1>2, ConcatShaped
  <1>8. Shaped((a \o b) \o d, 1, 1) /\ \A c : Has(d, c) => Has((a \o b) \o d, c)
    BY <1>3, <1>7, ConcatShaped
  <1>9. /\ Shaped(((a \o b) \o d) \o e, 1, 5)
        /\ \A c : Has((a \o b) \o d, c) \/ Has(e, c) => Has(((a \o b) \o d) \o e, c)
    BY <1>4, <1>8, ConcatShaped
  <1>10. /\ Shaped((((a \o b) \o d) \o e) \o f, 1, 6)
         /\ \A c : Has(((a \o b) \o d) \o e, c) \/ Has(f, c) => Has((((a \o b) \o d) \o e) \o f, c)
    BY <1>5, <1>9, ConcatShaped
  <1>11. ASSUME NEW s \in ToSet(wanted), NEW do \in {"create", "start", "health"}
         PROVE  Has(NestedCreateSteps, Cmd(do, s))
    BY <1>4, <1>6, <1>9, <1>10
  <1>12. NestedCreateSteps # <<>> /\ Head(NestedCreateSteps) = Cmd("boot", Primary)
    <2>0. a \in Seq(Commands) /\ b \in Seq(Commands) /\ d \in Seq(Commands) /\ e \in Seq(Commands)
          /\ f \in Seq(Commands)
      BY <1>1, <1>2, <1>3, <1>4, <1>5 DEF Shaped
    <2>1. ASSUME NEW x \in Seq(Commands), NEW y \in Seq(Commands), Len(x) >= 2, x[1] = Cmd("boot", Primary)
          PROVE  /\ x \o y \in Seq(Commands) /\ Len(x \o y) >= 2 /\ (x \o y)[1] = Cmd("boot", Primary)
                 /\ x \o y # <<>> /\ Head(x \o y) = Cmd("boot", Primary)
      BY <2>1
    <2>2. a \o b \in Seq(Commands) /\ Len(a \o b) >= 2 /\ (a \o b)[1] = Cmd("boot", Primary)
      BY <1>h, <2>0, <2>1
    <2>3. /\ (a \o b) \o d \in Seq(Commands) /\ Len((a \o b) \o d) >= 2
          /\ ((a \o b) \o d)[1] = Cmd("boot", Primary)
      BY <2>0, <2>1, <2>2
    <2>4. /\ ((a \o b) \o d) \o e \in Seq(Commands) /\ Len(((a \o b) \o d) \o e) >= 2
          /\ (((a \o b) \o d) \o e)[1] = Cmd("boot", Primary)
      BY <2>0, <2>1, <2>3
    <2> QED
      BY <1>6, <2>0, <2>1, <2>4
  <1> QED
    BY <1>3, <1>4, <1>5, <1>6, <1>8, <1>9, <1>10, <1>11, <1>12

\* The steps up to the inspection.
LEMMA ReadyShaped ==
  ASSUME NEW sweep \in BOOLEAN
  PROVE  /\ Shaped(ReadySteps(sweep), 1, 1)
         /\ \A c : Has(ReadySteps(sweep), c) => c.do \notin CreateOnly
         /\ target = "Container" => Has(ReadySteps(sweep), Cmd("inspect", Primary))
  <1> DEFINE a == <<Cmd("boot", Primary)>>
             b == IF sweep THEN <<Cmd("clean", Primary), Cmd("sweep", Primary)>> ELSE <<>>
             d == IF target = "Container" THEN <<Cmd("inspect", Primary)>> ELSE <<>>
  <1>0. \A do : Cmd(do, Primary).do = do
    BY CmdIs
  <1>1. Shaped(a, 1, 1) /\ \A c : Has(a, c) => c = Cmd("boot", Primary)
    BY <1>0, PrimaryCommands, OneShaped
  <1>2. Shaped(b, 1, 1) /\ \A c : Has(b, c) => c = Cmd("clean", Primary) \/ c = Cmd("sweep", Primary)
    <2>1. /\ Shaped(<<Cmd("clean", Primary), Cmd("sweep", Primary)>>, 1, 1)
          /\ \A c : Has(<<Cmd("clean", Primary), Cmd("sweep", Primary)>>, c)
                    => c = Cmd("clean", Primary) \/ c = Cmd("sweep", Primary)
      <3>1. /\ Cmd("clean", Primary) \in Commands /\ Cmd("sweep", Primary) \in Commands
            /\ Rank(Cmd("clean", Primary)) = 1 /\ Rank(Cmd("sweep", Primary)) = 1
        BY PrimaryCommands
      <3> QED
        BY <1>0, <3>1, TwoShaped
    <2> QED
      BY <2>1, EmptyShaped
  <1>3. /\ Shaped(d, 1, 1) /\ \A c : Has(d, c) => c = Cmd("inspect", Primary)
        /\ target = "Container" => Has(d, Cmd("inspect", Primary))
    <2>1. /\ Shaped(<<Cmd("inspect", Primary)>>, 1, 1)
          /\ \A c : Has(<<Cmd("inspect", Primary)>>, c) <=> c = Cmd("inspect", Primary)
      BY <1>0, PrimaryCommands, OneShaped
    <2> QED
      BY <2>1, EmptyShaped
  <1>4. ReadySteps(sweep) = (a \o b) \o d
    BY DEF ReadySteps
  <1> HIDE DEF a, b, d
  <1>5. Shaped(a \o b, 1, 1) /\ \A c : Has(a \o b, c) <=> Has(a, c) \/ Has(b, c)
    BY <1>1, <1>2, ConcatShaped
  <1>6. Shaped((a \o b) \o d, 1, 1) /\ \A c : Has((a \o b) \o d, c) <=> Has(a \o b, c) \/ Has(d, c)
    BY <1>3, <1>5, ConcatShaped
  <1>7. ASSUME NEW c, Has(ReadySteps(sweep), c) PROVE c.do \notin CreateOnly
    <2>1. c \in {Cmd("boot", Primary), Cmd("clean", Primary), Cmd("sweep", Primary), Cmd("inspect", Primary)}
      BY <1>1, <1>2, <1>3, <1>4, <1>5, <1>6, <1>7
    <2> QED
      BY <1>0, <2>1 DEF CreateOnly
  <1> QED
    BY <1>3, <1>4, <1>6, <1>7

\* The steps after the inspection.
LEMMA RecoverShaped ==
  ASSUME wanted \in {<<>>, Services}, NEW found \in Found
  PROVE  /\ Shaped(RecoverSteps(found), 2, 6)
         /\ \A c : Has(RecoverSteps(found), c) => c.do \notin CreateOnly
         /\ Has(RecoverSteps(found), Cmd("start", Primary))
         /\ \A s \in ToSet(wanted) : service[s].made =>
              Has(RecoverSteps(found), Cmd("start", s)) /\ Has(RecoverSteps(found), Cmd("health", s))
  <1> DEFINE a == OnEach("start", found)
             b == HealthOf(found)
             d == IF Len(wanted) > 0 THEN a \o b ELSE <<>>
             e == <<Cmd("start", Primary), Cmd("directory", Primary)>>
  <1>0. /\ found \in Seq(ToSet(Services))
        /\ \A s \in ToSet(wanted) : service[s].made => s \in ToSet(found)
    BY FoundIs
  <1>1. /\ Shaped(a, 2, 2) /\ \A c : Has(a, c) => c.do = "start"
        /\ \A s \in ToSet(found) : Has(a, Cmd("start", s))
    BY <1>0, EachShaped DEF Has
  <1>2. /\ Shaped(b, 3, 3) /\ \A c : Has(b, c) => c.do = "health"
        /\ \A s \in ToSet(found) : Has(b, Cmd("health", s))
    BY <1>0, EachShaped DEF Has, HealthOf
  <1>3. Shaped(e, 6, 6) /\ \A c : Has(e, c) <=> c = Cmd("start", Primary) \/ c = Cmd("directory", Primary)
    BY LastShaped
  <1>4. \A c : Has(e, c) => c.do \in {"start", "directory"}
    BY <1>3, CmdIs
  <1>5. RecoverSteps(found) = d \o e
    BY DEF RecoverSteps
  <1> HIDE DEF a, b, e
  <1>6. Shaped(a \o b, 2, 3) /\ \A c : Has(a \o b, c) <=> Has(a, c) \/ Has(b, c)
    BY <1>1, <1>2, ConcatShaped
  <1>7. /\ Shaped(d, 2, 3) /\ \A c : Has(d, c) => c.do \in {"start", "health"}
        /\ Len(wanted) > 0 => \A c : Has(a, c) \/ Has(b, c) => Has(d, c)
    BY <1>1, <1>2, <1>6, EmptyShaped
  <1> HIDE DEF d
  <1>8. Shaped(d \o e, 2, 6) /\ \A c : Has(d \o e, c) <=> Has(d, c) \/ Has(e, c)
    BY <1>3, <1>7, ConcatShaped
  <1>9. ASSUME NEW c, Has(RecoverSteps(found), c) PROVE c.do \notin CreateOnly
    BY <1>4, <1>5, <1>7, <1>8, <1>9 DEF CreateOnly
  <1>10. ASSUME NEW s \in ToSet(wanted), service[s].made
         PROVE  Has(RecoverSteps(found), Cmd("start", s)) /\ Has(RecoverSteps(found), Cmd("health", s))
    <2>1. s \in ToSet(found) /\ Len(wanted) > 0
      BY <1>0, <1>10, WantedIs
    <2> QED
      BY <1>1, <1>2, <1>5, <1>7, <1>8, <2>1
  <1> QED
    BY <1>3, <1>5, <1>8, <1>9, <1>10

\* What a primary, a service and a handle may be.
Primaries == [made : BOOLEAN, net : {"none", "off", "bridge", "services"}, ran : 0..MaxBoots]
ServiceBoxes == [made : BOOLEAN, ran : 0..MaxBoots, health : {"starting", "healthy", "unhealthy"}]
Passes == [state : {"Fresh", "Ready", "Restarted"}, pass : {"idle", "create", "ready"},
           steps : Seq(Commands), began : 0..MaxBoots, ended : BOOLEAN, told : 0..MaxBoots]

\* The daemon loses nothing: what is made stays, and so does what came up since, or past, some
\* generation.
ServiceKept(a, b) ==
    /\ a.made => b.made
    /\ \A n \in Nat \ {0} : /\ a.ran >= n => b.ran >= n
                            /\ a.ran >= n /\ Past(n, a) => Past(n, b)
Keeps(prim, svc, prim2, svc2) ==
    /\ prim.made => prim2.made
    /\ \A n \in Nat \ {0} : prim.ran >= n => prim2.ran >= n
    /\ prim.net = "services" => prim2.net = "services"
    /\ \A s \in ToSet(Services) : ServiceKept(svc[s], svc2[s])

\* What a command that succeeds has done.
Promise(c, boot, prim, svc) ==
    /\ c = Cmd("create", Primary) => prim.made
    /\ c = Cmd("start", Primary) => prim.ran = boot
    /\ c = Cmd("connect", Primary) => prim.net = "services"
    /\ \A s \in ToSet(Services) :
         /\ c = Cmd("create", s) => svc[s].made
         /\ c = Cmd("start", s) => svc[s].ran = boot
         /\ c = Cmd("health", s) /\ s \in Checked => svc[s].health # "starting"

\* A handle that takes no part keeps fitting what the daemon becomes.
LEMMA HandleKept ==
  ASSUME NEW k, NEW gen \in Nat, NEW prim, NEW svc, NEW prim2, NEW svc2, NEW list, NEW kind,
         ToSet(list) \subseteq ToSet(Services),
         HandleFits(k, gen, prim, svc, list, kind), Keeps(prim, svc, prim2, svc2),
         Has(k.steps, Cmd("disconnect", Primary)) => prim2.net # "services"
  PROVE  HandleFits(k, gen, prim2, svc2, list, kind)
  <1>1. PassShape(k) /\ BegunFits(k, gen)
    BY DEF HandleFits
  <1>2. StillBuilds(k, prim2, svc2, list)
    <2>1. StillBuilds(k, prim, svc, list)
      BY DEF HandleFits
    <2> QED
      BY <2>1 DEF StillBuilds, Keeps, ServiceKept
  <1>n. k.pass # "idle" \/ k.state = "Ready" => k.began \in Nat \ {0}
    BY <1>1 DEF BegunFits
  <1>3. ASSUME k.pass # "idle" \/ k.state = "Ready", StillBrings(k.steps, k.began, prim, svc, list)
        PROVE  StillBrings(k.steps, k.began, prim2, svc2, list)
    <2>1. CASE Has(k.steps, Cmd("inspect", Primary))
      BY <2>1 DEF StillBrings
    <2>2. CASE /\ PrimaryComes(k.steps, k.began, prim) /\ NetworkComes(k.steps, prim, list)
               /\ \A s \in ToSet(list) : ServiceComes(k.steps, k.began, svc, s)
      <3>1. PrimaryComes(k.steps, k.began, prim2)
        BY <1>3, <1>n, <2>2 DEF PrimaryComes, Keeps
      <3>2. NetworkComes(k.steps, prim2, list)
        BY <2>2 DEF NetworkComes, Keeps
      <3>3. ASSUME NEW s \in ToSet(list) PROVE ServiceComes(k.steps, k.began, svc2, s)
        <4>1. ServiceKept(svc[s], svc2[s])
          BY DEF Keeps
        <4> QED
          BY <1>3, <1>n, <2>2, <4>1 DEF ServiceComes, ServiceKept
      <3> QED
        BY <3>1, <3>2, <3>3 DEF StillBrings
    <2> QED
      BY <1>3, <2>1, <2>2 DEF StillBrings
  <1> QED
    BY <1>1, <1>2, <1>3 DEF HandleFits

\* The handle whose command succeeded has the rest of its pass to go.
LEMMA StepFits ==
  ASSUME NEW k \in Passes, NEW gen \in Nat, NEW prim, NEW svc, NEW prim2, NEW svc2, NEW list, NEW kind,
         ToSet(list) \subseteq ToSet(Services),
         HandleFits(k, gen, prim, svc, list, kind), Keeps(prim, svc, prim2, svc2),
         k.steps # <<>>, k.pass # "idle",
         Promise(Head(k.steps), gen, prim2, svc2), Head(k.steps).do # "inspect",
         prim2.net = "services" => prim.net = "services" \/ Head(k.steps).do = "connect"
  PROVE  HandleFits([k EXCEPT !.steps = Tail(@)], gen, prim2, svc2, list, kind)
  <1> DEFINE st == k.steps
             c == Head(st)
             t == Tail(st)
             k2 == [k EXCEPT !.steps = t]
  <1>0. /\ k2.steps = t /\ k2.pass = k.pass /\ k2.state = k.state /\ k2.began = k.began
        /\ k2.ended = k.ended /\ k2.told = k.told
        /\ st \in Seq(Commands)
    BY DEF Passes
  <1> HIDE DEF k2
  <1>1. /\ c \in Commands /\ t \in Seq(Commands)
        /\ Sorted(st) => Sorted(t)
        /\ PullsAreWhole(st) => PullsAreWhole(t)
        /\ (\A i \in DOMAIN st : st[i].do \notin CreateOnly) =>
             \A i \in DOMAIN t : t[i].do \notin CreateOnly
        /\ \A e : Has(t, e) => Has(st, e)
        /\ \A e : Has(st, e) => Has(t, e) \/ e = c
        /\ Sorted(st) => \A e : Has(t, e) => Rank(c) <= Rank(e)
    BY <1>0, TailKeeps
  <1> HIDE DEF st, c, t
  <1>2. PassShape(k) /\ BegunFits(k, gen) /\ StillBuilds(k, prim, svc, list)
    BY DEF HandleFits
  <1>3. PassShape(k2)
    BY <1>0, <1>1, <1>2 DEF PassShape, st
  <1>4. Sorted(st)
    BY <1>2 DEF PassShape, st
  <1>5. StillBuilds(k2, prim2, svc2, list)
    <2>1. ASSUME Has(t, Cmd("disconnect", Primary)) PROVE prim2.net # "services"
      <3>1. prim.net # "services"
        BY <1>1, <1>2, <2>1 DEF StillBuilds, st
      <3>2. Rank(c) <= 4
        BY <1>1, <1>4, <2>1, PrimaryCommands
      <3>3. c.do # "connect"
        <4>1. c.do = "connect" => c.on = Primary
          BY <1>1, CommandIs
        <4>2. c.do = "connect" /\ c.on = Primary => Rank(c) = 5
          BY DEF Rank
        <4> QED
          BY <3>2, <4>1, <4>2
      <3> QED
        BY <3>1, <3>3 DEF c, st
    <2>2. ASSUME k.pass = "create" PROVE prim2.made \/ Has(t, Cmd("create", Primary))
      BY <1>1, <1>2, <2>2 DEF StillBuilds, Keeps, Promise, st, c
    <2>3. ASSUME k.pass = "create", NEW s \in ToSet(list)
          PROVE  svc2[s].made \/ Has(t, Cmd("create", s))
      <3>1. svc[s].made \/ Has(st, Cmd("create", s))
        BY <1>2, <2>3 DEF StillBuilds, st
      <3>2. svc[s].made => svc2[s].made
        BY DEF Keeps, ServiceKept
      <3>3. Cmd("create", s) = c => svc2[s].made
        BY DEF Promise, c, st
      <3> QED
        BY <1>1, <3>1, <3>2, <3>3
    <2> QED
      BY <1>0, <2>1, <2>2, <2>3 DEF StillBuilds
  <1>n. k.began \in Nat \ {0} /\ k.began <= gen
    BY <1>2 DEF BegunFits
  <1>6. ASSUME StillBrings(st, k.began, prim, svc, list) PROVE StillBrings(t, k.began, prim2, svc2, list)
    <2>1. CASE Has(st, Cmd("inspect", Primary))
      <3>1. c # Cmd("inspect", Primary)
        BY CmdIs DEF c, st
      <3> QED
        BY <1>1, <2>1, <3>1 DEF StillBrings
    <2>2. CASE /\ PrimaryComes(st, k.began, prim) /\ NetworkComes(st, prim, list)
               /\ \A s \in ToSet(list) : ServiceComes(st, k.began, svc, s)
      <3>1. PrimaryComes(t, k.began, prim2)
        BY <1>1, <1>n, <2>2 DEF PrimaryComes, Keeps, Promise, c, st
      <3>2. NetworkComes(t, prim2, list)
        BY <1>1, <2>2 DEF NetworkComes, Keeps, Promise, c, st
      <3>3. ASSUME NEW s \in ToSet(list) PROVE ServiceComes(t, k.began, svc2, s)
        <4>0. ServiceKept(svc[s], svc2[s]) /\ ServiceComes(st, k.began, svc, s)
          BY <2>2 DEF Keeps
        <4>1. svc2[s].ran >= k.began \/ Has(t, Cmd("start", s))
          <5>1. Cmd("start", s) = c => svc2[s].ran >= k.began
            BY <1>n DEF Promise, c, st
          <5> QED
            BY <1>1, <1>n, <4>0, <5>1 DEF ServiceComes, ServiceKept
        <4>2. ASSUME s \in Checked
              PROVE  (svc2[s].ran >= k.began /\ Past(k.began, svc2[s])) \/ Has(t, Cmd("health", s))
          <5>1. CASE svc[s].ran >= k.began /\ Past(k.began, svc[s])
            BY <1>n, <4>0, <5>1 DEF ServiceKept
          <5>2. CASE Has(t, Cmd("health", s))
            BY <5>2
          <5>3. CASE c = Cmd("health", s)
            <6>1. svc2[s].health # "starting"
              BY <4>2, <5>3 DEF Promise, c, st
            <6>2. s # Primary /\ c.on = s /\ c.do = "health"
              BY <5>3, CmdIs, NestedAssumption DEF Primary
            <6>3. Rank(c) = 3 /\ Rank(Cmd("start", s)) = 2
              BY <6>2, CmdIs DEF Rank
            <6>4. ~Has(t, Cmd("start", s))
              BY <1>1, <1>4, <6>3
            <6> QED
              BY <4>1, <6>1, <6>4 DEF Past
          <5> QED
            BY <1>1, <4>0, <4>2, <5>1, <5>2, <5>3 DEF ServiceComes
        <4> QED
          BY <4>1, <4>2 DEF ServiceComes
      <3> QED
        BY <3>1, <3>2, <3>3 DEF StillBrings
    <2> QED
      BY <1>6, <2>1, <2>2 DEF StillBrings
  <1>7. HandleFits(k2, gen, prim2, svc2, list, kind)
    BY <1>0, <1>2, <1>3, <1>5, <1>6 DEF HandleFits, BegunFits, st
  <1> QED
    BY <1>7 DEF k2, t, st

\* The types by name, and that what only exists runs in no boot.
LEMMA NestedTypes ==
  ASSUME NestedServicesTypeOK
  PROVE  /\ primaryBox \in Primaries /\ service \in [ToSet(Services) -> ServiceBoxes]
         /\ nestedHandle \in [NestedHandles -> Passes]
         /\ machine.boot \in 1..MaxBoots /\ machine.boot # Never /\ machine.boot \in Nat
         /\ wanted \in {<<>>, Services} /\ ToSet(wanted) \subseteq ToSet(Services)
         /\ MaxBoots \in Nat
  <1>1. wanted \in {<<>>, Services} /\ ToSet(wanted) \subseteq ToSet(Services)
    BY WantedIs DEF NestedServicesTypeOK
  <1>2. MaxBoots \in Nat
    BY NestedAssumption
  <1>3. machine.boot \in 1..MaxBoots
    BY DEF NestedServicesTypeOK
  <1> QED
    BY <1>1, <1>2, <1>3 DEF NestedServicesTypeOK, Primaries, ServiceBoxes, Passes, Never

\* What the daemon becomes is what it may be, and loses nothing.
DaemonMoves(c) ==
    /\ primaryBox' \in Primaries /\ network' \in BOOLEAN
    /\ service' \in [ToSet(Services) -> ServiceBoxes]
    /\ Keeps(primaryBox, service, primaryBox', service')
    /\ Promise(c, machine.boot, primaryBox', service')
    /\ DaemonFits(machine.boot, primaryBox', service', wanted)
    /\ primaryBox'.net = "services" => primaryBox.net = "services" \/ c.do = "connect"
    /\ c.do # "create" => primaryBox'.made = primaryBox.made

\* A command that leaves the containers alone.
LEMMA QuietStep ==
  ASSUME NestedServicesTypeOK, DaemonFits(machine.boot, primaryBox, service, wanted), NEW c \in Commands,
         UNCHANGED <<primaryBox, service>>, network' \in BOOLEAN,
         c.do \notin {"create", "start", "connect"},
         c.do = "health" => await_health(c.on)
  PROVE  DaemonMoves(c)
  <1>1. primaryBox' \in Primaries /\ service' \in [ToSet(Services) -> ServiceBoxes]
    BY NestedTypes
  <1>2. Keeps(primaryBox, service, primaryBox', service')
    BY DEF Keeps, ServiceKept
  <1>3. Promise(c, machine.boot, primaryBox', service')
    <2>1. \A s : c = Cmd("health", s) => c.do = "health" /\ c.on = s
      BY CmdIs
    <2>2. \A s : c # Cmd("create", s) /\ c # Cmd("start", s) /\ c # Cmd("connect", s)
      BY CmdIs
    <2> QED
      BY <2>1, <2>2 DEF Promise, await_health
  <1>4. DaemonFits(machine.boot, primaryBox', service', wanted)
    BY DEF DaemonFits
  <1> QED
    BY <1>1, <1>2, <1>3, <1>4 DEF DaemonMoves

\* A command on the primary alone.
LEMMA PrimaryStep ==
  ASSUME NestedServicesTypeOK, DaemonFits(machine.boot, primaryBox, service, wanted), NEW c \in Commands,
         UNCHANGED <<service, network>>, NEW b \in Primaries, primaryBox' = b,
         c.on = Primary,
         primaryBox.made => b.made, primaryBox.ran <= b.ran, b.ran <= machine.boot,
         primaryBox.net = "services" => b.net = "services",
         c.do = "create" => b.made, c.do = "start" => b.ran = machine.boot,
         c.do = "connect" => b.net = "services",
         b.ran # Never => b.made,
         b.net = "services" => primaryBox.net = "services" \/ c.do = "connect",
         b.net = "services" => b.made /\ \A s \in ToSet(wanted) : service[s].made,
         c.do # "create" => b.made = primaryBox.made
  PROVE  DaemonMoves(c)
  <1>1. service' \in [ToSet(Services) -> ServiceBoxes] /\ network' \in BOOLEAN
    BY NestedTypes DEF NestedServicesTypeOK
  <1>2. Keeps(primaryBox, service, primaryBox', service')
    <2>1. primaryBox.ran \in Int /\ b.ran \in Int
      BY NestedTypes DEF Primaries
    <2> QED
      BY <2>1 DEF Keeps, ServiceKept
  <1>3. Promise(c, machine.boot, primaryBox', service')
    <2>1. \A do, s : c = Cmd(do, s) => c.do = do /\ s = Primary
      BY CmdIs
    <2>2. Primary \notin ToSet(Services)
      BY NestedAssumption DEF Primary
    <2> QED
      BY <2>1, <2>2 DEF Promise
  <1>4. DaemonFits(machine.boot, primaryBox', service', wanted)
    BY DEF DaemonFits
  <1> QED
    BY <1>1, <1>2, <1>3, <1>4 DEF DaemonMoves

\* A command on one service.
LEMMA ServiceStep ==
  ASSUME NestedServicesTypeOK, DaemonFits(machine.boot, primaryBox, service, wanted), NEW c \in Commands,
         UNCHANGED <<primaryBox, network>>, NEW b \in ServiceBoxes, c.on # Primary,
         service' = [service EXCEPT ![c.on] = b], c.do \in {"create", "start"},
         ServiceKept(service[c.on], b),
         b.made, b.ran <= machine.boot, c.do = "start" => b.ran = machine.boot
  PROVE  DaemonMoves(c)
  <1>0. c.on \in ToSet(Services)
    BY CommandIs
  <1>1. primaryBox' \in Primaries /\ network' \in BOOLEAN /\ service' \in [ToSet(Services) -> ServiceBoxes]
    BY <1>0, NestedTypes DEF NestedServicesTypeOK
  <1>2. /\ service'[c.on] = b
        /\ \A s \in ToSet(Services) : s # c.on => service'[s] = service[s]
    BY <1>0, NestedTypes
  <1>3. Keeps(primaryBox, service, primaryBox', service')
    BY <1>2 DEF Keeps, ServiceKept
  <1>4. Promise(c, machine.boot, primaryBox', service')
    <2>1. \A do, s : c = Cmd(do, s) => c.do = do /\ s = c.on
      BY CmdIs
    <2> QED
      BY <1>2, <2>1 DEF Promise
  <1>5. DaemonFits(machine.boot, primaryBox', service', wanted)
    <2>1. ToSet(wanted) \subseteq ToSet(Services)
      BY NestedTypes
    <2> QED
      BY <1>2, <2>1 DEF DaemonFits
  <1> QED
    BY <1>1, <1>3, <1>4, <1>5 DEF DaemonMoves

\* What a step of a pass does to the containers.
LEMMA StepEffect ==
  ASSUME NestedServicesTypeOK, DaemonFits(machine.boot, primaryBox, service, wanted), NEW c \in Commands,
         TakesStep(c), c.do # "inspect",
         c.do = "disconnect" => primaryBox.net # "services",
         c.do = "connect" => primaryBox.made /\ \A s \in ToSet(wanted) : service[s].made
  PROVE  DaemonMoves(c)
  <1>0. /\ primaryBox \in Primaries /\ service \in [ToSet(Services) -> ServiceBoxes]
        /\ machine.boot \in 1..MaxBoots /\ machine.boot # Never /\ machine.boot \in Nat
        /\ network \in BOOLEAN /\ MaxBoots \in Nat
    BY NestedTypes DEF NestedServicesTypeOK
  <1>b. machine.boot \in 0..MaxBoots
    BY <1>0
  <1>1. /\ c.on \in ToSet(Services) \cup {Primary}
        /\ c.on # Primary => c.do \in {"login", "pull", "logout", "create", "start", "health"}
        /\ c.on = Primary => c.do # "health"
    BY CommandIs
  <1>2. CASE c.do = "create" /\ c.on = Primary
    <2>1. ~primaryBox.made /\ UNCHANGED <<network, service>>
      BY <1>2 DEF TakesStep, primary_args
    <2>2. primaryBox' = [made |-> TRUE, net |-> IF Len(wanted) > 0 THEN "none" ELSE "bridge",
                         ran |-> Never]
      BY <1>2 DEF TakesStep, primary_args
    <2>3. primaryBox' \in Primaries /\ primaryBox'.made /\ primaryBox'.ran = Never
          /\ primaryBox'.net # "services"
      BY <1>0, <2>2 DEF Primaries, Never
    <2>4. primaryBox.ran = Never /\ primaryBox.net # "services"
      BY <2>1 DEF DaemonFits
    <2> QED
      BY <1>0, <1>2, <2>1, <2>3, <2>4, PrimaryStep DEF Never
  <1>3. CASE c.do = "create" /\ c.on # Primary
    <2>1. ~service[c.on].made /\ UNCHANGED <<network, primaryBox>>
      BY <1>3 DEF TakesStep, sidecar_args
    <2> DEFINE b == [made |-> TRUE, ran |-> Never, health |-> "starting"]
    <2>2. service' = [service EXCEPT ![c.on] = b]
      BY <1>3 DEF TakesStep, sidecar_args
    <2>3. b \in ServiceBoxes /\ b.made /\ b.ran <= machine.boot
      BY <1>0 DEF ServiceBoxes, Never
    <2> HIDE DEF b
    <2>4. service[c.on].ran = Never
      BY <1>1, <1>3, <2>1 DEF DaemonFits
    <2>5. ServiceKept(service[c.on], b)
      BY <2>1, <2>4 DEF ServiceKept, Never
    <2> QED
      BY <1>3, <2>1, <2>2, <2>3, <2>5, ServiceStep
  <1>4. CASE c.do = "start" /\ c.on = Primary
    <2>1. primaryBox.made /\ UNCHANGED <<network, service>>
          /\ primaryBox' = [primaryBox EXCEPT !.ran = machine.boot]
      BY <1>4 DEF TakesStep, Started
    <2>2. /\ primaryBox' \in Primaries /\ primaryBox'.made = primaryBox.made
          /\ primaryBox'.ran = machine.boot /\ primaryBox'.net = primaryBox.net
      BY <1>0, <1>b, <2>1 DEF Primaries
    <2>3. /\ primaryBox.ran <= machine.boot /\ machine.boot <= machine.boot
          /\ (primaryBox.net = "services" => \A s \in ToSet(wanted) : service[s].made)
      BY <1>0 DEF DaemonFits
    <2> QED
      BY <1>4, <2>1, <2>2, <2>3, PrimaryStep
  <1>5. CASE c.do = "start" /\ c.on # Primary
    <2>1. service[c.on].made /\ UNCHANGED <<network, primaryBox>>
      BY <1>5 DEF TakesStep, Started
    <2> DEFINE b == [service[c.on] EXCEPT !.ran = machine.boot,
                        !.health = IF service[c.on].ran = machine.boot THEN @ ELSE "starting"]
    <2>2. service' = [service EXCEPT ![c.on] = b]
      BY <1>0, <1>1, <1>5 DEF TakesStep, Started
    <2>3. service[c.on] \in ServiceBoxes
      BY <1>0, <1>1, <1>5
    <2>4. /\ b \in ServiceBoxes /\ b.made = service[c.on].made /\ b.ran = machine.boot
          /\ service[c.on].ran = machine.boot => b.health = service[c.on].health
      <3>1. ASSUME NEW a \in ServiceBoxes, NEW n \in 0..MaxBoots
            PROVE  LET e == [a EXCEPT !.ran = n, !.health = IF a.ran = n THEN @ ELSE "starting"]
                   IN  /\ e \in ServiceBoxes /\ e.made = a.made /\ e.ran = n
                       /\ a.ran = n => e.health = a.health
        BY DEF ServiceBoxes
      <3> QED
        BY <1>b, <2>3, <3>1
    <2> HIDE DEF b
    <2>5. ServiceKept(service[c.on], b)
      <3>1. service[c.on].ran \in Nat /\ service[c.on].ran <= machine.boot
        BY <1>1, <1>5, <2>3 DEF DaemonFits, ServiceBoxes
      <3> QED
        BY <1>0, <2>4, <3>1 DEF ServiceKept, Past
    <2>6. b.ran <= machine.boot
      BY <1>0, <2>4
    <2> QED
      BY <1>5, <2>1, <2>2, <2>4, <2>5, <2>6, ServiceStep
  <1>6. CASE c.do = "disconnect"
    <2>1. UNCHANGED <<network, service>> /\ primaryBox' = [primaryBox EXCEPT !.net = "off"]
      BY <1>6 DEF TakesStep
    <2>2. /\ primaryBox' \in Primaries /\ primaryBox'.made = primaryBox.made
          /\ primaryBox'.ran = primaryBox.ran /\ primaryBox'.net # "services"
      BY <1>0, <2>1 DEF Primaries
    <2>3. (primaryBox.ran # Never => primaryBox.made) /\ primaryBox.ran <= machine.boot
          /\ primaryBox.ran <= primaryBox.ran
      BY <1>0 DEF DaemonFits, Primaries
    <2> QED
      BY <1>1, <1>6, <2>1, <2>2, <2>3, PrimaryStep
  <1>7. CASE c.do = "connect"
    <2>1. UNCHANGED <<network, service>> /\ primaryBox' = [primaryBox EXCEPT !.net = "services"]
      BY <1>7 DEF TakesStep
    <2>2. /\ primaryBox' \in Primaries /\ primaryBox'.made = primaryBox.made
          /\ primaryBox'.ran = primaryBox.ran /\ primaryBox'.net = "services"
      BY <1>0, <2>1 DEF Primaries
    <2>3. primaryBox.ran <= machine.boot /\ primaryBox.ran <= primaryBox.ran
      BY <1>0 DEF DaemonFits, Primaries
    <2> QED
      BY <1>1, <1>7, <2>1, <2>2, <2>3, PrimaryStep
  <1>8. CASE c.do \notin {"create", "start", "disconnect", "connect"}
    <2>1. UNCHANGED <<primaryBox, service>> /\ network' \in BOOLEAN /\ (c.do = "health" => await_health(c.on))
      <3>1. c.do \in {"boot", "clean", "sweep", "login", "pull", "logout", "network", "directory", "health"}
        BY <1>8 DEF Commands
      <3> QED
        BY <1>0, <1>8, <3>1 DEF TakesStep, innerVars
    <2> QED
      BY <1>8, <2>1, QuietStep
  <1> QED
    BY <1>2, <1>3, <1>4, <1>5, <1>6, <1>7, <1>8

\* What it does to the logins.
LEMMA LoginEffect ==
  ASSUME NEW c \in Commands, TakesStep(c), c.do # "inspect"
  PROVE  /\ c.do = "login" => logins' = logins \cup {c.on}
         /\ c.do = "logout" => logins' = logins \ {c.on}
         /\ c.do \notin {"login", "logout"} => logins' \subseteq logins
  <1>1. CASE c.do = "login"
    BY <1>1 DEF TakesStep
  <1>2. CASE c.do = "logout"
    BY <1>2 DEF TakesStep
  <1>3. CASE c.do = "clean"
    BY <1>3 DEF TakesStep
  <1>4. CASE c.do \notin {"login", "logout", "clean"}
    <2>1. logins' = logins
      <3>1. c.do \in {"boot", "sweep", "pull", "network", "directory", "health", "create", "start",
                      "connect", "disconnect"}
        BY <1>4 DEF Commands
      <3> QED
        BY <3>1 DEF TakesStep, innerVars
    <2> QED
      BY <1>4, <2>1
  <1> QED
    BY <1>1, <1>2, <1>3, <1>4

\* One handle changes, and with it perhaps the daemon, in no way that another would miss.
LEMMA HandleMoves ==
  ASSUME NestedInv, NEW h \in NestedHandles, NEW k \in Passes,
         nestedHandle' = [nestedHandle EXCEPT ![h] = k], UNCHANGED <<target, wanted>>,
         machine' \in [up : BOOLEAN, boot : 1..MaxBoots, docker : BOOLEAN],
         machine'.boot = machine.boot, machine'.up = machine.up,
         primaryBox' \in Primaries, network' \in BOOLEAN,
         service' \in [ToSet(Services) -> ServiceBoxes],
         logins' \subseteq ToSet(Services) \cup {Primary},
         created' \in {"no", "running", "ok", "failed", "dropped"},
         Keeps(primaryBox, service, primaryBox', service'),
         DaemonFits(machine.boot, primaryBox', service', wanted),
         \A g \in NestedHandles : g # h /\ Has(nestedHandle[g].steps, Cmd("disconnect", Primary)) =>
           primaryBox'.net # "services",
         HandleFits(k, VmGeneration, primaryBox', service', wanted, target),
         LoginInv', CreateInv'
  PROVE  NestedInv'
  <1>0. /\ nestedHandle \in [NestedHandles -> Passes] /\ ToSet(wanted) \subseteq ToSet(Services)
        /\ NestedServicesTypeOK /\ VmGeneration \in Nat /\ VmGeneration' = VmGeneration
    BY NestedTypes DEF NestedInv, VmGeneration
  <1>1. nestedHandle' \in [NestedHandles -> Passes] /\ nestedHandle'[h] = k
        /\ \A g \in NestedHandles : g # h => nestedHandle'[g] = nestedHandle[g]
    BY <1>0
  <1>2. NestedServicesTypeOK'
    BY <1>0, <1>1 DEF NestedServicesTypeOK, Passes, Primaries, ServiceBoxes
  <1>3. ASSUME NEW g \in NestedHandles
        PROVE  HandleFits(nestedHandle'[g], VmGeneration', primaryBox', service', wanted', target')
    <2>1. CASE g = h
      BY <1>0, <1>1, <2>1
    <2>2. CASE g # h
      <3>1. HandleFits(nestedHandle[g], VmGeneration, primaryBox, service, wanted, target)
        BY DEF NestedInv
      <3>2. HandleFits(nestedHandle[g], VmGeneration, primaryBox', service', wanted, target)
        BY <1>0, <2>2, <3>1, HandleKept
      <3> QED
        BY <1>0, <1>1, <2>2, <3>2
    <2> QED
      BY <2>1, <2>2
  <1>4. (~machine.up => machine.boot < MaxBoots)'
    BY DEF NestedInv
  <1>5. DaemonFits(machine'.boot, primaryBox', service', wanted')
    OBVIOUS
  <1> QED
    BY <1>2, <1>3, <1>4, <1>5 DEF NestedInv

\* Keeping everything keeps everything.
LEMMA KeepsItself ==
  ASSUME NEW prim, NEW svc
  PROVE  Keeps(prim, svc, prim, svc)
  BY DEF Keeps, ServiceKept

\* One handle changes, perhaps the logins, and nothing else of the VM.
LEMMA HandleOnly ==
  ASSUME NestedInv, NEW h \in NestedHandles, NEW k \in Passes,
         nestedHandle' = [nestedHandle EXCEPT ![h] = k],
         UNCHANGED <<target, wanted, machine, primaryBox, network, service>>,
         logins' \subseteq ToSet(Services) \cup {Primary},
         created' \in {"no", "running", "ok", "failed", "dropped"},
         HandleFits(k, VmGeneration, primaryBox, service, wanted, target),
         LoginInv', CreateInv'
  PROVE  NestedInv'
  <1>1. NestedServicesTypeOK /\ DaemonFits(machine.boot, primaryBox, service, wanted)
    BY DEF NestedInv
  <1>2. /\ machine' \in [up : BOOLEAN, boot : 1..MaxBoots, docker : BOOLEAN]
        /\ primaryBox' \in Primaries /\ service' \in [ToSet(Services) -> ServiceBoxes]
        /\ network' \in BOOLEAN
    BY <1>1, NestedTypes DEF NestedServicesTypeOK
  <1>3. Keeps(primaryBox, service, primaryBox', service')
    BY KeepsItself
  <1>4. \A g \in NestedHandles : g # h /\ Has(nestedHandle[g].steps, Cmd("disconnect", Primary)) =>
          primaryBox'.net # "services"
    BY DEF NestedInv, HandleFits, StillBuilds
  <1>5. DaemonFits(machine.boot, primaryBox', service', wanted) /\ machine'.boot = machine.boot /\ machine'.up = machine.up
        /\ HandleFits(k, VmGeneration, primaryBox', service', wanted, target)
        /\ UNCHANGED <<target, wanted>>
    BY <1>1
  <1> QED
    BY <1>2, <1>3, <1>4, <1>5, HandleMoves

\* A handle's record at rest, ready, restarted.
LEMMA PassRests ==
  ASSUME nestedHandle \in [NestedHandles -> Passes], NEW h \in NestedHandles,
         nestedHandle' = [nestedHandle EXCEPT ![h].pass = "idle", ![h].steps = <<>>]
  PROVE  \E k \in Passes :
           /\ nestedHandle' = [nestedHandle EXCEPT ![h] = k]
           /\ k.pass = "idle" /\ k.steps = <<>>
           /\ k.began = nestedHandle[h].began /\ k.told = nestedHandle[h].told /\ k.ended = nestedHandle[h].ended
           /\ k.state = nestedHandle[h].state
  <1> DEFINE st == <<>>
             k == [nestedHandle[h] EXCEPT !.pass = "idle", !.steps = st]
  <1>0. st \in Seq(Commands) /\ nestedHandle' = [nestedHandle EXCEPT ![h].pass = "idle", ![h].steps = st]
    OBVIOUS
  <1> HIDE DEF st
  <1>1. nestedHandle[h] \in Passes
    OBVIOUS
  <1>2. /\ k \in Passes /\ k.pass = "idle" /\ k.steps = st
        /\ k.began = nestedHandle[h].began /\ k.told = nestedHandle[h].told /\ k.ended = nestedHandle[h].ended
           /\ k.state = nestedHandle[h].state
    BY <1>0, <1>1 DEF Passes
  <1>3. nestedHandle' = [nestedHandle EXCEPT ![h] = k]
    BY <1>0, <1>1 DEF Passes
  <1> QED
    BY <1>2, <1>3 DEF st

\* A handle whose pass ended.
LEMMA PassIsReady ==
  ASSUME nestedHandle \in [NestedHandles -> Passes], NEW h \in NestedHandles,
         nestedHandle' = [nestedHandle EXCEPT ![h].pass = "idle", ![h].state = "Ready"]
  PROVE  \E k \in Passes :
           /\ nestedHandle' = [nestedHandle EXCEPT ![h] = k]
           /\ k.pass = "idle" /\ k.steps = nestedHandle[h].steps
           /\ k.began = nestedHandle[h].began /\ k.told = nestedHandle[h].told /\ k.ended = nestedHandle[h].ended
           /\ k.state = "Ready"
  <1> DEFINE k == [nestedHandle[h] EXCEPT !.pass = "idle", !.state = "Ready"]
  <1>1. nestedHandle[h] \in Passes
    OBVIOUS
  <1>2. /\ k \in Passes /\ k.pass = "idle" /\ k.steps = nestedHandle[h].steps
        /\ k.began = nestedHandle[h].began /\ k.told = nestedHandle[h].told /\ k.ended = nestedHandle[h].ended
           /\ k.state = "Ready"
    BY <1>1 DEF Passes
  <1>3. nestedHandle' = [nestedHandle EXCEPT ![h] = k]
    BY <1>1 DEF Passes
  <1> QED
    BY <1>2, <1>3

\* A handle whose generation ended.
LEMMA PassRestarts ==
  ASSUME nestedHandle \in [NestedHandles -> Passes], NEW h \in NestedHandles,
         nestedHandle' = [nestedHandle EXCEPT ![h].state = "Restarted", ![h].ended = FALSE]
  PROVE  \E k \in Passes :
           /\ nestedHandle' = [nestedHandle EXCEPT ![h] = k]
           /\ k.pass = nestedHandle[h].pass /\ k.steps = nestedHandle[h].steps
           /\ k.began = nestedHandle[h].began /\ k.told = nestedHandle[h].told /\ k.state = "Restarted"
  <1> DEFINE k == [nestedHandle[h] EXCEPT !.state = "Restarted", !.ended = FALSE]
  <1>1. nestedHandle[h] \in Passes
    OBVIOUS
  <1>2. /\ k \in Passes /\ k.pass = nestedHandle[h].pass /\ k.steps = nestedHandle[h].steps
        /\ k.began = nestedHandle[h].began /\ k.told = nestedHandle[h].told /\ k.state = "Restarted"
    BY <1>1 DEF Passes
  <1>3. nestedHandle' = [nestedHandle EXCEPT ![h] = k]
    BY <1>1 DEF Passes
  <1> QED
    BY <1>2, <1>3

\* An empty list of steps.
LEMMA NoSteps ==
  /\ <<>> \in Seq(Commands) /\ Sorted(<<>>) /\ PullsAreWhole(<<>>)
  /\ \A c : ~Has(<<>>, c)
  /\ \A i \in DOMAIN <<>> : <<>>[i].do \notin CreateOnly
  BY DEF Sorted, PullsAreWhole, Has

\* A handle at rest that is not ready.
LEMMA RestFits ==
  ASSUME NEW k, NEW gen, NEW prim, NEW svc, NEW list, NEW kind,
         k.began \in 0..gen, k.told \in 0..gen, k.pass = "idle", k.steps = <<>>, k.state # "Ready"
  PROVE  HandleFits(k, gen, prim, svc, list, kind)
  <1>1. PassShape(k)
    BY NoSteps DEF PassShape
  <1>2. StillBuilds(k, prim, svc, list)
    BY NoSteps DEF StillBuilds
  <1> QED
    BY <1>1, <1>2 DEF HandleFits, BegunFits

\* A pass that begins now.
LEMMA PassFits ==
  ASSUME NEW k, NEW gen \in Nat, NEW prim, NEW svc, NEW list, NEW kind, NEW lo, NEW hi,
         Shaped(k.steps, lo, hi), k.pass # "idle", k.state # "Ready", k.began = gen, k.told \in 0..gen, gen # 0,
         k.pass # "create" => \A c : Has(k.steps, c) => c.do \notin CreateOnly,
         StillBuilds(k, prim, svc, list),
         kind = "Container" => StillBrings(k.steps, k.began, prim, svc, list)
  PROVE  HandleFits(k, gen, prim, svc, list, kind)
  <1>1. PassShape(k)
    BY DEF PassShape, Shaped, Has
  <1> QED
    BY <1>1 DEF HandleFits, BegunFits

\* What the invariant says of one handle.
LEMMA NestedFacts ==
  ASSUME NestedInv, NEW h \in NestedHandles
  PROVE  /\ nestedHandle \in [NestedHandles -> Passes] /\ nestedHandle[h] \in Passes
         /\ NestedServicesTypeOK /\ DaemonFits(machine.boot, primaryBox, service, wanted) /\ LoginInv /\ CreateInv
         /\ HandleFits(nestedHandle[h], VmGeneration, primaryBox, service, wanted, target)
         /\ PassShape(nestedHandle[h])
         /\ BegunFits(nestedHandle[h], VmGeneration)
         /\ nestedHandle[h].began \in 0..VmGeneration /\ nestedHandle[h].told \in 0..VmGeneration
         /\ machine.boot \in Nat /\ VmGeneration \in Nat /\ VmGeneration # 0 /\ VmGeneration \in 0..MaxBoots
         /\ Creator \in NestedHandles
         /\ logins \subseteq ToSet(Services) \cup {Primary}
         /\ created \in {"no", "running", "ok", "failed", "dropped"}
         /\ nestedHandle[h].steps \in Seq(Commands)
  <1>1. /\ NestedServicesTypeOK /\ DaemonFits(machine.boot, primaryBox, service, wanted) /\ LoginInv /\ CreateInv
        /\ HandleFits(nestedHandle[h], VmGeneration, primaryBox, service, wanted, target)
    BY DEF NestedInv
  <1>2. nestedHandle \in [NestedHandles -> Passes] /\ machine.boot \in 1..MaxBoots /\ machine.boot \in Nat
        /\ MaxBoots \in Nat
    BY <1>1, NestedTypes
  <1>3. /\ PassShape(nestedHandle[h]) /\ BegunFits(nestedHandle[h], VmGeneration)
        /\ nestedHandle[h].began \in 0..VmGeneration /\ nestedHandle[h].told \in 0..VmGeneration
    BY <1>1 DEF HandleFits, BegunFits
  <1>4. logins \subseteq ToSet(Services) \cup {Primary} /\ created \in {"no", "running", "ok", "failed", "dropped"}
    BY <1>1 DEF NestedServicesTypeOK
  <1>5. nestedHandle[h] \in Passes /\ nestedHandle[h].steps \in Seq(Commands)
    BY <1>2 DEF Passes
  <1>6. VmGeneration \in Nat /\ VmGeneration # 0 /\ VmGeneration \in 0..MaxBoots
    BY <1>2 DEF NestedInv, VmGeneration
  <1> QED
    BY <1>1, <1>2, <1>3, <1>4, <1>5, <1>6, NestedAssumption

\* A create begins in its creator's pass.
LEMMA CreateKeeps ==
  ASSUME NestedInv, create
  PROVE  NestedInv'
  <1>1. Creator \in NestedHandles
    BY NestedAssumption
  <1>2. /\ nestedHandle \in [NestedHandles -> Passes] /\ NestedServicesTypeOK
        /\ DaemonFits(machine.boot, primaryBox, service, wanted) /\ LoginInv /\ CreateInv
        /\ VmGeneration \in Nat /\ VmGeneration # 0 /\ VmGeneration \in 0..MaxBoots
        /\ nestedHandle[Creator].told \in 0..VmGeneration
        /\ logins \subseteq ToSet(Services) \cup {Primary}
    BY <1>1, NestedFacts
  <1>3. created = "no" /\ logins = {} /\ nestedHandle[Creator].pass = "idle"
        /\ nestedHandle[Creator].state # "Ready" /\ ~primaryBox.made
    BY <1>2 DEF create, LoginInv, CreateInv
  <1>4. UNCHANGED <<target, wanted, machine, primaryBox, network, service, logins>>
    BY DEF create, innerVars
  <1>5. CASE target = "Container"
    <2> DEFINE st == NestedCreateSteps
    <2>1. created' = "running" /\ Begins(Creator, "create", st)
      BY <1>5 DEF create
    <2>2. /\ Shaped(st, 1, 6) /\ Has(st, Cmd("create", Primary)) /\ Has(st, Cmd("start", Primary))
          /\ Len(wanted) > 0 => Has(st, Cmd("connect", Primary))
          /\ \A s \in ToSet(wanted) : \A do \in {"create", "start", "health"} : Has(st, Cmd(do, s))
      BY <1>2, CreateShaped DEF NestedServicesTypeOK
    <2> HIDE DEF st
    <2>3. st \in Seq(Commands)
      BY <2>2 DEF Shaped
    <2> DEFINE k == [nestedHandle[Creator] EXCEPT !.pass = "create", !.steps = st, !.began = VmGeneration]
    <2>4. /\ k \in Passes /\ nestedHandle' = [nestedHandle EXCEPT ![Creator] = k]
          /\ k.pass = "create" /\ k.steps = st /\ k.began = VmGeneration /\ k.told = nestedHandle[Creator].told
          /\ k.state = nestedHandle[Creator].state
      <3>1. nestedHandle[Creator] \in Passes
        BY <1>1, <1>2
      <3>2. /\ k \in Passes /\ k.pass = "create" /\ k.steps = st /\ k.began = VmGeneration /\ k.told = nestedHandle[Creator].told
            /\ k.state = nestedHandle[Creator].state
        BY <1>2, <2>3, <3>1 DEF Passes
      <3>3. nestedHandle' = [nestedHandle EXCEPT ![Creator] = k]
        BY <1>1, <1>2, <2>1, <3>1 DEF Passes, Begins
      <3> QED
        BY <3>2, <3>3
    <2> HIDE DEF k
    <2>5. StillBuilds(k, primaryBox, service, wanted)
      BY <1>2, <1>3, <2>2, <2>4 DEF StillBuilds, DaemonFits
    <2>6. StillBrings(k.steps, k.began, primaryBox, service, wanted)
      <3>1. \A s \in ToSet(wanted) : Has(st, Cmd("start", s)) /\ Has(st, Cmd("health", s))
        BY <2>2
      <3> QED
        BY <2>2, <2>4, <3>1 DEF StillBrings, PrimaryComes, NetworkComes, ServiceComes
    <2>7. HandleFits(k, VmGeneration, primaryBox, service, wanted, target)
      BY <1>2, <1>3, <2>2, <2>4, <2>5, <2>6, PassFits
    <2>8. LoginInv'
      BY <1>3, <1>4, <2>1 DEF LoginInv
    <2>9. CreateInv'
      <3>1. nestedHandle'[Creator] = k /\ \A g \in NestedHandles : g # Creator => nestedHandle'[g] = nestedHandle[g]
        BY <1>1, <1>2, <2>4
      <3>2. \A g \in NestedHandles : nestedHandle[g].pass # "create"
        BY <1>2, <1>3 DEF CreateInv
      <3> QED
        BY <1>4, <1>5, <2>1, <2>4, <3>1, <3>2 DEF CreateInv
    <2> QED
      BY <1>1, <1>2, <1>4, <2>1, <2>4, <2>7, <2>8, <2>9, HandleOnly
  <1>6. CASE target # "Container"
    <2>1. created' = "ok" /\ UNCHANGED nestedHandle
      BY <1>6 DEF create
    <2>2. NestedServicesTypeOK'
      BY <1>2, <1>4, <2>1 DEF NestedServicesTypeOK
    <2>3. LoginInv' /\ CreateInv'
      BY <1>2, <1>3, <1>4, <2>1 DEF LoginInv, CreateInv
    <2> QED
      BY <1>4, <2>1, <2>2, <2>3 DEF NestedInv, VmGeneration
  <1> QED
    BY <1>5, <1>6

\* A pass of a handle that is not ready.
LEMMA EnsureReadyKeeps ==
  ASSUME NestedInv, NEW h \in NestedHandles, ensure_ready(h)
  PROVE  NestedInv'
  <1> DEFINE sweep == nestedHandle[h].state = "Restarted"
             st == ReadySteps(sweep)
  <1>1. /\ nestedHandle \in [NestedHandles -> Passes] /\ LoginInv /\ CreateInv
        /\ DaemonFits(machine.boot, primaryBox, service, wanted)
        /\ VmGeneration \in Nat /\ VmGeneration # 0 /\ VmGeneration \in 0..MaxBoots /\ Creator \in NestedHandles
        /\ nestedHandle[h].told \in 0..VmGeneration
        /\ logins \subseteq ToSet(Services) \cup {Primary}
        /\ created \in {"no", "running", "ok", "failed", "dropped"}
    BY NestedFacts
  <1>2. /\ h # Creator \/ created \in {"ok", "failed", "dropped"}
        /\ nestedHandle[h].pass = "idle" /\ nestedHandle[h].state # "Ready"
        /\ Begins(h, "ready", st)
        /\ UNCHANGED <<target, wanted, machine, primaryBox, network, service, logins, created>>
    BY DEF ensure_ready, innerVars
  <1>3. /\ Shaped(st, 1, 1) /\ \A c : Has(st, c) => c.do \notin CreateOnly
        /\ target = "Container" => Has(st, Cmd("inspect", Primary))
    BY ReadyShaped
  <1> HIDE DEF st
  <1>4. st \in Seq(Commands)
    BY <1>3 DEF Shaped
  <1> DEFINE k == [nestedHandle[h] EXCEPT !.pass = "ready", !.steps = st, !.began = VmGeneration]
  <1>5. /\ k \in Passes /\ nestedHandle' = [nestedHandle EXCEPT ![h] = k]
        /\ k.pass = "ready" /\ k.steps = st /\ k.began = VmGeneration /\ k.told = nestedHandle[h].told
        /\ k.state = nestedHandle[h].state
    <2>1. nestedHandle[h] \in Passes
      BY <1>1
    <2>2. /\ k \in Passes /\ k.pass = "ready" /\ k.steps = st /\ k.began = VmGeneration /\ k.told = nestedHandle[h].told
          /\ k.state = nestedHandle[h].state
      BY <1>1, <1>4, <2>1 DEF Passes
    <2>3. nestedHandle' = [nestedHandle EXCEPT ![h] = k]
      BY <1>1, <1>2, <2>1 DEF Passes, Begins
    <2> QED
      BY <2>2, <2>3
  <1> HIDE DEF k
  <1>6. StillBuilds(k, primaryBox, service, wanted)
    <2>1. ~Has(st, Cmd("disconnect", Primary))
      BY <1>3, CmdIs DEF CreateOnly
    <2> QED
      BY <1>5, <2>1 DEF StillBuilds
  <1>7. HandleFits(k, VmGeneration, primaryBox, service, wanted, target)
    BY <1>1, <1>2, <1>3, <1>5, <1>6, PassFits DEF StillBrings
  <1>8. nestedHandle'[h] = k /\ \A g \in NestedHandles : g # h => nestedHandle'[g] = nestedHandle[g]
    BY <1>1, <1>5
  <1>9. CreateInv'
    BY <1>1, <1>2, <1>5, <1>8 DEF CreateInv
  <1>10. LoginInv'
    BY <1>1, <1>2, <1>8 DEF LoginInv
  <1> QED
    BY <1>1, <1>2, <1>5, <1>7, <1>9, <1>10, HandleOnly

\* What a pass does next, when it is not the create's.
LEMMA NextIs ==
  ASSUME NestedInv, NEW h \in NestedHandles, Busy(h)
  PROVE  /\ nestedHandle[h].pass # "idle" /\ nestedHandle[h].steps # <<>>
         /\ NextCmd(h) \in Commands /\ NextCmd(h) = Head(nestedHandle[h].steps)
         /\ NextCmd(h).do \in CreateOnly => h = Creator /\ created = "running"
         /\ h = Creator /\ created = "running" => nestedHandle[h].pass = "create"
         /\ created \in {"no", "ok"} => logins = {}
         /\ h = Creator /\ created = "running" => \A x \in logins :
              NextCmd(h) = Cmd("pull", x) \/ NextCmd(h) = Cmd("logout", x)
  <1>1. nestedHandle[h].pass # "idle" /\ nestedHandle[h].steps # <<>>
    BY DEF Busy
  <1>2. PassShape(nestedHandle[h]) /\ LoginInv /\ CreateInv /\ nestedHandle[h].steps \in Seq(Commands)
    BY NestedFacts
  <1> DEFINE st == nestedHandle[h].steps
  <1>3. /\ Head(st) \in Commands
        /\ (\A i \in DOMAIN st : st[i].do \notin CreateOnly) => Head(st).do \notin CreateOnly
    BY <1>1, <1>2, TailKeeps
  <1>4. nestedHandle[h].pass # "create" => \A i \in DOMAIN st : st[i].do \notin CreateOnly
    BY <1>2 DEF PassShape
  <1>5. nestedHandle[h].pass = "create" <=> h = Creator /\ created = "running"
    BY <1>2 DEF CreateInv
  <1>6. h = Creator /\ created = "running" => \A x \in logins : Head(st) = Cmd("pull", x) \/ Head(st) = Cmd("logout", x)
    BY <1>2 DEF LoginInv
  <1>7. created \in {"no", "ok"} => logins = {}
    BY <1>2 DEF LoginInv
  <1> QED
    BY <1>1, <1>3, <1>4, <1>5, <1>6, <1>7 DEF NextCmd

\* What disconnecting and connecting rest on.
LEMMA NetworkStepIs ==
  ASSUME NestedInv, NEW h \in NestedHandles, Busy(h)
  PROVE  /\ NextCmd(h).do = "disconnect" => primaryBox.net # "services"
         /\ NextCmd(h).do = "connect" => primaryBox.made /\ \A s \in ToSet(wanted) : service[s].made
  <1> DEFINE st == nestedHandle[h].steps
             c == NextCmd(h)
  <1>1. /\ c \in Commands /\ c = Head(st) /\ st # <<>>
        /\ c.do \in CreateOnly => nestedHandle[h].pass = "create"
    BY NextIs
  <1>2. /\ st \in Seq(Commands) /\ Sorted(st) /\ StillBuilds(nestedHandle[h], primaryBox, service, wanted)
    BY NestedFacts DEF PassShape, HandleFits
  <1>3. /\ Has(st, c) /\ \A e : Has(Tail(st), e) => Rank(c) <= Rank(e)
        /\ \A e : Has(st, e) => Has(Tail(st), e) \/ e = c
    BY <1>1, <1>2, TailKeeps
  <1> HIDE DEF st, c
  <1>4. c = Cmd(c.do, c.on) /\ (c.do \in {"connect", "disconnect"} => c.on = Primary)
    BY <1>1, CommandIs
  <1>5. ASSUME c.do = "disconnect" PROVE primaryBox.net # "services"
    BY <1>2, <1>3, <1>4, <1>5 DEF StillBuilds, st
  <1>6. ASSUME c.do = "connect" PROVE primaryBox.made /\ \A s \in ToSet(wanted) : service[s].made
    <2>1. Rank(c) = 5 /\ nestedHandle[h].pass = "create"
      BY <1>1, <1>4, <1>6 DEF Rank, CreateOnly
    <2>2. \A x : ~Has(st, Cmd("create", x))
      <3>1. \A x : Rank(Cmd("create", x)) \in {1, 2}
        BY CmdIs DEF Rank
      <3>2. \A x : c # Cmd("create", x)
        BY <1>6, CmdIs
      <3> QED
        BY <1>3, <2>1, <3>1, <3>2
    <2> QED
      BY <1>2, <2>1, <2>2 DEF StillBuilds, st
  <1> QED
    BY <1>5, <1>6 DEF c

\* A step of a pass.
LEMMA StepTakenKeeps ==
  ASSUME NestedInv, NEW h \in NestedHandles, StepTaken(h)
  PROVE  NestedInv'
  <1> DEFINE st == nestedHandle[h].steps
             c == NextCmd(h)
             t == Tail(st)
  <1>1. /\ Busy(h) /\ c.do # "inspect" /\ TakesStep(c) /\ UNCHANGED <<target, wanted, created>>
        /\ nestedHandle' = [nestedHandle EXCEPT ![h].steps = t]
        /\ machine' = IF c.do = "boot" THEN [machine EXCEPT !.docker = TRUE] ELSE machine
        /\ VmGeneration = machine.boot
    BY DEF StepTaken, Advance, Reachable, VmGeneration
  <1>2. /\ nestedHandle \in [NestedHandles -> Passes] /\ nestedHandle[h] \in Passes
        /\ NestedServicesTypeOK /\ DaemonFits(machine.boot, primaryBox, service, wanted) /\ LoginInv /\ CreateInv
        /\ HandleFits(nestedHandle[h], VmGeneration, primaryBox, service, wanted, target)
        /\ PassShape(nestedHandle[h]) /\ Creator \in NestedHandles
        /\ logins \subseteq ToSet(Services) \cup {Primary}
        /\ created \in {"no", "running", "ok", "failed", "dropped"}
        /\ st \in Seq(Commands) /\ VmGeneration \in Nat
    BY NestedFacts
  <1>3. /\ nestedHandle[h].pass # "idle" /\ st # <<>> /\ c \in Commands /\ c = Head(st)
        /\ c.do \in CreateOnly => h = Creator /\ created = "running"
        /\ created \in {"no", "ok"} => logins = {}
        /\ h = Creator /\ created = "running" => \A x \in logins :
              c = Cmd("pull", x) \/ c = Cmd("logout", x)
    BY <1>1, NextIs
  <1>4. /\ t \in Seq(Commands) /\ c = st[1] /\ 1 \in DOMAIN st
        /\ 2 \in DOMAIN st => t # <<>> /\ Head(t) = st[2]
    BY <1>2, <1>3, TailKeeps
  <1>5. DaemonMoves(c)
    BY <1>1, <1>2, <1>3, NetworkStepIs, StepEffect
  <1>6. /\ c.do = "login" => logins' = logins \cup {c.on}
        /\ c.do = "logout" => logins' = logins \ {c.on}
        /\ c.do \notin {"login", "logout"} => logins' \subseteq logins
    BY <1>1, <1>3, LoginEffect
  <1> DEFINE k == [nestedHandle[h] EXCEPT !.steps = t]
  <1>7. /\ k \in Passes /\ nestedHandle' = [nestedHandle EXCEPT ![h] = k]
        /\ k.steps = t /\ k.pass = nestedHandle[h].pass /\ k.state = nestedHandle[h].state
    <2>1. t \in Seq(Commands) /\ nestedHandle' = [nestedHandle EXCEPT ![h].steps = t]
      BY <1>1, <1>4
    <2> HIDE DEF t, st, c
    <2>2. k \in Passes /\ k.steps = t /\ k.pass = nestedHandle[h].pass /\ k.state = nestedHandle[h].state
      BY <1>2, <2>1 DEF Passes
    <2>3. nestedHandle' = [nestedHandle EXCEPT ![h] = k]
      BY <1>2, <2>1 DEF Passes
    <2> QED
      BY <2>2, <2>3
  <1>8. /\ machine' \in [up : BOOLEAN, boot : 1..MaxBoots, docker : BOOLEAN]
        /\ machine'.boot = machine.boot /\ machine'.up = machine.up
    BY <1>1, <1>2 DEF NestedServicesTypeOK
  <1>9. HandleFits(k, VmGeneration, primaryBox', service', wanted, target)
    <2>1. ToSet(wanted) \subseteq ToSet(Services)
      BY <1>2, NestedTypes
    <2> QED
      BY <1>1, <1>2, <1>3, <1>5, <2>1, StepFits DEF DaemonMoves
  <1>10. ASSUME NEW g \in NestedHandles, g # h, Has(nestedHandle[g].steps, Cmd("disconnect", Primary))
         PROVE  primaryBox'.net # "services"
    <2>1. primaryBox.net # "services" /\ PassShape(nestedHandle[g])
      BY <1>10 DEF NestedInv, HandleFits, StillBuilds
    <2>2. nestedHandle[g].pass = "create"
      BY <1>10, <2>1, CmdIs DEF PassShape, Has, CreateOnly
    <2>3. g = Creator
      BY <1>2, <2>2 DEF CreateInv
    <2>4. c.do # "connect"
      BY <1>3, <1>10, <2>3 DEF CreateOnly
    <2> QED
      BY <1>5, <2>1, <2>4 DEF DaemonMoves
  <1> HIDE DEF k
  <1>11. nestedHandle'[h] = k /\ \A g \in NestedHandles : g # h => nestedHandle'[g] = nestedHandle[g]
    BY <1>2, <1>7
  <1>12. CreateInv'
    <2>1. \A g \in NestedHandles : nestedHandle'[g].pass = nestedHandle[g].pass
                                   /\ nestedHandle'[g].state = nestedHandle[g].state
      BY <1>7, <1>11
    <2>2. created = "no" => primaryBox'.made = primaryBox.made
      BY <1>3, <1>5 DEF DaemonMoves, CreateOnly
    <2> QED
      BY <1>1, <1>2, <2>1, <2>2 DEF CreateInv
  <1>13. logins' \subseteq ToSet(Services) \cup {Primary}
    BY <1>2, <1>3, <1>6, CommandIs
  <1>14. LoginInv'
    <2>1. created' \in {"no", "ok"} => logins' = {}
      BY <1>1, <1>3, <1>6 DEF CreateOnly
    <2>2. ASSUME created' = "running", NEW x \in logins'
          PROVE  /\ nestedHandle'[Creator].steps # <<>>
                 /\ Head(nestedHandle'[Creator].steps) \in {Cmd("pull", x), Cmd("logout", x)}
      <3>1. CASE h # Creator
        <4>1. x \in logins
          BY <1>3, <1>6, <2>2, <3>1 DEF CreateOnly
        <4>2. nestedHandle'[Creator] = nestedHandle[Creator]
          BY <1>2, <1>11, <3>1
        <4> QED
          BY <1>1, <1>2, <2>2, <4>1, <4>2 DEF LoginInv
      <3>2. CASE h = Creator
        <4>0. \A y \in logins : c = Cmd("pull", y) \/ c = Cmd("logout", y)
          BY <1>1, <1>3, <2>2, <3>2
        <4>1. \A do, y : c = Cmd(do, y) => c.do = do /\ c.on = y
          BY CmdIs
        <4>2. \/ c.do = "login" /\ c.on = x
              \/ c.do = "pull" /\ c.on = x
          BY <1>6, <2>2, <4>0, <4>1
        <4>3. PullsAreWhole(st)
          BY <1>2 DEF PassShape
        <4>4. 1 + 1 = 2
          OBVIOUS
        <4>5. 2 \in DOMAIN st /\ st[2] \in {Cmd("pull", x), Cmd("logout", x)}
          BY <1>4, <4>2, <4>3, <4>4 DEF PullsAreWhole
        <4> QED
          BY <1>4, <1>7, <1>11, <3>2, <4>5
      <3> QED
        BY <3>1, <3>2
    <2> QED
      BY <2>1, <2>2 DEF LoginInv
  <1>15. /\ primaryBox' \in Primaries /\ network' \in BOOLEAN
         /\ service' \in [ToSet(Services) -> ServiceBoxes]
         /\ Keeps(primaryBox, service, primaryBox', service')
         /\ DaemonFits(machine.boot, primaryBox', service', wanted)
    BY <1>5 DEF DaemonMoves
  <1>16. UNCHANGED <<target, wanted>> /\ created' \in {"no", "running", "ok", "failed", "dropped"}
    BY <1>1, <1>2
  <1>17. k \in Passes /\ nestedHandle' = [nestedHandle EXCEPT ![h] = k]
    BY <1>7
  <1> HIDE DEF st, t, c
  <1> QED
    BY <1>8, <1>9, <1>10, <1>12, <1>13, <1>14, <1>15, <1>16, <1>17, HandleMoves

\* Fewer pulls to go, and nothing else.
LEMMA PullsSkipped ==
  ASSUME NEW k, NEW k2, NEW gen, NEW prim, NEW svc, NEW list, NEW kind,
         HandleFits(k, gen, prim, svc, list, kind), k.pass # "idle",
         k2.pass = k.pass, k2.state = k.state, k2.began = k.began,
         k2.told = k.told, k2.ended = k.ended,
         Sorted(k2.steps), PullsAreWhole(k2.steps),
         (\A i \in DOMAIN k.steps : k.steps[i].do \notin CreateOnly) =>
            \A i \in DOMAIN k2.steps : k2.steps[i].do \notin CreateOnly,
         \A c : Has(k2.steps, c) => Has(k.steps, c),
         \A c : Has(k.steps, c) => Has(k2.steps, c) \/ c.do \in {"login", "pull", "logout"}
  PROVE  HandleFits(k2, gen, prim, svc, list, kind)
  <1>1. PassShape(k) /\ BegunFits(k, gen) /\ StillBuilds(k, prim, svc, list)
    BY DEF HandleFits
  <1>2. PassShape(k2)
    BY <1>1 DEF PassShape
  <1>3. \A do \in {"create", "start", "health", "connect", "inspect"} : \A x :
          Has(k.steps, Cmd(do, x)) => Has(k2.steps, Cmd(do, x))
    BY CmdIs
  <1>4. StillBuilds(k2, prim, svc, list)
    BY <1>1, <1>3 DEF StillBuilds
  <1>5. ASSUME StillBrings(k.steps, k.began, prim, svc, list) PROVE StillBrings(k2.steps, k.began, prim, svc, list)
    <2>1. CASE Has(k.steps, Cmd("inspect", Primary))
      BY <1>3, <2>1 DEF StillBrings
    <2>2. CASE /\ PrimaryComes(k.steps, k.began, prim) /\ NetworkComes(k.steps, prim, list)
               /\ \A s \in ToSet(list) : ServiceComes(k.steps, k.began, svc, s)
      <3>1. PrimaryComes(k2.steps, k.began, prim)
        BY <1>3, <2>2 DEF PrimaryComes
      <3>2. NetworkComes(k2.steps, prim, list)
        BY <1>3, <2>2 DEF NetworkComes
      <3>3. \A s \in ToSet(list) : ServiceComes(k2.steps, k.began, svc, s)
        BY <1>3, <2>2 DEF ServiceComes
      <3> QED
        BY <3>1, <3>2, <3>3 DEF StillBrings
    <2> QED
      BY <1>5, <2>1, <2>2 DEF StillBrings
  <1> QED
    BY <1>1, <1>2, <1>4, <1>5 DEF HandleFits, BegunFits

\* The steps after a pull.
LEMMA PullIsSkipped ==
  ASSUME NEW st \in Seq(Commands), st # <<>>, Head(st).do = "login", Sorted(st), PullsAreWhole(st)
  PROVE  LET t == SubSeq(st, 4, Len(st))
         IN  /\ t \in Seq(Commands) /\ Sorted(t) /\ PullsAreWhole(t)
             /\ (\A i \in DOMAIN st : st[i].do \notin CreateOnly) =>
                  \A i \in DOMAIN t : t[i].do \notin CreateOnly
             /\ \A c : Has(t, c) => Has(st, c)
             /\ \A c : Has(st, c) => Has(t, c) \/ c.do \in {"login", "pull", "logout"}
  <1> DEFINE t == SubSeq(st, 4, Len(st))
  <1>1. Len(st) \in Nat /\ DOMAIN st = 1..Len(st) /\ 1 \in DOMAIN st /\ st[1].do = "login"
    BY TailKeeps
  <1>2. 2 \in DOMAIN st /\ st[2].do = "pull"
    <2>1. 1 + 1 = 2
      OBVIOUS
    <2> QED
      BY <1>1, <2>1, CmdIs DEF PullsAreWhole
  <1>3. 3 \in DOMAIN st /\ st[3].do = "logout"
    <2>1. 2 + 1 = 3
      OBVIOUS
    <2> QED
      BY <1>2, <2>1, CmdIs DEF PullsAreWhole
  <1>4. 3 \in 0..Len(st) /\ Len(st) >= 3
    BY <1>1, <1>3
  <1>5. t \in Seq(Commands) /\ Len(t) = Len(st) - 3 /\ \A i \in 1..Len(t) : t[i] = st[i + 3]
    <2> DEFINE n == Len(st)
    <2>1. n \in Int /\ 4 \in Int /\ \A i \in 4..n : st[i] \in Commands
      BY <1>1
    <2>2. t = SubSeq(st, 4, n)
      OBVIOUS
    <2>3. n \in Nat /\ n >= 3
      BY <1>1, <1>4
    <2> HIDE DEF t, n
    <2>4. /\ t \in Seq(Commands) /\ Len(t) = IF 4 <= n THEN n - 4 + 1 ELSE 0
          /\ \A i \in 1..(n - 4 + 1) : t[i] = st[4 + i - 1]
      BY <2>1, <2>2, SubSeqProperties
    <2>5. Len(t) = n - 3 /\ n - 4 + 1 = n - 3
      BY <2>3, <2>4
    <2>6. ASSUME NEW i \in 1..Len(t) PROVE t[i] = st[i + 3]
      <3>1. i \in Int /\ i \in 1..(n - 4 + 1) /\ 4 + i - 1 = i + 3
        BY <2>3, <2>5
      <3> QED
        BY <2>4, <3>1
    <2> QED
      BY <2>4, <2>5, <2>6 DEF n
  <1> HIDE DEF t
  <1>6. IsRest(t, st, 3)
    BY <1>4, <1>5 DEF IsRest
  <1>7. /\ Sorted(t) /\ PullsAreWhole(t)
        /\ (\A i \in DOMAIN st : st[i].do \notin CreateOnly) => \A i \in DOMAIN t : t[i].do \notin CreateOnly
        /\ \A c : Has(t, c) => Has(st, c)
        /\ \A c : Has(st, c) => Has(t, c) \/ \E i \in 1..3 : st[i] = c
    BY <1>5, <1>6, SuffixKeeps
  <1>8. \A i \in 1..3 : st[i].do \in {"login", "pull", "logout"}
    BY <1>1, <1>2, <1>3
  <1> QED
    BY <1>5, <1>7, <1>8 DEF t

\* An image that is there is not pulled.
LEMMA ImagePresentKeeps ==
  ASSUME NestedInv, NEW h \in NestedHandles, image_present(h)
  PROVE  NestedInv'
  <1> DEFINE st == nestedHandle[h].steps
             t == SubSeq(st, 4, Len(st))
             k == [nestedHandle[h] EXCEPT !.steps = t]
  <1>1. /\ Busy(h) /\ NextCmd(h).do = "login" /\ nestedHandle' = [nestedHandle EXCEPT ![h].steps = t]
        /\ UNCHANGED <<target, wanted, machine, primaryBox, network, service, logins, created>>
    BY DEF image_present, innerVars
  <1>2. /\ nestedHandle \in [NestedHandles -> Passes] /\ nestedHandle[h] \in Passes /\ LoginInv /\ CreateInv
        /\ HandleFits(nestedHandle[h], VmGeneration, primaryBox, service, wanted, target)
        /\ PassShape(nestedHandle[h]) /\ Creator \in NestedHandles
        /\ logins \subseteq ToSet(Services) \cup {Primary}
        /\ created \in {"no", "running", "ok", "failed", "dropped"}
        /\ st \in Seq(Commands)
    BY NestedFacts
  <1>3. /\ nestedHandle[h].pass # "idle" /\ st # <<>> /\ Head(st).do = "login"
        /\ h = Creator /\ created = "running"
        /\ \A x \in logins : NextCmd(h) = Cmd("pull", x) \/ NextCmd(h) = Cmd("logout", x)
    BY <1>1, NextIs DEF CreateOnly
  <1>4. logins = {}
    BY <1>1, <1>3, CmdIs
  <1>5. /\ t \in Seq(Commands) /\ Sorted(t) /\ PullsAreWhole(t)
        /\ (\A i \in DOMAIN st : st[i].do \notin CreateOnly) =>
             \A i \in DOMAIN t : t[i].do \notin CreateOnly
        /\ \A c : Has(t, c) => Has(st, c)
        /\ \A c : Has(st, c) => Has(t, c) \/ c.do \in {"login", "pull", "logout"}
    BY <1>2, <1>3, PullIsSkipped DEF PassShape
  <1> HIDE DEF t
  <1>6. /\ k \in Passes /\ k.steps = t /\ k.pass = nestedHandle[h].pass /\ k.state = nestedHandle[h].state
        /\ k.began = nestedHandle[h].began /\ k.told = nestedHandle[h].told /\ k.ended = nestedHandle[h].ended
    BY <1>2, <1>5 DEF Passes
  <1>7. nestedHandle' = [nestedHandle EXCEPT ![h] = k]
    BY <1>1, <1>2 DEF Passes
  <1> HIDE DEF k
  <1>8. HandleFits(k, VmGeneration, primaryBox, service, wanted, target)
    BY <1>2, <1>3, <1>5, <1>6, PullsSkipped
  <1>9. nestedHandle'[h] = k /\ \A g \in NestedHandles : g # h => nestedHandle'[g] = nestedHandle[g]
    BY <1>2, <1>7
  <1>10. CreateInv'
    BY <1>1, <1>2, <1>3, <1>6, <1>9 DEF CreateInv
  <1>11. LoginInv'
    BY <1>1, <1>4 DEF LoginInv
  <1> QED
    BY <1>1, <1>2, <1>6, <1>7, <1>8, <1>10, <1>11, HandleOnly

\* A pass that found the container target brings up what is there, which is all of it.
LEMMA RecoverKeeps ==
  ASSUME NestedInv, NEW h \in NestedHandles, recover_container_target(h)
  PROVE  NestedInv'
  <1>1. PICK found \in Found : nestedHandle' = [nestedHandle EXCEPT ![h].steps = RecoverSteps(found)]
    BY DEF recover_container_target
  <1> DEFINE st == RecoverSteps(found)
             k == [nestedHandle[h] EXCEPT !.steps = st]
  <1>2. /\ Busy(h) /\ NextCmd(h).do = "inspect" /\ primaryBox.made
        /\ Len(wanted) = 0 \/ primaryBox.net = "services"
        /\ UNCHANGED <<target, wanted, machine, primaryBox, network, service, logins, created>>
    BY DEF recover_container_target, innerVars
  <1>3. /\ nestedHandle \in [NestedHandles -> Passes] /\ nestedHandle[h] \in Passes /\ LoginInv /\ CreateInv
        /\ NestedServicesTypeOK /\ DaemonFits(machine.boot, primaryBox, service, wanted)
        /\ PassShape(nestedHandle[h]) /\ Creator \in NestedHandles 
        /\ BegunFits(nestedHandle[h], VmGeneration)
        /\ logins \subseteq ToSet(Services) \cup {Primary}
        /\ created \in {"no", "running", "ok", "failed", "dropped"}
    BY NestedFacts
  <1>4. /\ nestedHandle[h].pass # "idle" /\ nestedHandle[h].state # "Ready"
        /\ h = Creator /\ created = "running" => \A x \in logins :
             NextCmd(h) = Cmd("pull", x) \/ NextCmd(h) = Cmd("logout", x)
    BY <1>2, <1>3, NextIs DEF PassShape
  <1>5. wanted \in {<<>>, Services}
    BY <1>3 DEF NestedServicesTypeOK
  <1>6. \A s \in ToSet(wanted) : service[s].made /\ Len(wanted) > 0
    BY <1>2, <1>3, <1>5, WantedIs DEF DaemonFits
  <1>7. /\ Shaped(st, 2, 6) /\ \A c : Has(st, c) => c.do \notin CreateOnly
        /\ Has(st, Cmd("start", Primary))
        /\ \A s \in ToSet(wanted) : Has(st, Cmd("start", s)) /\ Has(st, Cmd("health", s))
    BY <1>5, <1>6, RecoverShaped
  <1>s. st \in Seq(Commands) /\ nestedHandle' = [nestedHandle EXCEPT ![h].steps = st]
    BY <1>1, <1>7 DEF Shaped
  <1> HIDE DEF st
  <1>8. /\ k \in Passes /\ k.steps = st /\ k.pass = nestedHandle[h].pass /\ k.state = nestedHandle[h].state
        /\ k.began = nestedHandle[h].began /\ k.told = nestedHandle[h].told /\ k.ended = nestedHandle[h].ended
    BY <1>3, <1>s DEF Passes
  <1>9. nestedHandle' = [nestedHandle EXCEPT ![h] = k]
    BY <1>3, <1>s DEF Passes
  <1> HIDE DEF k
  <1>10. HandleFits(k, VmGeneration, primaryBox, service, wanted, target)
    <2>1. PassShape(k)
      BY <1>4, <1>7, <1>8 DEF PassShape, Shaped, Has
    <2>2. StillBuilds(k, primaryBox, service, wanted)
      <3>1. ~Has(st, Cmd("disconnect", Primary))
        BY <1>7, CmdIs DEF CreateOnly
      <3> QED
        BY <1>2, <1>6, <1>8, <3>1 DEF StillBuilds
    <2>3. StillBrings(k.steps, k.began, primaryBox, service, wanted)
      <3>1. NetworkComes(st, primaryBox, wanted)
        BY <1>2, <1>5 DEF NetworkComes
      <3> QED
        BY <1>7, <1>8, <3>1 DEF StillBrings, PrimaryComes, ServiceComes
    <2> QED
      BY <1>3, <1>8, <2>1, <2>2, <2>3 DEF HandleFits, BegunFits
  <1>11. nestedHandle'[h] = k /\ \A g \in NestedHandles : g # h => nestedHandle'[g] = nestedHandle[g]
    BY <1>3, <1>9
  <1>12. CreateInv'
    BY <1>2, <1>3, <1>4, <1>8, <1>11 DEF CreateInv
  <1>13. LoginInv'
    <2>1. CASE h = Creator /\ created = "running"
      <3>1. logins = {}
        BY <1>2, <1>4, <2>1, CmdIs
      <3> QED
        BY <1>2, <3>1 DEF LoginInv
    <2>2. CASE ~(h = Creator /\ created = "running")
      BY <1>2, <1>3, <1>11, <2>2 DEF LoginInv
    <2> QED
      BY <2>1, <2>2
  <1> QED
    BY <1>2, <1>3, <1>8, <1>9, <1>10, <1>12, <1>13, HandleOnly

\* A pass that fails or is dropped leaves its handle at rest.
LEMMA PassStops ==
  ASSUME NestedInv, NEW h \in NestedHandles, nestedHandle[h].pass # "idle",
         nestedHandle' = [nestedHandle EXCEPT ![h].pass = "idle", ![h].steps = <<>>],
         UNCHANGED <<target, wanted, machine, primaryBox, network, service>>, logins' \subseteq logins,
         NEW how \in {"failed", "dropped"},
         created' = IF nestedHandle[h].pass = "create" THEN how ELSE created
  PROVE  NestedInv'
  <1>1. /\ nestedHandle \in [NestedHandles -> Passes] /\ nestedHandle[h] \in Passes /\ LoginInv /\ CreateInv
        /\ PassShape(nestedHandle[h]) /\ Creator \in NestedHandles
        /\ nestedHandle[h].began \in 0..VmGeneration /\ nestedHandle[h].told \in 0..VmGeneration
        /\ logins \subseteq ToSet(Services) \cup {Primary}
        /\ created \in {"no", "running", "ok", "failed", "dropped"}
    BY NestedFacts
  <1>2. PICK k \in Passes :
          /\ nestedHandle' = [nestedHandle EXCEPT ![h] = k]
          /\ k.pass = "idle" /\ k.steps = <<>>
          /\ k.began = nestedHandle[h].began /\ k.told = nestedHandle[h].told /\ k.state = nestedHandle[h].state
    BY <1>1, PassRests
  <1>3. HandleFits(k, VmGeneration, primaryBox, service, wanted, target)
    BY <1>1, <1>2, RestFits DEF PassShape
  <1>4. nestedHandle'[h] = k /\ \A g \in NestedHandles : g # h => nestedHandle'[g] = nestedHandle[g]
    BY <1>1, <1>2
  <1>5. nestedHandle[h].pass = "create" <=> h = Creator /\ created = "running"
    BY <1>1 DEF CreateInv
  <1>6. CreateInv'
    BY <1>1, <1>2, <1>4, <1>5 DEF CreateInv
  <1>7. LoginInv'
    BY <1>1, <1>4, <1>5 DEF LoginInv
  <1>8. logins' \subseteq ToSet(Services) \cup {Primary} /\ created' \in {"no", "running", "ok", "failed", "dropped"}
    BY <1>1
  <1> QED
    BY <1>2, <1>3, <1>6, <1>7, <1>8, HandleOnly

\* A failed step ends its pass and takes a login back at most.
LEMMA PassFailsKeeps ==
  ASSUME NestedInv, NEW h \in NestedHandles, PassFails(h)
  PROVE  NestedInv'
  <1>1. logins' \subseteq logins /\ nestedHandle[h].pass # "idle"
    BY DEF PassFails, Busy
  <1> QED
    BY <1>1, PassStops DEF PassFails

\* A dropped call ends its pass.
LEMMA PassDroppedKeeps ==
  ASSUME NestedInv, NEW h \in NestedHandles, PassDropped(h)
  PROVE  NestedInv'
  <1>1. logins' \subseteq logins /\ nestedHandle[h].pass # "idle"
    BY DEF PassDropped, innerVars
  <1>2. UNCHANGED <<target, wanted, machine, primaryBox, network, service>>
    BY DEF PassDropped, innerVars
  <1> QED
    BY <1>1, <1>2, PassStops DEF PassDropped

\* A pass that has no step left brought everything up.
LEMMA PassEndsKeeps ==
  ASSUME NestedInv, NEW h \in NestedHandles, PassEnds(h)
  PROVE  NestedInv'
  <1>1. /\ nestedHandle \in [NestedHandles -> Passes] /\ nestedHandle[h] \in Passes /\ LoginInv /\ CreateInv
        /\ HandleFits(nestedHandle[h], VmGeneration, primaryBox, service, wanted, target)
        /\ PassShape(nestedHandle[h]) /\ Creator \in NestedHandles
        /\ logins \subseteq ToSet(Services) \cup {Primary}
        /\ created \in {"no", "running", "ok", "failed", "dropped"}
    BY NestedFacts
  <1>2. /\ nestedHandle[h].pass # "idle" /\ nestedHandle[h].steps = <<>>
        /\ nestedHandle' = [nestedHandle EXCEPT ![h].pass = "idle", ![h].state = "Ready"]
        /\ created' = IF nestedHandle[h].pass = "create" THEN "ok" ELSE created
        /\ UNCHANGED <<target, wanted, machine, primaryBox, network, service, logins>>
    BY DEF PassEnds, innerVars
  <1>3. PICK k \in Passes :
          /\ nestedHandle' = [nestedHandle EXCEPT ![h] = k]
          /\ k.pass = "idle" /\ k.steps = nestedHandle[h].steps
          /\ k.began = nestedHandle[h].began /\ k.told = nestedHandle[h].told /\ k.ended = nestedHandle[h].ended
          /\ k.state = "Ready"
    BY <1>1, <1>2, PassIsReady
  <1>4. HandleFits(k, VmGeneration, primaryBox, service, wanted, target)
    <2>1. PassShape(k)
      BY <1>2, <1>3, NoSteps DEF PassShape
    <2>2. StillBuilds(k, primaryBox, service, wanted)
      BY <1>2, <1>3, NoSteps DEF StillBuilds
    <2> QED
      BY <1>1, <1>2, <1>3, <2>1, <2>2 DEF HandleFits, BegunFits
  <1>5. nestedHandle'[h] = k /\ \A g \in NestedHandles : g # h => nestedHandle'[g] = nestedHandle[g]
    BY <1>1, <1>3
  <1>6. nestedHandle[h].pass = "create" <=> h = Creator /\ created = "running"
    BY <1>1 DEF CreateInv
  <1>7. CreateInv'
    BY <1>1, <1>2, <1>3, <1>5, <1>6 DEF CreateInv
  <1>8. LoginInv'
    BY <1>1, <1>2, <1>5, <1>6 DEF LoginInv
  <1> QED
    BY <1>1, <1>2, <1>3, <1>4, <1>7, <1>8, HandleOnly

\* The generation ended.
LEMMA StoppedKeeps ==
  ASSUME NestedInv, NEW h \in NestedHandles, stopped(h)
  PROVE  NestedInv'
  <1>1. /\ nestedHandle \in [NestedHandles -> Passes] /\ nestedHandle[h] \in Passes /\ LoginInv /\ CreateInv
        /\ PassShape(nestedHandle[h]) /\ Creator \in NestedHandles
        /\ nestedHandle[h].began \in 0..VmGeneration /\ nestedHandle[h].told \in 0..VmGeneration
        /\ logins \subseteq ToSet(Services) \cup {Primary}
        /\ created \in {"no", "running", "ok", "failed", "dropped"}
    BY NestedFacts
  <1>2. /\ nestedHandle[h].pass = "idle"
        /\ nestedHandle' = [nestedHandle EXCEPT ![h].state = "Restarted", ![h].ended = FALSE]
        /\ UNCHANGED <<target, wanted, machine, primaryBox, network, service, logins, created>>
    BY DEF stopped, innerVars
  <1>3. PICK k \in Passes :
          /\ nestedHandle' = [nestedHandle EXCEPT ![h] = k]
          /\ k.pass = nestedHandle[h].pass /\ k.steps = nestedHandle[h].steps
          /\ k.began = nestedHandle[h].began /\ k.told = nestedHandle[h].told /\ k.state = "Restarted"
    BY <1>1, <1>2, PassRestarts
  <1>4. HandleFits(k, VmGeneration, primaryBox, service, wanted, target)
    BY <1>1, <1>2, <1>3, RestFits DEF PassShape
  <1>5. nestedHandle'[h] = k /\ \A g \in NestedHandles : g # h => nestedHandle'[g] = nestedHandle[g]
    BY <1>1, <1>3
  <1>6. CreateInv'
    BY <1>1, <1>2, <1>3, <1>5 DEF CreateInv
  <1>7. LoginInv'
    BY <1>1, <1>2, <1>3, <1>5 DEF LoginInv
  <1> QED
    BY <1>1, <1>2, <1>3, <1>4, <1>6, <1>7, HandleOnly

\* A pull's owned task takes a login back.
LEMMA OwnedCleanupKeeps ==
  ASSUME NestedInv, OwnedCleanup
  PROVE  NestedInv'
  <1>1. /\ UNCHANGED <<target, wanted, machine, primaryBox, network, service, nestedHandle, created>>
        /\ logins' \subseteq logins
    BY DEF OwnedCleanup
  <1>2. NestedServicesTypeOK' /\ LoginInv' /\ CreateInv'
    BY <1>1 DEF NestedInv, NestedServicesTypeOK, LoginInv, CreateInv
  <1> QED
    BY <1>1, <1>2 DEF NestedInv, VmGeneration

\* The daemon reports on a service.
LEMMA HealthReportedKeeps ==
  ASSUME NestedInv, NEW s \in ToSet(wanted), HealthReported(s)
  PROVE  NestedInv'
  <1>1. /\ NestedServicesTypeOK /\ DaemonFits(machine.boot, primaryBox, service, wanted) /\ LoginInv /\ CreateInv
        /\ primaryBox \in Primaries /\ service \in [ToSet(Services) -> ServiceBoxes]
        /\ ToSet(wanted) \subseteq ToSet(Services) /\ s \in ToSet(Services)
    BY NestedTypes DEF NestedInv
  <1>2. /\ UNCHANGED <<target, wanted, machine, primaryBox, network, logins, nestedHandle, created>>
        /\ service[s].health = "starting"
    BY DEF HealthReported
  <1>3. PICK health \in {"starting", "healthy", "unhealthy"} : service' = [service EXCEPT ![s].health = health]
    <2>1. CASE service' = [service EXCEPT ![s].health = "unhealthy"]
      BY <2>1
    <2>2. CASE service' = [service EXCEPT ![s].health = IF s \in Checked THEN "healthy" ELSE @]
      <3>1. CASE s \in Checked
        BY <2>2, <3>1
      <3>2. CASE s \notin Checked
        <4>1. service' = [service EXCEPT ![s].health = service[s].health]
          BY <2>2, <3>2
        <4> QED
          BY <1>2, <4>1
      <3> QED
        BY <3>1, <3>2
    <2> QED
      BY <2>1, <2>2 DEF HealthReported
  <1>4. /\ service' \in [ToSet(Services) -> ServiceBoxes]
        /\ \A x \in ToSet(Services) : service'[x].made = service[x].made /\ service'[x].ran = service[x].ran
        /\ \A x \in ToSet(Services) : x # s => service'[x] = service[x]
    BY <1>1, <1>3 DEF ServiceBoxes
  <1>5. Keeps(primaryBox, service, primaryBox', service')
    BY <1>2, <1>4 DEF Keeps, ServiceKept, Past
  <1>6. DaemonFits(machine'.boot, primaryBox', service', wanted')
    BY <1>1, <1>2, <1>4 DEF DaemonFits
  <1>7. NestedServicesTypeOK'
    BY <1>1, <1>2, <1>4 DEF NestedServicesTypeOK, ServiceBoxes
  <1>8. LoginInv' /\ CreateInv' /\ (~machine.up => machine.boot < MaxBoots)'
    BY <1>1, <1>2 DEF LoginInv, CreateInv, NestedInv
  <1>9. ASSUME NEW g \in NestedHandles
        PROVE  HandleFits(nestedHandle[g], VmGeneration, primaryBox, service, wanted, target)'
    <2>1. HandleFits(nestedHandle[g], VmGeneration, primaryBox, service, wanted, target)
          /\ VmGeneration \in Nat /\ VmGeneration' = VmGeneration
      BY <1>2, NestedFacts DEF VmGeneration
    <2>2. Has(nestedHandle[g].steps, Cmd("disconnect", Primary)) => primaryBox'.net # "services"
      BY <1>2, <2>1 DEF HandleFits, StillBuilds
    <2>3. HandleFits(nestedHandle[g], VmGeneration, primaryBox', service', wanted, target)
      BY <1>1, <1>5, <2>1, <2>2, HandleKept
    <2> QED
      BY <1>2, <2>1, <2>3
  <1> QED
    BY <1>6, <1>7, <1>8, <1>9 DEF NestedInv

\* A generation ended: a handle either knows and has to note it, or stays as it is.
EndsFor(k, k2, gen) ==
    \/ k2 = k
    \/ k2 = [k EXCEPT !.ended = TRUE, !.told = gen]

LEMMA EndedFits ==
  ASSUME NEW k \in Passes, NEW k2, NEW gen \in 0..MaxBoots, NEW old \in 0..gen,
         NEW prim, NEW svc, NEW list, NEW kind,
         HandleFits(k, old, prim, svc, list, kind), EndsFor(k, k2, gen)
  PROVE  /\ k2 \in Passes /\ HandleFits(k2, gen, prim, svc, list, kind)
         /\ k2.pass = k.pass /\ k2.state = k.state /\ k2.steps = k.steps
  <1>1. /\ k2 \in Passes /\ k2.pass = k.pass /\ k2.state = k.state /\ k2.steps = k.steps /\ k2.began = k.began
        /\ (k2.told = k.told /\ k2.ended = k.ended) \/ (k2.told = gen /\ k2.ended)
    BY DEF Passes, EndsFor
  <1>2. PassShape(k2)
    BY <1>1 DEF HandleFits, PassShape
  <1>3. StillBuilds(k2, prim, svc, list)
    BY <1>1 DEF HandleFits, StillBuilds
  <1>4. BegunFits(k2, gen)
    <2>1. BegunFits(k, old) /\ gen \in Nat /\ old \in Nat /\ old <= gen
      BY NestedAssumption DEF HandleFits
    <2> QED
      BY <1>1, <2>1 DEF BegunFits
  <1>5. HandleFits(k2, gen, prim, svc, list, kind)
    BY <1>1, <1>2, <1>3, <1>4 DEF HandleFits
  <1> QED
    BY <1>1, <1>5

\* The same handles but for what ended, of the same or the next generation.
LEMMA MachineTurns ==
  ASSUME NestedInv, UNCHANGED <<target, wanted, primaryBox, network, service, logins, created>>,
         machine' \in [up : BOOLEAN, boot : 1..MaxBoots, docker : BOOLEAN],
         ~machine'.up => machine'.boot < MaxBoots, machine.boot <= machine'.boot,
         VmGeneration <= VmGeneration',
         nestedHandle' \in [NestedHandles -> Passes],
         \A g \in NestedHandles : EndsFor(nestedHandle[g], nestedHandle'[g], VmGeneration')
  PROVE  NestedInv'
  <1>1. /\ NestedServicesTypeOK /\ DaemonFits(machine.boot, primaryBox, service, wanted) /\ LoginInv /\ CreateInv
        /\ nestedHandle \in [NestedHandles -> Passes] /\ machine.boot \in Nat
        /\ primaryBox \in Primaries /\ service \in [ToSet(Services) -> ServiceBoxes]
    BY NestedTypes DEF NestedInv
  <1>2. machine'.boot \in Nat /\ VmGeneration' \in 0..MaxBoots /\ VmGeneration \in 0..VmGeneration'
    BY <1>1, NestedAssumption DEF VmGeneration
  <1>3. ASSUME NEW g \in NestedHandles
        PROVE  /\ nestedHandle'[g].pass = nestedHandle[g].pass /\ nestedHandle'[g].state = nestedHandle[g].state
               /\ nestedHandle'[g].steps = nestedHandle[g].steps
               /\ HandleFits(nestedHandle'[g], VmGeneration', primaryBox, service, wanted, target)
    <2>1. nestedHandle[g] \in Passes /\ HandleFits(nestedHandle[g], VmGeneration, primaryBox, service, wanted, target)
      BY <1>1 DEF NestedInv
    <2> QED
      BY <1>2, <2>1, EndedFits
  <1>4. NestedServicesTypeOK'
    BY <1>1 DEF NestedServicesTypeOK, Passes
  <1>5. LoginInv' /\ CreateInv'
    BY <1>1, <1>3, NestedAssumption DEF LoginInv, CreateInv
  <1>6. DaemonFits(machine'.boot, primaryBox', service', wanted')
    <2>1. primaryBox.ran \in Nat /\ \A s \in ToSet(Services) : service[s].ran \in Nat
      BY <1>1 DEF Primaries, ServiceBoxes
    <2> QED
      BY <1>1, <1>2, <2>1 DEF DaemonFits
  <1> QED
    BY <1>3, <1>4, <1>5, <1>6 DEF NestedInv

\* The VM stops: its handles may have ended, the daemon keeps what it made.
LEMMA VmStopsKeeps ==
  ASSUME NestedInv, VmStops
  PROVE  NestedInv'
  <1>1. nestedHandle \in [NestedHandles -> Passes] /\ NestedServicesTypeOK
        /\ machine.boot \in 1..MaxBoots /\ MaxBoots \in Nat
    BY NestedTypes DEF NestedInv
  <1>2. /\ machine.up /\ machine.boot < MaxBoots
        /\ machine' = [machine EXCEPT !.up = FALSE, !.docker = FALSE]
        /\ UNCHANGED <<target, wanted, primaryBox, network, service, logins, created>>
    BY DEF VmStops, innerVars
  <1>3. PICK ends : nestedHandle' = [h \in NestedHandles |->
             IF h \in ends THEN [nestedHandle[h] EXCEPT !.ended = TRUE, !.told = machine.boot + 1]
             ELSE nestedHandle[h]]
    BY DEF VmStops
  <1>4. /\ machine' \in [up : BOOLEAN, boot : 1..MaxBoots, docker : BOOLEAN]
        /\ machine'.boot = machine.boot /\ ~machine'.up
    BY <1>1, <1>2 DEF NestedServicesTypeOK
  <1>5. VmGeneration = machine.boot /\ VmGeneration' = machine.boot + 1 /\ machine.boot + 1 \in 0..MaxBoots
    BY <1>1, <1>2, <1>4 DEF VmGeneration
  <1>6. ASSUME NEW g \in NestedHandles
        PROVE  EndsFor(nestedHandle[g], nestedHandle'[g], VmGeneration') /\ nestedHandle'[g] \in Passes
    <2>1. nestedHandle[g] \in Passes
      BY <1>1
    <2>2. EndsFor(nestedHandle[g], nestedHandle'[g], VmGeneration')
      BY <1>3, <1>5 DEF EndsFor
    <2> QED
      BY <1>5, <2>1, <2>2 DEF EndsFor, Passes
  <1>7. nestedHandle' \in [NestedHandles -> Passes]
    BY <1>3, <1>6
  <1>8. VmGeneration <= VmGeneration' /\ machine.boot <= machine'.boot /\ machine'.boot < MaxBoots
    BY <1>1, <1>2, <1>4, <1>5
  <1> QED
    BY <1>2, <1>4, <1>6, <1>7, <1>8, MachineTurns

\* The VM starts: the generation is the one that began as it stopped.
LEMMA VmStartsKeeps ==
  ASSUME NestedInv, NEW h \in NestedHandles, VmStarts(h)
  PROVE  NestedInv'
  <1>1. /\ nestedHandle \in [NestedHandles -> Passes] /\ NestedServicesTypeOK
        /\ machine.boot \in 1..MaxBoots /\ MaxBoots \in Nat
    BY NestedTypes DEF NestedInv
  <1>2. /\ ~machine.up /\ machine.boot < MaxBoots
        /\ machine' = [machine EXCEPT !.up = TRUE, !.boot = @ + 1]
        /\ nestedHandle' = [nestedHandle EXCEPT ![h].ended = TRUE, ![h].told = machine.boot + 1]
        /\ UNCHANGED <<target, wanted, primaryBox, network, service, logins, created>>
    BY DEF VmStarts, innerVars, NestedInv
  <1>3. machine.boot + 1 \in 1..MaxBoots
    BY <1>1, <1>2
  <1>4. /\ machine' \in [up : BOOLEAN, boot : 1..MaxBoots, docker : BOOLEAN]
        /\ machine'.boot = machine.boot + 1 /\ machine'.up
    BY <1>1, <1>2, <1>3 DEF NestedServicesTypeOK
  <1>5. VmGeneration = machine.boot + 1 /\ VmGeneration' = machine.boot + 1 /\ machine.boot + 1 \in 0..MaxBoots
    BY <1>1, <1>2, <1>3, <1>4 DEF VmGeneration
  <1>6. nestedHandle' \in [NestedHandles -> Passes]
    BY <1>1, <1>2, <1>5 DEF Passes
  <1>7. ASSUME NEW g \in NestedHandles
        PROVE  EndsFor(nestedHandle[g], nestedHandle'[g], VmGeneration')
    <2>1. CASE g = h
      <3>1. nestedHandle'[g] = [nestedHandle[g] EXCEPT !.ended = TRUE, !.told = machine.boot + 1]
        BY <1>1, <1>2, <2>1 DEF Passes
      <3> QED
        BY <1>5, <3>1 DEF EndsFor
    <2>2. CASE g # h
      BY <1>1, <1>2, <2>2 DEF EndsFor
    <2> QED
      BY <2>1, <2>2
  <1>8. VmGeneration <= VmGeneration' /\ machine.boot <= machine'.boot
    BY <1>1, <1>4, <1>5
  <1> QED
    BY <1>2, <1>4, <1>6, <1>7, <1>8, MachineTurns

\* The invariant holds at first.
LEMMA NestedInitially ==
  ASSUME NestedServicesInit
  PROVE  NestedInv
  <1>1. MaxBoots \in Nat /\ 1 \in 1..MaxBoots /\ 0 \in 0..MaxBoots /\ Creator \in NestedHandles
    BY NestedAssumption
  <1>2. <<>> \in Seq(Commands)
    BY NoSteps
  <1>3. /\ primaryBox = [made |-> FALSE, net |-> "none", ran |-> 0] /\ network = FALSE /\ logins = {}
        /\ machine = [up |-> TRUE, boot |-> 1, docker |-> FALSE] /\ created = "no"
        /\ target \in {"Container", "VirtualMachine"}
    BY DEF NestedServicesInit, Never
  <1>4. wanted \in {<<>>, Services}
    BY DEF NestedServicesInit
  <1>5. /\ service \in [ToSet(Services) -> [made : BOOLEAN, ran : 0..MaxBoots,
                                        health : {"starting", "healthy", "unhealthy"}]]
        /\ \A s \in ToSet(Services) : service[s].ran = 0
    BY <1>1 DEF NestedServicesInit, Never
  <1> DEFINE none == <<>>
             k == [state |-> "Fresh", pass |-> "idle", steps |-> none, began |-> 0, ended |-> FALSE,
                   told |-> 0]
  <1>6. none \in Seq(Commands) /\ nestedHandle = [h \in NestedHandles |-> k]
    BY <1>2 DEF NestedServicesInit
  <1> HIDE DEF none
  <1>7. k \in Passes /\ k.state = "Fresh" /\ k.pass = "idle" /\ k.steps = none /\ k.began = 0 /\ k.told = 0
    BY <1>1, <1>6 DEF Passes
  <1> HIDE DEF k
  <1>8. nestedHandle \in [NestedHandles -> Passes] /\ \A h \in NestedHandles : nestedHandle[h] = k
    BY <1>6, <1>7
  <1>9. NestedServicesTypeOK
    <2>1. primaryBox \in [made : BOOLEAN, net : {"none", "off", "bridge", "services"}, ran : 0..MaxBoots]
      BY <1>1, <1>3
    <2>2. machine \in [up : BOOLEAN, boot : 1..MaxBoots, docker : BOOLEAN]
      BY <1>1, <1>3
    <2>3. network \in BOOLEAN /\ logins \subseteq ToSet(Services) \cup {Primary}
          /\ created \in {"no", "running", "ok", "failed", "dropped"}
      BY <1>3
    <2> QED
      BY <1>3, <1>4, <1>5, <1>8, <2>1, <2>2, <2>3 DEF NestedServicesTypeOK, Passes
  <1>10. ASSUME NEW h \in NestedHandles
         PROVE  HandleFits(nestedHandle[h], VmGeneration, primaryBox, service, wanted, target)
    <2>1. nestedHandle[h].began \in 0..VmGeneration /\ nestedHandle[h].told \in 0..VmGeneration
      BY <1>3, <1>7, <1>8 DEF VmGeneration
    <2> QED
      BY <1>7, <1>8, <2>1, RestFits DEF none
  <1>11. DaemonFits(machine.boot, primaryBox, service, wanted)
    BY <1>3, <1>5 DEF DaemonFits, Never
  <1>12. LoginInv /\ CreateInv
    BY <1>1, <1>3, <1>7, <1>8 DEF LoginInv, CreateInv
  <1>13. ~machine.up => machine.boot < MaxBoots
    BY <1>3
  <1> QED
    BY <1>9, <1>10, <1>11, <1>12, <1>13 DEF NestedInv

\* Every step keeps it.
LEMMA NestedStep ==
  ASSUME NestedInv, NestedServicesNext
  PROVE  NestedInv'
  <1>1. CASE create
    BY <1>1, CreateKeeps
  <1>2. CASE OwnedCleanup
    BY <1>2, OwnedCleanupKeeps
  <1>3. CASE VmStops
    BY <1>3, VmStopsKeeps
  <1>4. CASE \E s \in ToSet(wanted) : HealthReported(s)
    BY <1>4, HealthReportedKeeps
  <1>5. ASSUME NEW h \in NestedHandles,
               \/ ensure_ready(h) \/ StepTaken(h) \/ image_present(h) \/ recover_container_target(h)
               \/ PassFails(h) \/ PassEnds(h) \/ PassDropped(h) \/ VmStarts(h) \/ stopped(h)
        PROVE  NestedInv'
    <2>1. CASE ensure_ready(h)
      BY <2>1, EnsureReadyKeeps
    <2>2. CASE StepTaken(h)
      BY <2>2, StepTakenKeeps
    <2>3. CASE image_present(h)
      BY <2>3, ImagePresentKeeps
    <2>4. CASE recover_container_target(h)
      BY <2>4, RecoverKeeps
    <2>5. CASE PassFails(h)
      BY <2>5, PassFailsKeeps
    <2>6. CASE PassEnds(h)
      BY <2>6, PassEndsKeeps
    <2>7. CASE PassDropped(h)
      BY <2>7, PassDroppedKeeps
    <2>8. CASE VmStarts(h)
      BY <2>8, VmStartsKeeps
    <2>9. CASE stopped(h)
      BY <2>9, StoppedKeeps
    <2> QED
      BY <1>5, <2>1, <2>2, <2>3, <2>4, <2>5, <2>6, <2>7, <2>8, <2>9
  <1> QED
    BY <1>1, <1>2, <1>3, <1>4, <1>5 DEF NestedServicesNext

\* So does a step of nothing.
LEMMA NestedRests ==
  ASSUME NestedInv, UNCHANGED nestedServiceVars
  PROVE  NestedInv'
  <1>1. UNCHANGED <<target, wanted, machine, primaryBox, network, service, logins, nestedHandle, created>>
    BY DEF nestedServiceVars
  <1>2. NestedServicesTypeOK' /\ LoginInv' /\ CreateInv'
    BY <1>1 DEF NestedInv, NestedServicesTypeOK, LoginInv, CreateInv
  <1> QED
    BY <1>1, <1>2 DEF NestedInv, VmGeneration

\* It says what the properties say.
LEMMA NestedHolds ==
  ASSUME NestedInv
  PROVE  NestedServicesTypeOK /\ ReadyHasServices /\ CreateLeavesNoLogin
  <1>1. CreateLeavesNoLogin
    BY DEF NestedInv, LoginInv, CreateLeavesNoLogin
  <1>2. ASSUME NEW h \in NestedHandles, target = "Container", nestedHandle[h].state = "Ready"
        PROVE  /\ primaryBox.made /\ primaryBox.ran >= nestedHandle[h].began
               /\ Len(wanted) > 0 => primaryBox.net = "services"
               /\ \A s \in ToSet(wanted) : UpSince(nestedHandle[h].began, s)
               /\ ~nestedHandle[h].ended => nestedHandle[h].began >= nestedHandle[h].told
    <2> DEFINE n == nestedHandle[h].began
    <2>1. /\ HandleFits(nestedHandle[h], VmGeneration, primaryBox, service, wanted, target)
          /\ PassShape(nestedHandle[h]) /\ DaemonFits(machine.boot, primaryBox, service, wanted)
          /\ ToSet(wanted) \subseteq ToSet(Services)
          /\ BegunFits(nestedHandle[h], VmGeneration) /\ n \in 0..VmGeneration
          /\ primaryBox \in Primaries /\ service \in [ToSet(Services) -> ServiceBoxes]
      BY NestedFacts, NestedTypes
    <2>2. /\ nestedHandle[h].steps = <<>> /\ n \in Nat \ {0}
          /\ ~nestedHandle[h].ended => n >= nestedHandle[h].told
      BY <1>2, <2>1 DEF PassShape, BegunFits
    <2>3. StillBrings(<<>>, n, primaryBox, service, wanted)
      BY <1>2, <2>1, <2>2 DEF HandleFits
    <2> HIDE DEF n
    <2>4. /\ primaryBox.ran >= n /\ (Len(wanted) > 0 => primaryBox.net = "services")
          /\ \A s \in ToSet(wanted) : /\ service[s].ran >= n
                                      /\ s \in Checked => Past(n, service[s])
      BY <2>3, NoSteps DEF StillBrings, PrimaryComes, NetworkComes, ServiceComes
    <2>5. primaryBox.ran # Never /\ \A s \in ToSet(wanted) : service[s].ran # Never
      BY <2>1, <2>2, <2>4 DEF Never, Primaries, ServiceBoxes
    <2>6. primaryBox.made /\ \A s \in ToSet(wanted) : service[s].made
      BY <2>1, <2>5 DEF DaemonFits
    <2> QED
      BY <2>2, <2>4, <2>6 DEF UpSince, Past, n
  <1>3. ReadyHasServices
    BY <1>2 DEF ReadyHasServices
  <1> QED
    BY <1>1, <1>3 DEF NestedInv

-----------------------------------------------------------------------------
(***************************************************************************)
(* The parts together.                                                     *)
(***************************************************************************)
\* What each part's invariant says of a behaviour about that part.
DockerPart == part = "docker" => DockerInv
DaytonaPart == part \in {"daytona", "volumes"} => DaytonaInv
NestedPart == part = "services" => NestedInv
OwnedPart == part = "owned" => OwnedInv
ActivationPart == part = "activate" => ActivationInv

\* A step is one of the part's component, or leaves the part's component alone.
LEMMA PartSteps ==
  ASSUME [MCNext]_mcVars
  PROVE  /\ part' = part
         /\ part = "docker" => DockerNext \/ UNCHANGED dockerVars
         /\ part \in {"daytona", "volumes"} => DaytonaNext \/ VolumeNext \/ UNCHANGED daytonaVars
         /\ part = "services" => NestedServicesNext \/ UNCHANGED nestedServiceVars
         /\ part = "owned" => OwnedNext \/ UNCHANGED ownedVars
         /\ part = "activate" => ActivationNext \/ UNCHANGED activationVars
  <1>1. CASE UNCHANGED mcVars
    BY <1>1 DEF mcVars, scopeVars
  <1>2. CASE Of("host", NextOrDrop, <<dockerVars, daytonaVars, nestedServiceVars, scopeVars>>)
    BY <1>2 DEF Of
  <1>3. CASE Of("docker", DockerNext, <<vars, daytonaVars, nestedServiceVars, scopeVars>>)
    BY <1>3 DEF Of
  <1>4. CASE Of("daytona", DaytonaNext, <<vars, dockerVars, nestedServiceVars, scopeVars>>)
    BY <1>4 DEF Of
  <1>5. CASE Of("volumes", VolumeNext, <<vars, dockerVars, nestedServiceVars, scopeVars>>)
    BY <1>5 DEF Of
  <1>6. CASE Of("services", NestedServicesNext, <<vars, dockerVars, daytonaVars, scopeVars>>)
    BY <1>6 DEF Of
  <1>7. CASE Of("owned", OwnedNext, <<vars, dockerVars, daytonaVars, nestedServiceVars, activationVars>>)
    BY <1>7 DEF Of
  <1>8. CASE Of("activate", ActivationNext, <<vars, dockerVars, daytonaVars, nestedServiceVars, ownedVars>>)
    BY <1>8 DEF Of
  <1> QED
    BY <1>1, <1>2, <1>3, <1>4, <1>5, <1>6, <1>7, <1>8 DEF MCNext

\* The Docker part: its invariant holds at first and is kept.
LEMMA DockerPartKept ==
  /\ MCInit => DockerPart
  /\ DockerPart /\ [MCNext]_mcVars => DockerPart'
  <1>1. ASSUME MCInit PROVE DockerPart
    BY <1>1, DockerInitially DEF MCInit, DockerPart
  <1>2. ASSUME DockerPart, [MCNext]_mcVars PROVE DockerPart'
    BY <1>2, PartSteps, DockerStep, DockerRests DEF DockerPart
  <1> QED
    BY <1>1, <1>2

\* A Docker delete that succeeds leaves nothing at the daemon, and a stop takes the one-shots of
\* the sandbox along: every step of the whole model, by the Docker part's invariant.
THEOREM SweepsStayComplete == MCSpec => SweepsAreComplete
  <1>1. MCInit => DockerPart
    BY DockerPartKept
  <1>2. DockerPart /\ [MCNext]_mcVars => DockerPart'
    BY DockerPartKept
  <1>3. DockerPart /\ [MCNext]_mcVars =>
          [part = "docker" => DeleteLeavesNothing /\ StopSweepsOneShots]_mcVars
    <2> SUFFICES ASSUME DockerPart, MCNext, part = "docker"
                 PROVE  (DeleteLeavesNothing /\ StopSweepsOneShots) \/ UNCHANGED mcVars
      OBVIOUS
    <2>1. DockerNext \/ UNCHANGED mcVars
      BY DEF MCNext, Of
    <2> QED
      BY <2>1, DockerSweeps DEF DockerPart
  <1> QED
    BY <1>1, <1>2, <1>3, PTL DEF MCSpec, SweepsAreComplete

\* Docker services and networks exist only beside their primary, which runs with all of them; a
\* nested handle that calls itself ready, stale or not, has the whole sandbox, brought up in the
\* generation its last pass began in or a later one and in none it was told had ended; and a
\* finished create leaves no registry login: in every reachable state, for any handles, services,
\* boots and failures.
THEOREM ServicesStayWithSandbox == MCSpec => []ServicesFollowSandbox
  <1> DEFINE I == DockerPart /\ NestedPart
  <1>1. MCInit => I
    <2>1. MCInit => NestedPart
      BY NestedInitially DEF MCInit, NestedPart
    <2> QED
      BY <2>1, DockerPartKept
  <1>2. I /\ [MCNext]_mcVars => I'
    <2>1. ASSUME NestedPart, [MCNext]_mcVars PROVE NestedPart'
      BY <2>1, PartSteps, NestedStep, NestedRests DEF NestedPart
    <2> QED
      BY <2>1, DockerPartKept
  <1>3. I => ServicesFollowSandbox
    <2> SUFFICES ASSUME I PROVE ServicesFollowSandbox
      OBVIOUS
    <2>1. CASE part = "docker"
      BY <2>1, DockerHolds DEF DockerPart, ServicesFollowSandbox
    <2>2. CASE part = "services"
      BY <2>2, NestedHolds DEF NestedPart, ServicesFollowSandbox
    <2>3. CASE part \notin {"docker", "services"}
      BY <2>3 DEF ServicesFollowSandbox
    <2> QED
      BY <2>1, <2>2, <2>3
  <1> HIDE DEF I
  <1> QED
    BY <1>1, <1>2, <1>3, PTL DEF MCSpec

\* What a call answers is true, of the Daytona API, of the owned provider and of an activation:
\* in every reachable state, whatever failed, was retried or was changed by other clients.
THEOREM AnswersStayFit == MCSpec => []AnswersFit
  <1> DEFINE I == DaytonaPart /\ OwnedPart /\ ActivationPart
  <1>1. MCInit => I
    <2> SUFFICES ASSUME MCInit PROVE I
      OBVIOUS
    <2>1. DaytonaPart
      BY DaytonaInitially DEF MCInit, DaytonaPart
    <2>2. OwnedPart
      BY OwnedInitially DEF MCInit, OwnedPart
    <2>3. ActivationPart
      BY ActivationInitially DEF MCInit, ActivationPart
    <2> QED
      BY <2>1, <2>2, <2>3
  <1>2. I /\ [MCNext]_mcVars => I'
    <2> SUFFICES ASSUME I, [MCNext]_mcVars PROVE I'
      OBVIOUS
    <2>1. DaytonaPart'
      BY PartSteps, DaytonaStep, DaytonaRests DEF DaytonaPart
    <2>2. OwnedPart'
      BY PartSteps, OwnedStep, OwnedRests DEF OwnedPart
    <2>3. ActivationPart'
      BY PartSteps, ActivationStep, ActivationRests DEF ActivationPart
    <2> QED
      BY <2>1, <2>2, <2>3
  <1>3. I => AnswersFit
    <2> SUFFICES ASSUME I PROVE AnswersFit
      OBVIOUS
    <2>1. CASE part \in {"daytona", "volumes"}
      BY <2>1, DaytonaHolds DEF DaytonaPart, AnswersFit
    <2>2. CASE part = "owned"
      BY <2>2, OwnedHolds DEF OwnedPart, AnswersFit
    <2>3. CASE part = "activate"
      BY <2>3, ActivationHolds DEF ActivationPart, AnswersFit
    <2>4. CASE part \notin {"daytona", "volumes", "owned", "activate"}
      BY <2>4 DEF AnswersFit
    <2> QED
      BY <2>1, <2>2, <2>3, <2>4
  <1> HIDE DEF I
  <1> QED
    BY <1>1, <1>2, <1>3, PTL DEF MCSpec
=============================================================================
