--------------------------- MODULE HostExecProofs ---------------------------
(***************************************************************************)
(* The host's own race keeps its safety properties and implements the exec *)
(* contract, for every number and capacity of output pipes.                *)
(***************************************************************************)
EXTENDS HostExec, TLAPS

\* Where the race stands says what the group was sent.
RaceIsSent ==
    /\ pc # "done" => outcome = "none"
    /\ pc \in {"race", "kill"} => signalled = IF termFired THEN "Term" ELSE "none"
    /\ pc = "wait" => signalled = "Kill"

\* What a signal, a phase or a result says of the group.  Output that failed
\* leads nowhere but into a stop.
GroupIsOver ==
    /\ phase = "Draining" => leader # "running"
    /\ outcome \in Terminations => leader # "running"
    /\ signalled = "Kill" => killFailed \/ (leader # "running" /\ ~ descendants /\ held = {})
    /\ pc = "race" => pumpOutcome \in {"none", "ok"}
    /\ \/ outcome = "Killed"
       \/ outcome = "TimedOut" /\ ~ spec.grace
       \/ outcome \in Terminations /\ Failed # {}
       => signalled = "Kill"

\* The TERM and the termination of a stop under way have their reasons; a
\* ladder started by the timeout renames what it caused.
StopHasReason ==
    /\ termFired => "term" \in caller \/ cause = "TimedOut"
    /\ pc \in {"kill", "wait"} => stopAs \in {"Killed", "TimedOut", "Cancelled"}
    /\ stopAs = "Killed" => \/ "kill" \in caller
                            \/ cause = "TimedOut"
                            \/ spec.grace /\ "term" \in caller
    /\ stopAs = "TimedOut" => "timeout" \in elapsed
    /\ stopAs = "Cancelled" => Failed # {}

\* A pump past its end of file left nothing behind and gets nothing more.
DrainedIsEmpty ==
    /\ \A s \in Streams : pump[s] \in {"flush", "ok"} => unread[s] = 0 /\ s \notin held
    /\ pumpOutcome = "ok" => \A s \in Streams : pump[s] = "ok"

IInv ==
    /\ TypeOK
    /\ LadderKnowsWhy
    /\ RaceIsSent
    /\ GroupIsOver
    /\ StopHasReason
    /\ DrainedIsEmpty
    /\ CleanResultIsComplete

\* The initial state satisfies the inductive invariant.
LEMMA InitIInv == Init => IInv
<1> SUFFICES ASSUME Init PROVE IInv
    OBVIOUS
<1>1. TypeOK
  <2>1. LadderTypeOK /\ descendants \in BOOLEAN
    BY DEF Init, LadderInit, LadderTypeOK
  <2>2. \A s \in Streams : unread[s] <= Capacity[s]
    BY CapacityAssumption DEF Init
  <2> QED
    BY <2>1, <2>2 DEF Init, TypeOK, Terminations
<1>2. LadderKnowsWhy /\ RaceIsSent /\ GroupIsOver /\ StopHasReason
    BY DEF Init, LadderInit, LadderKnowsWhy, RaceIsSent, GroupIsOver, StopHasReason, Terminations
<1>3. DrainedIsEmpty /\ CleanResultIsComplete
    BY DEF Init, DrainedIsEmpty, CleanResultIsComplete, Terminations
<1> QED
    BY <1>1, <1>2, <1>3 DEF IInv

\* The caller, the clock and the ladder beside the race.
LEMMA LadderIInv ==
    ASSUME IInv, \/ \E t \in Tokens : Beside(FireToken(t))
                 \/ Beside(TimeoutElapses)
                 \/ Beside(GraceElapses)
                 \/ Beside(LadderStep)
    PROVE  IInv'
<1> USE DEF IInv, Beside, FireToken, TimeoutElapses, GraceElapses, LadderStep,
            LadderTerm, LadderKillAtOnce, LadderEscalate, groupVars, pumpVars, raceVars
<1>1. LadderTypeOK'
  <2>1. spec' \in [timeout : BOOLEAN, grace : BOOLEAN]
    BY DEF TypeOK, LadderTypeOK
  <2> QED
    BY <2>1 DEF TypeOK, LadderTypeOK, Tokens
<1>2. TypeOK'
    BY <1>1 DEF TypeOK
<1>3. LadderKnowsWhy'
    BY DEF TypeOK, LadderTypeOK, LadderKnowsWhy, Tokens
<1>4. RaceIsSent' /\ DrainedIsEmpty' /\ CleanResultIsComplete'
    BY DEF RaceIsSent, DrainedIsEmpty, CleanResultIsComplete
<1>5. StopHasReason' /\ GroupIsOver'
  <2>1. Failed' = Failed
    BY DEF Failed
  <2> QED
    BY <2>1 DEF StopHasReason, LadderKnowsWhy, GroupIsOver
<1> QED
    BY <1>2, <1>3, <1>4, <1>5

\* The process group, writing, ending or being killed.
LEMMA GroupIInv ==
    ASSUME IInv, Group(GroupStep)
    PROVE  IInv'
<1> USE DEF IInv, Group, ladderVars, pumpVars, raceVars
<1>1. LadderTypeOK' /\ LadderKnowsWhy'
    BY DEF TypeOK, LadderTypeOK, LadderKnowsWhy
<1>2. TypeOK' /\ DrainedIsEmpty' /\ CleanResultIsComplete'
  <2>0. CleanResultIsComplete'
    BY DEF CleanResultIsComplete, RaceIsSent, Terminations
  <2>1. ASSUME NEW s \in Streams, Write(s)
        PROVE  TypeOK' /\ DrainedIsEmpty'
    <3>1. unread' \in [Streams -> Nat]
      BY <2>1 DEF Write, TypeOK
    <3>2. ASSUME NEW r \in Streams
          PROVE  unread'[r] <= Capacity[r]
      <4>1. unread[r] \in Nat /\ Capacity[r] \in Nat /\ unread[r] <= Capacity[r]
        BY CapacityAssumption DEF TypeOK
      <4>2. CASE r = s
        BY <2>1, <4>1, <4>2 DEF Write, TypeOK
      <4>3. CASE r # s
        BY <2>1, <4>1, <4>3 DEF Write, TypeOK
      <4> QED
        BY <4>2, <4>3
    <3>3. \A r \in Streams : r \notin held => unread'[r] = unread[r]
      BY <2>1 DEF Write, TypeOK
    <3>4. TypeOK'
      BY <1>1, <2>1, <3>1, <3>2 DEF Write, TypeOK
    <3>5. DrainedIsEmpty'
      BY <2>1, <3>3 DEF Write, DrainedIsEmpty
    <3> QED
      BY <3>4, <3>5
  <2>2. ASSUME NEW s \in Streams, CloseStream(s)
        PROVE  TypeOK' /\ DrainedIsEmpty'
    BY <1>1, <2>2 DEF CloseStream, TypeOK, DrainedIsEmpty
  <2>3. CASE LeaderExits \/ DescendantsEnd \/ GroupKilled
    <3>1. leader' \in {"running", "exited", "killed"} /\ descendants' \in BOOLEAN
      BY <2>3 DEF LeaderExits, DescendantsEnd, GroupKilled, TypeOK
    <3>2. held' \subseteq held /\ UNCHANGED unread
      BY <2>3 DEF LeaderExits, DescendantsEnd, GroupKilled, Survivors
    <3>3. TypeOK'
      BY <1>1, <3>1, <3>2 DEF TypeOK
    <3>4. DrainedIsEmpty'
      BY <3>2 DEF DrainedIsEmpty
    <3> QED
      BY <2>0, <3>3, <3>4
  <2> QED
    BY <2>0, <2>1, <2>2, <2>3 DEF GroupStep
<1>3. RaceIsSent' /\ GroupIsOver'
  <2>1. /\ leader # "running" => leader' # "running"
        /\ ~ descendants => ~ descendants'
        /\ held = {} => held' = {}
    <3>1. CASE \E s \in Streams : Write(s) \/ CloseStream(s)
      BY <3>1 DEF Write, CloseStream
    <3>2. CASE LeaderExits
      BY <3>2 DEF LeaderExits, Survivors
    <3>3. CASE DescendantsEnd \/ GroupKilled
      BY <3>3 DEF DescendantsEnd, GroupKilled, Survivors
    <3> QED
      BY <3>1, <3>2, <3>3 DEF GroupStep
  <2> QED
    BY <2>1 DEF RaceIsSent, GroupIsOver, Failed
<1>4. StopHasReason'
    BY DEF StopHasReason, Failed
<1> QED
    BY <1>1, <1>2, <1>3, <1>4

\* A pump reads, meets its end, or hands a chunk to the sink.
LEMMA PumpIInv ==
    ASSUME IInv, NEW s \in Streams,
           Read(s) \/ ReadEof(s) \/ ReadFails(s) \/ SinkTakes(s) \/ SinkFails(s)
    PROVE  IInv'
<1> USE DEF IInv, Read, ReadEof, ReadFails, SinkTakes, SinkFails, PumpTo, ladderVars, raceVars
<1>1. LadderTypeOK' /\ LadderKnowsWhy'
    BY DEF TypeOK, LadderTypeOK, LadderKnowsWhy
<1>2. TypeOK'
  <2>1. pump' \in [Streams -> {"reading", "sink", "flush", "ok", "sink_error", "read_error"}]
    BY DEF TypeOK
  <2>2. /\ unread' \in [Streams -> Nat]
        /\ \A r \in Streams : unread'[r] <= unread[r]
    BY DEF TypeOK
  <2>3. ASSUME NEW r \in Streams PROVE unread'[r] <= Capacity[r]
    BY <2>2, CapacityAssumption DEF TypeOK
  <2>4. advanced' \in BOOLEAN
    BY DEF TypeOK
  <2> QED
    BY <1>1, <2>1, <2>2, <2>3, <2>4 DEF TypeOK
<1>3. RaceIsSent' /\ GroupIsOver'
    BY DEF RaceIsSent, GroupIsOver, Terminations
<1>4. StopHasReason'
    BY DEF StopHasReason
<1>5. DrainedIsEmpty'
    BY DEF DrainedIsEmpty, TypeOK
<1>6. CleanResultIsComplete'
    BY DEF CleanResultIsComplete, RaceIsSent, Terminations
<1> QED
    BY <1>1, <1>2, <1>3, <1>4, <1>5, <1>6

\* A raw token or the raw timeout was asked for, ladder or not.
LEMMA RawIsAsked ==
    ASSUME IInv
    PROVE  /\ RawTerm => "term" \in caller \/ cause = "TimedOut"
           /\ RawKill => \/ "kill" \in caller
                         \/ cause = "TimedOut"
                         \/ spec.grace /\ "term" \in caller
           /\ RawTimeout => "timeout" \in elapsed
BY DEF IInv, TypeOK, LadderTypeOK, LadderKnowsWhy, RawTerm, RawKill, RawTimeout, Tokens

\* The race's result is one of the Terminations.
LEMMA ReportedType ==
    ASSUME NEW t \in Terminations
    PROVE  Reported(t) \in Terminations
BY DEF Reported, Terminations

\* A command that ends by itself has a termination the contract knows.
LEMMA NaturalType == NaturalTermination \in Terminations
BY DEF NaturalTermination, Terminations

\* The race over everything but the pipes and the pumps.
LEMMA RaceIInv ==
    ASSUME IInv, RaceStep \/ DeadlinePasses \/ WaitFails
    PROVE  IInv'
<1> USE DEF IInv, RaceStep, DeadlinePasses, WaitFails, RaceOnly, KillArm, TimeoutArm, TermArm,
            PumpsFail, PumpsFinish, WaitArm, DrainArm, DrainDue, StopKills, StopWaits, Stop,
            StopArm, Finish, Quiet
<1>1. LadderTypeOK' /\ LadderKnowsWhy'
    BY DEF TypeOK, LadderTypeOK, LadderKnowsWhy, ladderVars
<1>2. TypeOK'
  <2>1. outcome' \in Terminations \cup {"none", "error"}
    BY ReportedType, NaturalType DEF TypeOK, StopHasReason, Terminations
  <2>2. stopAs' \in Terminations \cup {"none"}
    BY DEF TypeOK, Terminations
  <2>3. pumpOutcome' \in {"none", "ok", "sink", "read"}
    BY DEF TypeOK
  <2> QED
    BY <1>1, <2>1, <2>2, <2>3 DEF TypeOK, groupVars, pumpVars
<1>3. RaceIsSent'
    BY DEF RaceIsSent, TypeOK, groupVars
<1>4. StopHasReason'
    BY RawIsAsked DEF StopHasReason, TypeOK, ladderVars, pumpVars, Failed
<1>7. GroupIsOver'
  <2>1. Failed' = Failed /\ spec' = spec
    BY DEF Failed, ladderVars, pumpVars
  <2>2. pumpOutcome = "ok" => Failed = {}
    BY DEF DrainedIsEmpty, Failed
  <2>3. CASE \/ KillArm \/ TimeoutArm \/ TermArm \/ PumpsFail \/ WaitFails \/ DeadlinePasses
    BY <2>1, <2>3 DEF GroupIsOver, RaceIsSent, Terminations, groupVars
  <2>4. CASE PumpsFinish \/ WaitArm \/ DrainArm
    <3>1. outcome' \in Terminations => /\ leader' # "running"
                                       /\ outcome' = Reported(NaturalTermination)
                                       /\ Failed = {}
      BY <2>2, <2>4 DEF GroupIsOver, RaceIsSent, Terminations, groupVars, PumpsReady
    <3>2. outcome' \in Terminations => /\ outcome' # "Killed"
                                       /\ outcome' = "TimedOut" => spec.grace
      BY <3>1 DEF Reported, NaturalTermination, LadderKnowsWhy
    <3>3. UNCHANGED <<leader, descendants, held, signalled, killFailed>>
      BY <2>4 DEF groupVars
    <3>4. phase' = "Draining" => leader # "running"
      BY <2>4 DEF GroupIsOver
    <3>5. pumpOutcome' \in {"none", "ok"}
      BY <2>4 DEF GroupIsOver
    <3> QED
      BY <2>1, <3>1, <3>2, <3>3, <3>4, <3>5 DEF GroupIsOver, Terminations
  <2>5. CASE StopKills
    BY <2>1, <2>5 DEF GroupIsOver, RaceIsSent, Terminations
  <2>6. CASE StopWaits
    BY <2>1, <2>6 DEF GroupIsOver, RaceIsSent, groupVars
  <2> QED
    BY <2>3, <2>4, <2>5, <2>6
<1>5. DrainedIsEmpty'
    BY DEF DrainedIsEmpty, PumpsReady, Failed, groupVars, pumpVars
<1>6. CleanResultIsComplete'
    BY DEF CleanResultIsComplete, DrainedIsEmpty, RaceIsSent, Terminations, PumpsReady, Failed,
           groupVars, pumpVars
<1> QED
    BY <1>1, <1>2, <1>3, <1>4, <1>5, <1>6, <1>7

\* Every step keeps the inductive invariant.
LEMMA NextIInv == IInv /\ [Next]_vars => IInv'
<1> SUFFICES ASSUME IInv, [Next]_vars PROVE IInv'
    OBVIOUS
<1>1. CASE UNCHANGED vars
    BY <1>1 DEF IInv, TypeOK, LadderTypeOK, LadderKnowsWhy, RaceIsSent, GroupIsOver,
                StopHasReason, DrainedIsEmpty, CleanResultIsComplete, Failed, vars, ladderVars, groupVars,
                pumpVars, raceVars
<1>2. CASE Next
    BY <1>2, LadderIInv, GroupIInv, PumpIInv, RaceIInv DEF Next, PumpStep
<1> QED
    BY <1>1, <1>2

\* The invariant of the host's biased race, whatever fires, fails or ends.
THEOREM Invariance == Spec => []IInv
BY InitIInv, NextIInv, PTL DEF Spec

\* Every reachable state of the host's race is well typed; above all no
\* pipe holds more than its capacity.
THEOREM TypeCorrect == Spec => []TypeOK
<1>1. IInv => TypeOK
    BY DEF IInv
<1> QED
    BY <1>1, Invariance, PTL

\* A Termination is reported only of a command that is over, and a kill, a hard
\* timeout or a failed delivery is reported only when nothing of the group is
\* left or its kill failed (exec.rs, Phase::stop), whether or not the leader had
\* exited and whoever held its pipes.
THEOREM ReportedIsOver == Spec => []TerminationIsOver
<1>1. IInv => TerminationIsOver
    BY DEF IInv, GroupIsOver, TerminationIsOver
<1> QED
    BY <1>1, Invariance, PTL

\* A result not marked truncated was read to the end of every pipe and taken
\* by the sink (exec.rs, the verdict of the pumps), whatever order exit, end
\* of file, drain deadline and stops came in.
THEOREM UntruncatedIsComplete == Spec => []CleanResultIsComplete
<1>1. IInv => CleanResultIsComplete
    BY DEF IInv
<1> QED
    BY <1>1, Invariance, PTL

-----------------------------------------------------------------------------
(* The refinement.                                                          *)

\* The termination of an exit, or of a stop that killed the group, is
\* justified by what was asked and sent.
LEMMA ReportIsJustified ==
    ASSUME IInv, NEW t,
           \/ pc = "race" /\ t = NaturalTermination
           \/ pc = "wait" /\ t = stopAs
    PROVE  /\ Reported(t) \in Contract!Terminations
           /\ Contract!Justified(Reported(t))
<1> USE DEF IInv, RaceIsSent, StopHasReason, LadderKnowsWhy, Contract!Terminations,
            Contract!Justified, Reported, Asked
<1>1. CASE pc = "race"
    BY <1>1 DEF NaturalTermination
<1>2. CASE pc = "wait" /\ stopAs = "Killed"
    BY <1>2
<1>3. CASE pc = "wait" /\ stopAs = "TimedOut"
    BY <1>3
<1>4. CASE pc = "wait" /\ stopAs = "Cancelled"
    BY <1>4
<1> QED
    BY <1>1, <1>2, <1>3, <1>4

\* Steps beside the race, of the group and of the pumps ask at most.
LEMMA AskRefines ==
    ASSUME IInv, \/ \E t \in Tokens : Beside(FireToken(t))
                 \/ Beside(TimeoutElapses)
                 \/ Beside(GraceElapses)
                 \/ Beside(LadderStep)
                 \/ Group(GroupStep)
                 \/ PumpStep
                 \/ \E s \in Streams : ReadFails(s) \/ SinkTakes(s) \/ SinkFails(s)
    PROVE  Contract!Ask
<1>1. outcome = "none" /\ UNCHANGED <<spec, signalled, outcome>>
  <2>1. pc # "done" /\ UNCHANGED <<spec, signalled, outcome>>
    BY DEF Beside, FireToken, TimeoutElapses, GraceElapses, LadderStep, LadderTerm,
           LadderKillAtOnce, LadderEscalate, Group, PumpStep, Read, ReadEof, ReadFails,
           SinkTakes, SinkFails, PumpTo, ladderVars, raceVars
  <2> QED
    BY <2>1 DEF IInv, RaceIsSent
<1>2. caller \subseteq caller' /\ elapsed \subseteq elapsed' /\ caller' \subseteq Tokens
    BY DEF IInv, TypeOK, LadderTypeOK, Beside, FireToken, TimeoutElapses, GraceElapses,
           LadderStep, LadderTerm, LadderKillAtOnce, LadderEscalate, Group, PumpStep, Read,
           ReadEof, ReadFails, SinkTakes, SinkFails, PumpTo, ladderVars
<1>3. Failed # {} => Failed' # {}
  <2>1. Failed = {} \/ pump' = pump
    BY DEF Beside, Group, PumpStep, Read, ReadEof, ReadFails, SinkTakes, SinkFails, PumpTo,
           pumpVars
  <2> QED
    BY <2>1 DEF Failed
<1>4. Asked \subseteq Asked' /\ Asked' \subseteq Contract!Causes
    BY <1>2, <1>3 DEF Asked, Contract!Causes, Tokens
<1> QED
    BY <1>1, <1>4 DEF Contract!Ask

\* The arms of the race stutter, send the TERM, or return.
LEMMA ArmRefines ==
    ASSUME IInv, \/ KillArm \/ TimeoutArm \/ TermArm \/ PumpsFail \/ PumpsFinish \/ WaitArm
                 \/ DrainArm \/ DeadlinePasses \/ WaitFails
    PROVE  [Contract!Next]_Contract!vars
<1>1. UNCHANGED <<spec, Asked>> /\ pc # "done"
    BY DEF KillArm, TimeoutArm, TermArm, PumpsFail, PumpsFinish, WaitArm, DrainArm, DrainDue,
           DeadlinePasses, WaitFails, Quiet, RaceOnly, ladderVars, pumpVars, Asked, Failed
<1>2. outcome = "none"
    BY <1>1 DEF IInv, RaceIsSent
<1>3. CASE KillArm \/ TimeoutArm \/ PumpsFail \/ DeadlinePasses
    BY <1>1, <1>3 DEF KillArm, TimeoutArm, PumpsFail, DeadlinePasses, Stop, StopArm,
                Contract!vars
<1>4. CASE TermArm
  <2>1. signalled = "none" /\ signalled' = "Term" /\ UNCHANGED outcome
    BY <1>4 DEF TermArm, IInv, RaceIsSent
  <2>2. "term" \in Asked \/ (spec.grace /\ "timeout" \in Asked)
    BY <1>4, RawIsAsked DEF TermArm, Asked, IInv, LadderKnowsWhy
  <2> QED
    BY <1>1, <1>2, <2>1, <2>2 DEF Contract!Term, Contract!Next
<1>5. CASE PumpsFinish \/ WaitArm \/ DrainArm
  <2>1. UNCHANGED signalled /\ pc = "race"
    BY <1>5 DEF PumpsFinish, WaitArm, DrainArm, DrainDue, Quiet
  <2>2. outcome' \in {outcome, "error", Reported(NaturalTermination)}
    BY <1>5 DEF PumpsFinish, WaitArm, DrainArm, Finish
  <2> QED
    BY <1>1, <1>2, <2>1, <2>2, ReportIsJustified DEF Contract!Return, Contract!Next, Contract!vars
<1>6. CASE WaitFails
    BY <1>1, <1>2, <1>6 DEF WaitFails, Contract!Return, Contract!Next
<1> QED
    BY <1>3, <1>4, <1>5, <1>6

\* Phase::stop sends the KILL and returns when the leader is gone.
LEMMA StopRefines ==
    ASSUME IInv, StopKills \/ StopWaits
    PROVE  [Contract!Next]_Contract!vars
<1>1. UNCHANGED <<spec, Asked>> /\ pc # "done"
    BY DEF StopKills, StopWaits, RaceOnly, ladderVars, pumpVars, Asked, Failed
<1>2. outcome = "none"
    BY <1>1 DEF IInv, RaceIsSent
<1>3. CASE StopKills
  <2>1. signalled # "Kill" /\ signalled' = "Kill" /\ UNCHANGED outcome
    BY <1>3 DEF StopKills, IInv, RaceIsSent
  <2>2. Asked \cap {"kill", "timeout", "output"} # {} \/ (spec.grace /\ "term" \in Asked)
    BY <1>3 DEF StopKills, IInv, StopHasReason, LadderKnowsWhy, Asked
  <2> QED
    BY <1>1, <1>2, <2>1, <2>2 DEF Contract!Kill, Contract!Next
<1>4. CASE StopWaits
  <2>1. UNCHANGED signalled /\ pc = "wait" /\ outcome' \in {"error", Reported(stopAs)}
    BY <1>4 DEF StopWaits, Finish
  <2> QED
    BY <1>1, <1>2, <2>1, ReportIsJustified DEF Contract!Return, Contract!Next
<1> QED
    BY <1>3, <1>4

\* Every step of the race is a step of the contract, or changes nothing it sees.
LEMMA NextRefines == IInv /\ [Next]_vars => [Contract!Next]_Contract!vars
<1> SUFFICES ASSUME IInv, [Next]_vars PROVE [Contract!Next]_Contract!vars
    OBVIOUS
<1>1. CASE UNCHANGED vars
    BY <1>1 DEF vars, ladderVars, pumpVars, raceVars, Contract!vars, Asked, Failed
<1>2. CASE \/ \E t \in Tokens : Beside(FireToken(t))
           \/ Beside(TimeoutElapses)
           \/ Beside(GraceElapses)
           \/ Beside(LadderStep)
           \/ Group(GroupStep)
           \/ PumpStep
           \/ \E s \in Streams : ReadFails(s) \/ SinkTakes(s) \/ SinkFails(s)
    BY <1>2, AskRefines DEF Contract!Next
<1>3. CASE DeadlinePasses \/ WaitFails \/ RaceStep
    BY <1>3, ArmRefines, StopRefines DEF RaceStep
<1> QED
    BY <1>1, <1>2, <1>3 DEF Next

\* The host's own race implements the contract of Exec::run_streaming: one
\* TERM at most, never behind the KILL, each for a reason the contract knows,
\* and a Termination true to what was asked and sent, for any number of pipes.
THEOREM HostRaceImplementsContract == Spec => ImplementsContract
<1>1. Init => Contract!Init
  <2> SUFFICES ASSUME Init PROVE Contract!Init
      OBVIOUS
  <2>1. spec.grace \in BOOLEAN
    BY DEF Init, LadderInit
  <2>2. Asked = {}
    BY DEF Init, LadderInit, Asked, Failed
  <2> QED
    BY <2>1, <2>2 DEF Init, Contract!Init
<1> QED
    BY <1>1, NextRefines, Invariance, PTL DEF Spec, ImplementsContract, Contract!Spec
=============================================================================
