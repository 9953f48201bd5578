--------------------------- MODULE StreamsProofs ---------------------------
(***************************************************************************)
(* What travels between a caller and its sandbox's commands and provider,  *)
(* for every number of calls, files, events and handles and every limit    *)
(* of a lane, a queue or a cache.                                          *)
(*                                                                         *)
(* The race of an exec implements the exec contract.  In a plugin's        *)
(* control connection every request is in one place at a time, so one      *)
(* answered Overloaded was never run.  A file transfer's frames are        *)
(* counted: read, under way and stored add up.  An event's loss is told.   *)
(* An answer about a sandbox fits what the sandbox was while the call ran, *)
(* whichever handles the server's cache dropped.                           *)
(***************************************************************************)
EXTENDS MCStreams, FiniteSetTheorems, SequenceTheorems, TLAPS

\* A sequence no longer than N, as the type invariants write it.
LEMMA ShortSeq ==
    ASSUME NEW S, NEW N \in Nat, NEW q
    PROVE  q \in UNION {[1..n -> S] : n \in 0..N} <=> q \in Seq(S) /\ Len(q) <= N
<1>1. ASSUME NEW n \in 0..N, q \in [1..n -> S] PROVE q \in Seq(S) /\ Len(q) <= N
    BY <1>1
<1>2. ASSUME q \in Seq(S), Len(q) <= N PROVE Len(q) \in 0..N /\ q \in [1..Len(q) -> S]
    BY <1>2
<1> QED
    BY <1>1, <1>2

-----------------------------------------------------------------------------
(* The stop race of an exec (DrainStops).                                  *)

\* A signal on its way to the command has a reason the contract knows.
SendingIsAsked ==
    /\ sending = "Term" => "term" \in caller \/ (spec.grace /\ "timeout" \in elapsed)
    /\ sending = "Kill" => \/ "kill" \in caller
                           \/ "timeout" \in elapsed
                           \/ sinkFailed
                           \/ spec.grace /\ "term" \in caller

\* The race's phase and termination say what was sent, or is being sent.
PhaseIsSent ==
    /\ pc = "select" => sending = "none"
    /\ pc # "done" => outcome = "none"
    /\ termination = "Exited" => signalled = "none" /\ sending = "none"
    /\ termination # "Exited" /\ pc # "done" => sending # "none" \/ signalled # "none"
    /\ phase = "KillSent" /\ pc # "done" => sending = "Kill" \/ signalled = "Kill"
    /\ pc = "last_stop" => sending = "Kill" \/ signalled = "Kill"
    /\ termination = "Killed" => phase = "KillSent"
    /\ pc \in {"stop", "last_stop"} => termination # "Exited"

\* The termination the race reports has its reason; a ladder started by the
\* timeout renames it.
TerminationHasReason ==
    /\ termination = "Cancelled" => sinkFailed \/ "term" \in caller \/ cause = "TimedOut"
    /\ termination = "Killed" => caller # {} \/ cause = "TimedOut"
    /\ termination = "TimedOut" => "timeout" \in elapsed

IInv ==
    /\ TypeOK
    /\ LadderKnowsWhy
    /\ SendingIsAsked
    /\ PhaseIsSent
    /\ TerminationHasReason
    /\ FailedSinkKills

\* The initial state satisfies the inductive invariant.
LEMMA InitIInv == Init => IInv
BY DEF Init, LadderInit, IInv, TypeOK, LadderTypeOK, LadderKnowsWhy, SendingIsAsked,
       PhaseIsSent, TerminationHasReason, FailedSinkKills, Levels

\* The caller, the clock and the ladder beside the race.
LEMMA LadderIInv ==
    ASSUME IInv, \/ \E t \in Tokens : Beside(FireToken(t))
                 \/ Beside(TimeoutElapses)
                 \/ Beside(GraceElapses)
                 \/ Beside(LadderStep)
    PROVE  IInv'
<1> USE DEF IInv, Beside, FireToken, TimeoutElapses, GraceElapses, LadderStep,
            LadderTerm, LadderKillAtOnce, LadderEscalate, raceVars
<1>1. TypeOK'
  <2>1. spec' \in [timeout : BOOLEAN, grace : BOOLEAN]
    BY DEF TypeOK, LadderTypeOK
  <2>2. LadderTypeOK'
    BY <2>1 DEF TypeOK, LadderTypeOK, Tokens
  <2> QED
    BY <2>2 DEF TypeOK
<1>2. LadderKnowsWhy'
    BY DEF TypeOK, LadderTypeOK, LadderKnowsWhy, Tokens
<1>3. SendingIsAsked'
    BY DEF SendingIsAsked
<1>4. PhaseIsSent' /\ FailedSinkKills'
    BY DEF PhaseIsSent, FailedSinkKills
<1>5. TerminationHasReason'
    BY DEF TerminationHasReason, LadderKnowsWhy
<1> QED
    BY <1>1, <1>2, <1>3, <1>4, <1>5

\* The output: its sink, its end and the timer on it.
LEMMA OutputIInv ==
    ASSUME IInv, SinkFails \/ DrainEnds \/ DrainTimer
    PROVE  IInv'
<1> USE DEF IInv, SinkFails, DrainEnds, DrainTimer, ladderVars
<1>1. TypeOK'
  <2>1. LadderTypeOK'
    BY DEF TypeOK, LadderTypeOK
  <2> QED
    BY <2>1 DEF TypeOK
<1>2. LadderKnowsWhy'
    BY DEF LadderKnowsWhy
<1>3. SendingIsAsked' /\ PhaseIsSent' /\ TerminationHasReason'
    BY DEF SendingIsAsked, PhaseIsSent, TerminationHasReason
<1>4. FailedSinkKills'
    BY DEF FailedSinkKills
<1> QED
    BY <1>1, <1>2, <1>3, <1>4

\* A raw token or the raw timeout was asked for, ladder or not.
LEMMA RawIsAsked ==
    ASSUME IInv
    PROVE  /\ RawTerm => "term" \in caller \/ (cause = "TimedOut" /\ spec.grace /\ "timeout" \in elapsed)
           /\ RawKill => \/ "kill" \in caller
                         \/ cause = "TimedOut" /\ "timeout" \in elapsed
                         \/ spec.grace /\ "term" \in caller
           /\ RawTimeout => "timeout" \in elapsed
BY DEF IInv, TypeOK, LadderTypeOK, LadderKnowsWhy, RawTerm, RawKill, RawTimeout, Tokens

\* The arms that stop the command.
LEMMA ArmIInv ==
    ASSUME IInv, SinkArm \/ TermArm \/ KillArm \/ TimeoutArm
    PROVE  IInv'
<1> USE DEF SinkArm, TermArm, KillArm, TimeoutArm, Arm, KillSent, ladderVars
<1>1. TypeOK'
  <2>1. LadderTypeOK'
    BY DEF IInv, TypeOK, LadderTypeOK
  <2> QED
    BY <2>1 DEF IInv, TypeOK, Levels
<1>2. LadderKnowsWhy'
    BY DEF IInv, LadderKnowsWhy
<1>3. SendingIsAsked'
    BY RawIsAsked DEF SendingIsAsked
<1>4. PhaseIsSent'
    BY DEF IInv, TypeOK, PhaseIsSent
<1>5. TerminationHasReason'
    BY RawIsAsked DEF TerminationHasReason
<1>6. FailedSinkKills'
    BY DEF FailedSinkKills
<1> QED
    BY <1>1, <1>2, <1>3, <1>4, <1>5, <1>6 DEF IInv

\* The stop callback reaches the command, returns or fails.
LEMMA StopIInv ==
    ASSUME IInv, StopEnds
    PROVE  IInv'
<1> USE DEF IInv, StopEnds, StopReaches, StopReturns, StopFails, Stronger, ladderVars
<1>1. TypeOK'
  <2>1. Reported(termination) \in {"Exited", "TimedOut", "Cancelled", "Killed"}
    BY DEF TypeOK, Reported
  <2>2. LadderTypeOK'
    BY DEF TypeOK, LadderTypeOK
  <2>3. outcome' \in {"none", "error", "Exited", "TimedOut", "Cancelled", "Killed"}
    BY <2>1 DEF TypeOK
  <2> QED
    BY <2>2, <2>3 DEF TypeOK, Levels
<1>2. LadderKnowsWhy' /\ SendingIsAsked' /\ TerminationHasReason'
    BY DEF LadderKnowsWhy, SendingIsAsked, TerminationHasReason
<1>3. PhaseIsSent'
    BY DEF TypeOK, PhaseIsSent, Levels
<1>4. FailedSinkKills'
    BY DEF FailedSinkKills, PhaseIsSent
<1> QED
    BY <1>1, <1>2, <1>3, <1>4

\* The race leaves its loop.
LEMMA LeaveIInv ==
    ASSUME IInv, Leave
    PROVE  IInv'
<1> USE DEF IInv, Leave, KillSent, ladderVars
<1>1. TypeOK'
    BY DEF TypeOK, LadderTypeOK, Levels, Reported
<1>2. LadderKnowsWhy'
    BY DEF LadderKnowsWhy
<1>3. SendingIsAsked' /\ TerminationHasReason'
    BY DEF SendingIsAsked, TerminationHasReason
<1>4. PhaseIsSent'
    BY DEF TypeOK, PhaseIsSent
<1>5. FailedSinkKills'
    BY DEF FailedSinkKills, PhaseIsSent
<1> QED
    BY <1>1, <1>2, <1>3, <1>4, <1>5

\* Every step keeps the inductive invariant.
LEMMA NextIInv == IInv /\ [Next]_vars => IInv'
<1> SUFFICES ASSUME IInv, [Next]_vars PROVE IInv'
    OBVIOUS
<1>1. CASE UNCHANGED vars
    BY <1>1 DEF IInv, TypeOK, LadderTypeOK, LadderKnowsWhy, SendingIsAsked, PhaseIsSent,
                TerminationHasReason, FailedSinkKills, vars, ladderVars, raceVars
<1>2. CASE Next
    BY <1>2, LadderIInv, OutputIInv, ArmIInv, StopIInv, LeaveIInv DEF Next
<1> QED
    BY <1>1, <1>2

\* The invariant of the shared race under the grace ladder, whatever fires, fails or ends.
THEOREM Invariance == Spec => []IInv
BY InitIInv, NextIInv, PTL DEF Spec

\* A sink that failed got its kill before the call returned, however the
\* failure, the end of the drain and the other stops interleaved (drain.rs,
\* the last look after the loop).
THEOREM SinkFailureKills == Spec => []FailedSinkKills
<1>1. IInv => FailedSinkKills
    BY DEF IInv
<1> QED
    BY <1>1, Invariance, PTL

-----------------------------------------------------------------------------
(* The refinement.                                                          *)

\* What the race reports is justified by what was asked and sent.
LEMMA ReportIsJustified ==
    ASSUME IInv, pc # "done", sending = "none"
    PROVE  /\ Reported(termination) \in Contract!Terminations
           /\ Contract!Justified(Reported(termination))
<1> USE DEF IInv, PhaseIsSent
<1>1. CASE termination = "Exited"
    BY <1>1 DEF Reported, Contract!Terminations, Contract!Justified
<1>2. CASE termination = "TimedOut"
    BY <1>2 DEF Reported, Contract!Terminations, Contract!Justified, TerminationHasReason, Asked
<1>3. CASE termination \in {"Cancelled", "Killed"} /\ cause = "TimedOut"
    BY <1>3 DEF Reported, Contract!Terminations, Contract!Justified, LadderKnowsWhy, Asked
<1>4. CASE termination = "Cancelled" /\ cause # "TimedOut"
    BY <1>4 DEF Reported, Contract!Terminations, Contract!Justified, TerminationHasReason, Asked
<1>5. CASE termination = "Killed" /\ cause # "TimedOut"
  <2>1. caller # {} /\ caller \subseteq {"term", "kill"}
    BY <1>5 DEF TerminationHasReason, TypeOK, LadderTypeOK, Tokens
  <2>2. Asked \cap {"term", "kill"} # {}
    BY <2>1 DEF Asked
  <2> QED
    BY <1>5, <2>2 DEF Reported, Contract!Terminations, Contract!Justified
<1> QED
    BY <1>1, <1>2, <1>3, <1>4, <1>5 DEF TypeOK

\* A token, the timeout or the sink adds to what was asked; the other steps
\* beside the race leave the contract's state alone.
LEMMA AskRefines ==
    ASSUME IInv, \/ \E t \in Tokens : Beside(FireToken(t))
                 \/ Beside(TimeoutElapses)
                 \/ Beside(GraceElapses)
                 \/ Beside(LadderStep)
                 \/ SinkFails \/ DrainEnds \/ DrainTimer
    PROVE  Contract!Ask
<1>1. pc # "done" /\ UNCHANGED <<spec, signalled, outcome>>
    BY DEF Beside, FireToken, TimeoutElapses, GraceElapses, LadderStep, LadderTerm,
           LadderKillAtOnce, LadderEscalate, SinkFails, DrainEnds, DrainTimer,
           raceVars, ladderVars
<1>2. /\ caller \subseteq caller' /\ elapsed \subseteq elapsed'
      /\ sinkFailed => sinkFailed'
      /\ caller' \subseteq Tokens
    BY DEF IInv, TypeOK, LadderTypeOK, Beside, FireToken, TimeoutElapses, GraceElapses,
           LadderStep, LadderTerm, LadderKillAtOnce, LadderEscalate, SinkFails, DrainEnds,
           DrainTimer, raceVars, ladderVars
<1>3. Asked \subseteq Asked' /\ Asked' \subseteq Contract!Causes
    BY <1>2 DEF Asked, Contract!Causes, Tokens
<1> QED
    BY <1>1, <1>3 DEF Contract!Ask, IInv, PhaseIsSent

\* The callback's signal is a TERM or a KILL of the contract, or adds nothing.
LEMMA StopRefines ==
    ASSUME IInv, StopEnds
    PROVE  [Contract!Next]_Contract!vars
<1>1. UNCHANGED <<spec, Asked>>
    BY DEF StopEnds, StopReaches, StopReturns, StopFails, ladderVars, Asked
<1>2. CASE StopReaches
  <2>1. outcome = "none" /\ outcome' = outcome
    BY <1>2 DEF StopReaches, IInv, PhaseIsSent
  <2>2. CASE signalled' = signalled
    BY <1>1, <2>1, <2>2 DEF Contract!vars
  <2>3. CASE sending = "Term" /\ signalled' # signalled
    <3>1. "term" \in Asked \/ (spec.grace /\ "timeout" \in Asked)
      BY <2>3 DEF IInv, SendingIsAsked, Asked
    <3>2. signalled = "none" /\ signalled' = "Term"
      BY <1>2, <2>3 DEF StopReaches, Stronger, IInv, TypeOK, Levels
    <3> QED
      BY <1>1, <2>1, <3>1, <3>2 DEF Contract!Term, Contract!Next
  <2>4. CASE sending = "Kill" /\ signalled' # signalled
    <3>1. Asked \cap {"kill", "timeout", "output"} # {} \/ (spec.grace /\ "term" \in Asked)
      BY <2>4 DEF IInv, SendingIsAsked, Asked
    <3>2. signalled # "Kill" /\ signalled' = "Kill"
      BY <1>2, <2>4 DEF StopReaches, Stronger
    <3> QED
      BY <1>1, <2>1, <3>1, <3>2 DEF Contract!Kill, Contract!Next
  <2> QED
    BY <1>2, <2>2, <2>3, <2>4 DEF StopReaches, IInv, TypeOK, Levels
<1>3. CASE StopReturns /\ pc = "stop"
    BY <1>1, <1>3 DEF StopReturns, Contract!vars
<1>4. CASE StopReturns /\ pc = "last_stop"
  <2>1. sending = "none" /\ outcome' = Reported(termination) /\ UNCHANGED signalled
    BY <1>4 DEF StopReturns
  <2> QED
    BY <1>1, <1>4, <2>1, ReportIsJustified
    DEF Contract!Return, Contract!Next, IInv, PhaseIsSent
<1>5. CASE StopFails
    BY <1>1, <1>5 DEF StopFails, Contract!Return, Contract!Next, IInv, PhaseIsSent
<1> QED
    BY <1>2, <1>3, <1>4, <1>5 DEF StopEnds, StopReturns

\* Leaving the loop returns what the contract allows, or goes on to the kill.
LEMMA LeaveRefines ==
    ASSUME IInv, Leave
    PROVE  [Contract!Next]_Contract!vars
<1>1. UNCHANGED <<spec, Asked, signalled>>
    BY DEF Leave, ladderVars, Asked
<1>2. sending = "none" /\ outcome = "none" /\ pc # "done"
    BY DEF Leave, IInv, PhaseIsSent
<1>3. CASE outcome' = outcome
    BY <1>1, <1>3 DEF Contract!vars
<1>4. CASE outcome' = Reported(termination)
    BY <1>1, <1>2, <1>4, ReportIsJustified DEF Contract!Return, Contract!Next
<1> QED
    BY <1>3, <1>4 DEF Leave

\* Every step of the race is a step of the contract, or changes nothing it sees.
LEMMA NextRefines == IInv /\ [Next]_vars => [Contract!Next]_Contract!vars
<1> SUFFICES ASSUME IInv, [Next]_vars PROVE [Contract!Next]_Contract!vars
    OBVIOUS
<1>1. CASE UNCHANGED vars
    BY <1>1 DEF vars, ladderVars, raceVars, Contract!vars, Asked
<1>2. CASE SinkArm \/ TermArm \/ KillArm \/ TimeoutArm
    BY <1>2 DEF SinkArm, TermArm, KillArm, TimeoutArm, Arm, ladderVars, Contract!vars, Asked
<1>3. CASE StopEnds \/ Leave
    BY <1>3, StopRefines, LeaveRefines
<1>4. CASE \/ \E t \in Tokens : Beside(FireToken(t))
           \/ Beside(TimeoutElapses)
           \/ Beside(GraceElapses)
           \/ Beside(LadderStep)
           \/ SinkFails \/ DrainEnds \/ DrainTimer
    BY <1>4, AskRefines DEF Contract!Next
<1> QED
    BY <1>1, <1>2, <1>3, <1>4 DEF Next

\* The stop race under the ladder implements the contract of
\* Exec::run_streaming: the command gets one TERM at most, never behind a
\* KILL, each for a reason the contract knows, and the reported Termination is
\* true to what was asked and sent, whichever arms were ready together.
THEOREM RaceImplementsContract == Spec => ImplementsContract
<1>1. Init => Contract!Init
    BY DEF Init, LadderInit, Contract!Init, Asked
<1> QED
    BY <1>1, NextRefines, Invariance, PTL DEF Spec, ImplementsContract, Contract!Spec

-----------------------------------------------------------------------------
(* Control requests to a plugin (PluginControl).                           *)

\* Each member of a queue is there once; each call has one reply in a queue.
Distinct(q) == \A i, j \in 1..Len(q) : q[i] = q[j] => i = j
DistinctCalls(q) == \A i, j \in 1..Len(q) : q[i].call = q[j].call => i = j

\* A queue that gets one more.
LEMMA AppendDistinct ==
    ASSUME NEW S, NEW q \in Seq(S), NEW x \in S
    PROVE  /\ Append(q, x) \in Seq(S) /\ Len(Append(q, x)) = Len(q) + 1
           /\ InQueue(Append(q, x)) = InQueue(q) \cup {x}
           /\ Distinct(q) /\ x \notin InQueue(q) => Distinct(Append(q, x))
           /\ DistinctCalls(q) /\ (\A y \in InQueue(q) : y.call # x.call) => DistinctCalls(Append(q, x))
<1>1. /\ Append(q, x) \in Seq(S) /\ Len(Append(q, x)) = Len(q) + 1 /\ Len(q) \in Nat
      /\ \A i \in 1..Len(q) : Append(q, x)[i] = q[i]
      /\ Append(q, x)[Len(q) + 1] = x
    BY AppendProperties, LenProperties
<1>2. \A i : i \in 1..(Len(q) + 1) <=> i \in 1..Len(q) \/ i = Len(q) + 1
    BY <1>1
<1>3. InQueue(Append(q, x)) = InQueue(q) \cup {x}
    BY <1>1, <1>2 DEF InQueue
<1>4. \A i \in 1..Len(q) : q[i] \in InQueue(q)
    BY DEF InQueue
<1>5. Distinct(q) /\ x \notin InQueue(q) => Distinct(Append(q, x))
    BY <1>1, <1>2, <1>4 DEF Distinct
<1>6. DistinctCalls(q) /\ (\A y \in InQueue(q) : y.call # x.call) => DistinctCalls(Append(q, x))
    BY <1>1, <1>2, <1>4 DEF DistinctCalls
<1> QED
    BY <1>1, <1>3, <1>5, <1>6

\* A queue whose first is taken.
LEMMA TailDistinct ==
    ASSUME NEW S, NEW q \in Seq(S), q # <<>>
    PROVE  /\ Head(q) \in S /\ Head(q) \in InQueue(q)
           /\ Tail(q) \in Seq(S) /\ Len(Tail(q)) = Len(q) - 1
           /\ InQueue(Tail(q)) \subseteq InQueue(q)
           /\ Distinct(q) => Distinct(Tail(q)) /\ Head(q) \notin InQueue(Tail(q))
           /\ DistinctCalls(q) => DistinctCalls(Tail(q)) /\ \A y \in InQueue(Tail(q)) : y.call # Head(q).call
<1>1. /\ Head(q) \in S /\ Tail(q) \in Seq(S) /\ Len(Tail(q)) = Len(q) - 1 /\ Len(q) \in Nat \ {0}
      /\ Head(q) = q[1]
      /\ \A i \in 1..Len(Tail(q)) : Tail(q)[i] = q[i + 1]
    BY HeadTailProperties, LenProperties, EmptySeq
<1>2. \A i \in 1..Len(Tail(q)) : i + 1 \in 1..Len(q) /\ i + 1 # 1 /\ i \in Int
    BY <1>1
<1>3. 1 \in 1..Len(q)
    BY <1>1
<1>4. Head(q) \in InQueue(q) /\ InQueue(Tail(q)) \subseteq InQueue(q)
    BY <1>1, <1>2, <1>3 DEF InQueue
<1>5. Distinct(q) => Distinct(Tail(q)) /\ Head(q) \notin InQueue(Tail(q))
    BY <1>1, <1>2, <1>3 DEF Distinct, InQueue
<1>6. DistinctCalls(q) => DistinctCalls(Tail(q)) /\ \A y \in InQueue(Tail(q)) : y.call # Head(q).call
    BY <1>1, <1>2, <1>3 DEF DistinctCalls, InQueue
<1> QED
    BY <1>1, <1>4, <1>5, <1>6

LaneNames == {"priority", "normal"}

\* Where a request or its reply can be: a lane of the host, a task, the loop, a lane of the plugin.
InHost(c) == \E l \in LaneNames : c \in InQueue(hostLanes[l])
InLoop(c) == loopReply # NoReply /\ loopReply.call = c
InPlugin(c) == \E l \in LaneNames : \E r \in InQueue(pluginLanes[l]) : r.call = c
RefusedInPlugin(c) == \E l \in LaneNames : \E r \in InQueue(pluginLanes[l]) : r.call = c /\ r.body = "overloaded"
Nowhere(c) == ~InHost(c) /\ task[c] = "none" /\ ~InLoop(c) /\ ~InPlugin(c)

\* A request or its reply is in one place.
OnePlace(c) ==
    /\ InHost(c) => task[c] = "none" /\ ~InLoop(c) /\ ~InPlugin(c)
    /\ task[c] # "none" => ~InLoop(c) /\ ~InPlugin(c)
    /\ InLoop(c) => ~InPlugin(c)

\* What may still run, or was refused, has not run; what ran, ran once.
NotYetRun(c) ==
    /\ ran[c] \in {0, 1}
    /\ \/ InHost(c) \/ task[c] = "dispatch"
       \/ task[c] = "reply" /\ taskBody[c] = "overloaded"
       \/ InLoop(c) /\ loopReply.body = "overloaded"
       \/ RefusedInPlugin(c)
       => ran[c] = 0
    /\ task[c] = "reply" => taskBody[c] \in Bodies

\* A call that is not sent, or knows it was refused, has no request under way and did not run.
Unsent(c) ==
    /\ \/ callPhase[c] \in {"calling", "inserted", "checked"}
       \/ slot[c] = "overloaded" \/ callOutcome[c] = "overloaded"
       => Nowhere(c) /\ ran[c] = 0
    /\ slot[c] = "overloaded" => callPhase[c] = "waiting"
    /\ callOutcome[c] = "overloaded" => callPhase[c] = "returned"
    /\ c \in pendingCalls => callPhase[c] \in {"inserted", "checked", "waiting"}

CallInv(c) == OnePlace(c) /\ NotYetRun(c) /\ Unsent(c)

HostLanesOK ==
    /\ hostLanes \in [LaneNames -> Seq(Calls)]
    /\ \A l \in LaneNames : /\ Len(hostLanes[l]) <= Lane /\ Distinct(hostLanes[l])
                            /\ \A c \in InQueue(hostLanes[l]) : LaneOf(c) = l

PluginLanesOK ==
    /\ pluginLanes \in [LaneNames -> Seq(Replies)]
    /\ \A l \in LaneNames : Len(pluginLanes[l]) <= Lane /\ DistinctCalls(pluginLanes[l])
    /\ \A r \in InQueue(pluginLanes["priority"]), q \in InQueue(pluginLanes["normal"]) : r.call # q.call

HostCallTypes ==
    /\ callPhase \in [Calls -> {"calling", "inserted", "checked", "waiting", "returned"}]
    /\ callOutcome \in [Calls -> Outcomes \cup {"none"}]
    /\ slot \in [Calls -> Outcomes \cup {"empty"}]
    /\ pendingCalls \subseteq Calls
    /\ marking \in {"open", "swapped", "drained"}
    /\ hostReads \in BOOLEAN /\ hostWrites \in BOOLEAN

PluginCallTypes ==
    /\ server \in {"running", "closing", "joined", "ended", "dead"}
    /\ task \in [Calls -> {"none", "dispatch", "reply"}]
    /\ taskBody \in [Calls -> Bodies \cup {"none"}]
    /\ loopReply \in Replies \cup {NoReply}
    /\ deliveryFailed \in BOOLEAN
    /\ ran \in [Calls -> 0..2]

ControlInv ==
    /\ HostCallTypes /\ PluginCallTypes /\ HostLanesOK /\ PluginLanesOK
    /\ \A c \in Calls : CallInv(c)

\* The invariant implies what the run checks.
LEMMA ControlInvSuffices == ControlInv => ControlTypeOK /\ OverloadedNeverRan
<1> SUFFICES ASSUME ControlInv PROVE ControlTypeOK /\ OverloadedNeverRan
    OBVIOUS
<1>1. \A l \in LaneNames : hostLanes[l] \in Short(Calls) /\ pluginLanes[l] \in Short(Replies)
    BY ShortSeq, LimitsAssumption DEF ControlInv, HostLanesOK, PluginLanesOK, Short
<1>2. ControlTypeOK
    BY <1>1 DEF ControlInv, HostCallTypes, PluginCallTypes, ControlTypeOK, LaneNames
<1>3. OverloadedNeverRan
    BY DEF ControlInv, CallInv, NotYetRun, Unsent, OverloadedNeverRan
<1> QED
    BY <1>2, <1>3

\* Empty lanes.
LEMMA NoLanesFacts ==
    /\ \A S : NoLanes \in [LaneNames -> Seq(S)]
    /\ \A l \in LaneNames : NoLanes[l] = <<>>
    BY DEF NoLanes, LaneNames

\* The empty queue.
LEMMA EmptyQueue == Len(<<>>) = 0 /\ InQueue(<<>>) = {} /\ Distinct(<<>>) /\ DistinctCalls(<<>>)
    BY DEF InQueue, Distinct, DistinctCalls

\* The initial state satisfies the invariant of control requests.
LEMMA InitControlInv == ControlInit => ControlInv
<1> SUFFICES ASSUME ControlInit PROVE ControlInv
    OBVIOUS
<1>1. HostCallTypes
    BY Zenon DEF ControlInit, HostCallTypes
<1>2. PluginCallTypes
  <2>1. deliveryFailed \in BOOLEAN
    BY Zenon DEF ControlInit
  <2> QED
    BY <2>1 DEF ControlInit, PluginCallTypes
<1>3. HostLanesOK /\ PluginLanesOK
    BY NoLanesFacts, EmptyQueue, LimitsAssumption DEF ControlInit, HostLanesOK, PluginLanesOK, LaneNames
<1>4. ASSUME NEW c \in Calls PROVE CallInv(c)
  <2>1. ~InHost(c) /\ ~InPlugin(c) /\ ~RefusedInPlugin(c) /\ ~InLoop(c)
    BY NoLanesFacts, EmptyQueue DEF ControlInit, InHost, InPlugin, RefusedInPlugin, InLoop
  <2> QED
    BY <2>1 DEF ControlInit, CallInv, OnePlace, NotYetRun, Unsent, Nowhere
<1> QED
    BY <1>1, <1>2, <1>3, <1>4 DEF ControlInv

-----------------------------------------------------------------------------
\* A call joins the queue of its lane, at the host.
LEMMA HostQueued ==
    ASSUME HostLanesOK, NEW c \in Calls, ~InHost(c), Len(hostLanes[LaneOf(c)]) < Lane,
           hostLanes' = Queue(hostLanes, LaneOf(c), c)
    PROVE  /\ HostLanesOK' /\ InHost(c)'
           /\ \A d \in Calls \ {c} : InHost(d)' <=> InHost(d)
<1> DEFINE l == LaneOf(c)
           q == hostLanes[l]
<1>1. l \in LaneNames
    BY DEF LaneOf, LaneNames
<1>2. q \in Seq(Calls) /\ Distinct(q) /\ c \notin InQueue(q)
    BY <1>1 DEF HostLanesOK, InHost
<1>3. /\ Append(q, c) \in Seq(Calls) /\ Len(Append(q, c)) = Len(q) + 1
      /\ InQueue(Append(q, c)) = InQueue(q) \cup {c} /\ Distinct(Append(q, c))
    BY <1>2, AppendDistinct
<1>4. Len(Append(q, c)) <= Lane
    BY <1>2, <1>3, LimitsAssumption, LenProperties
<1>5. /\ hostLanes' \in [LaneNames -> Seq(Calls)]
      /\ hostLanes'[l] = Append(q, c)
      /\ \A k \in LaneNames \ {l} : hostLanes'[k] = hostLanes[k]
    BY <1>1, <1>3 DEF HostLanesOK, Queue
<1> HIDE DEF q, l
<1>6. LaneOf(c) = l
    BY DEF l
<1>7. HostLanesOK'
    BY <1>1, <1>3, <1>4, <1>5, <1>6 DEF HostLanesOK, q
<1>8. InHost(c)' /\ \A d \in Calls \ {c} : InHost(d)' <=> InHost(d)
    BY <1>1, <1>3, <1>5 DEF InHost, q
<1> QED
    BY <1>7, <1>8

\* The first call of a lane of the host leaves it.
LEMMA HostTaken ==
    ASSUME HostLanesOK, NEW l \in LaneNames, hostLanes[l] # <<>>,
           hostLanes' = [hostLanes EXCEPT ![l] = Tail(@)]
    PROVE  /\ HostLanesOK'
           /\ Head(hostLanes[l]) \in Calls
           /\ \A c \in Calls : c = Head(hostLanes[l]) => InHost(c) /\ ~InHost(c)'
           /\ \A d \in Calls : InHost(d)' => InHost(d)
<1> DEFINE q == hostLanes[l]
<1>1. q \in Seq(Calls) /\ Distinct(q) /\ q # <<>> /\ Len(q) <= Lane
    BY DEF HostLanesOK
<1>2. /\ Head(q) \in Calls /\ Head(q) \in InQueue(q)
      /\ Tail(q) \in Seq(Calls) /\ Len(Tail(q)) = Len(q) - 1
      /\ InQueue(Tail(q)) \subseteq InQueue(q)
      /\ Distinct(Tail(q)) /\ Head(q) \notin InQueue(Tail(q))
    BY <1>1, TailDistinct
<1>3. Len(Tail(q)) <= Lane
    BY <1>1, <1>2, LimitsAssumption, LenProperties
<1>4. /\ hostLanes' \in [LaneNames -> Seq(Calls)]
      /\ hostLanes'[l] = Tail(q)
      /\ \A k \in LaneNames \ {l} : hostLanes'[k] = hostLanes[k]
    BY <1>2 DEF HostLanesOK
<1>5. LaneOf(Head(q)) = l
    BY <1>2 DEF HostLanesOK
<1> HIDE DEF q
<1>6. HostLanesOK'
    BY <1>2, <1>3, <1>4 DEF HostLanesOK, q
<1>7. \A d \in Calls : InHost(d)' => InHost(d)
    BY <1>2, <1>4 DEF InHost, q
<1>8. \A c \in Calls : c = Head(q) => InHost(c) /\ ~InHost(c)'
    BY <1>2, <1>4, <1>5 DEF InHost, HostLanesOK, q
<1> QED
    BY <1>2, <1>6, <1>7, <1>8 DEF q

\* A reply joins a lane of the plugin.
LEMMA ReplyQueued ==
    ASSUME PluginLanesOK, NEW l \in LaneNames, NEW r \in Replies, ~InPlugin(r.call),
           Len(pluginLanes[l]) < Lane, pluginLanes' = Queue(pluginLanes, l, r)
    PROVE  /\ PluginLanesOK'
           /\ \A d \in Calls \ {r.call} : /\ InPlugin(d)' <=> InPlugin(d)
                                          /\ RefusedInPlugin(d)' <=> RefusedInPlugin(d)
           /\ \A c \in Calls : c = r.call => /\ InPlugin(c)'
                                             /\ RefusedInPlugin(c)' => r.body = "overloaded"
<1> DEFINE q == pluginLanes[l]
<1>1. q \in Seq(Replies) /\ DistinctCalls(q) /\ \A y \in InQueue(q) : y.call # r.call
    BY DEF PluginLanesOK, InPlugin
<1>2. /\ Append(q, r) \in Seq(Replies) /\ Len(Append(q, r)) = Len(q) + 1
      /\ InQueue(Append(q, r)) = InQueue(q) \cup {r} /\ DistinctCalls(Append(q, r))
    BY <1>1, AppendDistinct
<1>3. Len(Append(q, r)) <= Lane
    BY <1>1, <1>2, LimitsAssumption, LenProperties
<1>4. /\ pluginLanes' \in [LaneNames -> Seq(Replies)]
      /\ pluginLanes'[l] = Append(q, r)
      /\ \A k \in LaneNames \ {l} : pluginLanes'[k] = pluginLanes[k]
    BY <1>2 DEF PluginLanesOK, Queue
<1>5. \A k \in LaneNames : \A y \in InQueue(pluginLanes[k]) : y.call # r.call
    BY DEF InPlugin
<1> HIDE DEF q
<1>6. \A k \in LaneNames : Len(pluginLanes'[k]) <= Lane /\ DistinctCalls(pluginLanes'[k])
    BY <1>2, <1>3, <1>4 DEF PluginLanesOK
<1>7. ASSUME NEW x \in InQueue(pluginLanes'["priority"]), NEW y \in InQueue(pluginLanes'["normal"])
      PROVE  x.call # y.call
  <2>1. CASE l = "priority"
    BY <1>2, <1>4, <1>5, <1>7, <2>1 DEF PluginLanesOK, LaneNames, q
  <2>2. CASE l = "normal"
    BY <1>2, <1>4, <1>5, <1>7, <2>2 DEF PluginLanesOK, LaneNames, q
  <2> QED
    BY <2>1, <2>2 DEF LaneNames
<1>8. PluginLanesOK'
    BY <1>4, <1>6, <1>7 DEF PluginLanesOK
<1>9. \A d \in Calls \ {r.call} : /\ InPlugin(d)' <=> InPlugin(d)
                                  /\ RefusedInPlugin(d)' <=> RefusedInPlugin(d)
    BY <1>2, <1>4 DEF InPlugin, RefusedInPlugin, q
<1>10. InQueue(pluginLanes'[l]) = InQueue(q) \cup {r}
    BY <1>2, <1>4
<1>11. \A c \in Calls : c = r.call => InPlugin(c)'
    BY <1>10 DEF InPlugin
<1>12. \A k \in LaneNames : \A y \in InQueue(pluginLanes'[k]) : y.call = r.call => y = r
    BY <1>4, <1>5, <1>10 DEF q
<1>13. \A c \in Calls : c = r.call /\ RefusedInPlugin(c)' => r.body = "overloaded"
    BY <1>12 DEF RefusedInPlugin
<1> QED
    BY <1>8, <1>9, <1>11, <1>13

\* The first reply of a lane of the plugin leaves it.
LEMMA ReplyTaken ==
    ASSUME PluginLanesOK, NEW l \in LaneNames, pluginLanes[l] # <<>>,
           pluginLanes' = [pluginLanes EXCEPT ![l] = Tail(@)]
    PROVE  /\ PluginLanesOK'
           /\ Head(pluginLanes[l]) \in Replies
           /\ \A c \in Calls : c = Head(pluginLanes[l]).call =>
                /\ InPlugin(c) /\ ~InPlugin(c)'
                /\ Head(pluginLanes[l]).body = "overloaded" => RefusedInPlugin(c)
           /\ \A d \in Calls : /\ InPlugin(d)' => InPlugin(d)
                               /\ RefusedInPlugin(d)' => RefusedInPlugin(d)
<1> DEFINE q == pluginLanes[l]
           r == Head(q)
<1>1. q \in Seq(Replies) /\ DistinctCalls(q) /\ q # <<>> /\ Len(q) <= Lane
    BY DEF PluginLanesOK
<1>2. /\ r \in Replies /\ r \in InQueue(q)
      /\ Tail(q) \in Seq(Replies) /\ Len(Tail(q)) = Len(q) - 1
      /\ InQueue(Tail(q)) \subseteq InQueue(q)
      /\ DistinctCalls(Tail(q)) /\ \A y \in InQueue(Tail(q)) : y.call # r.call
    BY <1>1, TailDistinct
<1>3. Len(Tail(q)) <= Lane
    BY <1>1, <1>2, LimitsAssumption, LenProperties
<1>4. /\ pluginLanes' \in [LaneNames -> Seq(Replies)]
      /\ pluginLanes'[l] = Tail(q)
      /\ \A k \in LaneNames \ {l} : pluginLanes'[k] = pluginLanes[k]
    BY <1>2 DEF PluginLanesOK
<1> HIDE DEF r, q
<1>5. \A k \in LaneNames : InQueue(pluginLanes'[k]) \subseteq InQueue(pluginLanes[k])
    BY <1>2, <1>4 DEF q
<1>6. \A k \in LaneNames : Len(pluginLanes'[k]) <= Lane /\ DistinctCalls(pluginLanes'[k])
    BY <1>2, <1>3, <1>4 DEF PluginLanesOK
<1>7. \A x \in InQueue(pluginLanes'["priority"]), y \in InQueue(pluginLanes'["normal"]) :
        x.call # y.call
    BY <1>5 DEF PluginLanesOK, LaneNames
<1>8. PluginLanesOK'
    BY <1>4, <1>6, <1>7 DEF PluginLanesOK
<1>9. \A k \in LaneNames : \A y \in InQueue(pluginLanes'[k]) : y.call # r.call
  <2>1. CASE l = "priority"
    BY <1>2, <1>4, <2>1 DEF PluginLanesOK, LaneNames, q
  <2>2. CASE l = "normal"
    BY <1>2, <1>4, <2>2 DEF PluginLanesOK, LaneNames, q
  <2> QED
    BY <2>1, <2>2 DEF LaneNames
<1>10. \A c \in Calls : c = r.call => InPlugin(c) /\ (r.body = "overloaded" => RefusedInPlugin(c))
    BY <1>2 DEF InPlugin, RefusedInPlugin, q
<1>11. \A c \in Calls : c = r.call => ~InPlugin(c)'
    BY <1>9 DEF InPlugin
<1>12. \A d \in Calls : /\ InPlugin(d)' => InPlugin(d)
                        /\ RefusedInPlugin(d)' => RefusedInPlugin(d)
    BY <1>5 DEF InPlugin, RefusedInPlugin
<1> QED
    BY <1>2, <1>8, <1>10, <1>11, <1>12 DEF r, q

-----------------------------------------------------------------------------
\* Where calls are does not change with the variables it is read from.
LEMMA PlacesStay ==
    /\ hostLanes' = hostLanes => \A d \in Calls : InHost(d)' <=> InHost(d)
    /\ pluginLanes' = pluginLanes =>
         \A d \in Calls : /\ InPlugin(d)' <=> InPlugin(d)
                          /\ RefusedInPlugin(d)' <=> RefusedInPlugin(d)
    /\ loopReply' = loopReply => \A d \in Calls : InLoop(d)' <=> InLoop(d)
<1>1. ASSUME hostLanes' = hostLanes PROVE \A d \in Calls : InHost(d)' <=> InHost(d)
    BY <1>1 DEF InHost
<1>2. ASSUME pluginLanes' = pluginLanes
      PROVE  \A d \in Calls : /\ InPlugin(d)' <=> InPlugin(d)
                              /\ RefusedInPlugin(d)' <=> RefusedInPlugin(d)
    BY <1>2 DEF InPlugin, RefusedInPlugin
<1>3. ASSUME loopReply' = loopReply PROVE \A d \in Calls : InLoop(d)' <=> InLoop(d)
    BY <1>3 DEF InLoop
<1> QED
    BY <1>1, <1>2, <1>3

\* The lanes keep their shape when they are left alone.
LEMMA LanesStay ==
    /\ HostLanesOK /\ hostLanes' = hostLanes => HostLanesOK'
    /\ PluginLanesOK /\ pluginLanes' = pluginLanes => PluginLanesOK'
    BY DEF HostLanesOK, PluginLanesOK

\* What a step leaves of another call's request, or loses of it, keeps that call's invariant.
LEMMA CallStays ==
    ASSUME NEW c \in Calls, CallInv(c),
           callPhase'[c] = callPhase[c], callOutcome'[c] = callOutcome[c],
           slot'[c] = slot[c] \/ slot'[c] \in {"empty", "failed", "answered"},
           c \in pendingCalls' => c \in pendingCalls,
           InHost(c)' => InHost(c), InPlugin(c)' => InPlugin(c),
           RefusedInPlugin(c)' => RefusedInPlugin(c),
           InLoop(c)' => InLoop(c) /\ loopReply' = loopReply,
           \/ task'[c] = task[c] /\ taskBody'[c] = taskBody[c]
           \/ task'[c] = "none",
           ran'[c] = ran[c]
    PROVE  CallInv(c)'
<1>1. OnePlace(c)'
    BY DEF CallInv, OnePlace
<1>2. NotYetRun(c)'
    BY DEF CallInv, NotYetRun
<1>3. Unsent(c)'
    BY DEF CallInv, Unsent, Nowhere
<1> QED
    BY <1>1, <1>2, <1>3 DEF CallInv

\* A call's own steps at the host.
LEMMA CallStepsInv ==
    ASSUME ControlInv, NEW c \in Calls, CallSteps(c) \/ CallDropped(c)
    PROVE  ControlInv'
<1> USE DEF ControlInv, CallSteps
<1>1. /\ UNCHANGED <<server, task, taskBody, loopReply, pluginLanes, deliveryFailed, ran>>
      /\ UNCHANGED <<marking, hostReads, hostWrites>>
    BY DEF CallInserts, CallChecksClosed, CallSends, CallReceives, CallDropped, pluginControl
<1>2. PluginCallTypes' /\ PluginLanesOK'
    BY <1>1, LanesStay DEF PluginCallTypes
<1>3. /\ \A d \in Calls : /\ InPlugin(d)' <=> InPlugin(d)
                          /\ RefusedInPlugin(d)' <=> RefusedInPlugin(d)
                          /\ InLoop(d)' <=> InLoop(d)
    BY <1>1, PlacesStay
<1>4. /\ callPhase' \in [Calls -> {"calling", "inserted", "checked", "waiting", "returned"}]
      /\ callOutcome' \in [Calls -> Outcomes \cup {"none"}]
      /\ slot' \in [Calls -> Outcomes \cup {"empty"}]
      /\ pendingCalls' \subseteq Calls
      /\ \A d \in Calls \ {c} : /\ callPhase'[d] = callPhase[d] /\ callOutcome'[d] = callOutcome[d]
                                /\ slot'[d] = slot[d] /\ (d \in pendingCalls' <=> d \in pendingCalls)
  <2> USE DEF HostCallTypes, CallReturns, CallOverloaded, Outcomes
  <2>1. CASE CallInserts(c)
    BY <2>1 DEF CallInserts
  <2>2. CASE CallChecksClosed(c)
    BY <2>2 DEF CallChecksClosed
  <2>3. CASE CallSends(c)
    BY <2>3 DEF CallSends
  <2>4. CASE CallReceives(c)
    BY <2>4 DEF CallReceives
  <2>5. CASE CallDropped(c)
    BY <2>5 DEF CallDropped
  <2> QED
    BY <2>1, <2>2, <2>3, <2>4, <2>5
<1>5. HostCallTypes'
    BY <1>1, <1>4 DEF HostCallTypes
<1>6. \/ UNCHANGED hostLanes
      \/ /\ callPhase[c] = "checked" /\ Room(hostLanes, LaneOf(c))
         /\ hostLanes' = Queue(hostLanes, LaneOf(c), c)
         /\ callPhase'[c] = "waiting" /\ UNCHANGED <<callOutcome, slot, pendingCalls>>
    BY DEF CallInserts, CallChecksClosed, CallSends, CallReceives, CallDropped, HostCallTypes
<1>7. /\ CallInv(c) /\ c \in Calls
      /\ \A d \in Calls : CallInv(d)
    OBVIOUS
<1>8. CASE UNCHANGED hostLanes
  <2>1. HostLanesOK' /\ \A d \in Calls : InHost(d)' <=> InHost(d)
    BY <1>8, LanesStay, PlacesStay
  <2>2. \A d \in Calls \ {c} : CallInv(d)'
    BY <1>1, <1>3, <1>4, <1>7, <2>1, CallStays
  <2>3. OnePlace(c)' /\ NotYetRun(c)'
    BY <1>1, <1>3, <1>7, <2>1 DEF CallInv, OnePlace, NotYetRun
  <2>4. Nowhere(c)' <=> Nowhere(c)
    BY <1>1, <1>3, <2>1 DEF Nowhere
  <2>5. Unsent(c)'
    <3> USE DEF HostCallTypes, CallReturns, CallOverloaded, Outcomes
    <3>1. CASE CallInserts(c)
      BY <1>1, <1>7, <2>4, <3>1 DEF CallInserts, CallInv, Unsent
    <3>2. CASE CallChecksClosed(c)
      BY <1>1, <1>7, <2>4, <3>2 DEF CallChecksClosed, CallInv, Unsent
    <3>3. CASE CallSends(c)
      BY <1>1, <1>7, <1>8, <2>4, <3>3 DEF CallSends, CallInv, Unsent
    <3>4. CASE CallReceives(c)
      BY <1>1, <1>7, <2>4, <3>4 DEF CallReceives, CallInv, Unsent
    <3>5. CASE CallDropped(c)
      BY <1>1, <1>7, <2>4, <3>5 DEF CallDropped, CallInv, Unsent
    <3> QED
      BY <3>1, <3>2, <3>3, <3>4, <3>5
  <2> QED
    BY <1>2, <1>5, <2>1, <2>2, <2>3, <2>5 DEF CallInv
<1>9. CASE /\ callPhase[c] = "checked" /\ Room(hostLanes, LaneOf(c))
           /\ hostLanes' = Queue(hostLanes, LaneOf(c), c)
           /\ callPhase'[c] = "waiting" /\ UNCHANGED <<callOutcome, slot, pendingCalls>>
  <2>1. Nowhere(c) /\ ran[c] = 0 /\ slot[c] # "overloaded" /\ callOutcome[c] # "overloaded"
    BY <1>7, <1>9 DEF CallInv, Unsent
  <2>2. /\ HostLanesOK' /\ InHost(c)'
        /\ \A d \in Calls \ {c} : InHost(d)' <=> InHost(d)
    BY <1>9, <2>1, HostQueued DEF Nowhere, Room
  <2>3. \A d \in Calls \ {c} : CallInv(d)'
    BY <1>1, <1>3, <1>4, <1>7, <2>2, CallStays
  <2>4. OnePlace(c)' /\ NotYetRun(c)'
    BY <1>1, <1>3, <1>7, <2>1, <2>2 DEF CallInv, OnePlace, NotYetRun, Nowhere
  <2>5. Unsent(c)'
    BY <1>1, <1>9, <2>1 DEF Unsent
  <2> QED
    BY <1>2, <1>5, <2>2, <2>3, <2>4, <2>5 DEF CallInv
<1> QED
    BY <1>6, <1>8, <1>9

\* The host's reader and writer tasks.
LEMMA HostTasksInv ==
    ASSUME ControlInv, HostTasks \/ MarkDrains
    PROVE  ControlInv'
<1> USE DEF ControlInv, HostTasks
<1>1. CASE HostWriterFails \/ HostReaderEnds
  <2>1. /\ UNCHANGED <<server, task, taskBody, loopReply, pluginLanes, deliveryFailed, ran>>
        /\ UNCHANGED <<callPhase, callOutcome, slot, pendingCalls, hostLanes>>
        /\ marking' \in {"open", "swapped", "drained"}
    BY <1>1 DEF HostWriterFails, HostReaderEnds, pluginControl, MarkSwaps, HostCallTypes
  <2>2. hostReads' \in BOOLEAN /\ hostWrites' \in BOOLEAN
    BY Zenon, <1>1 DEF HostWriterFails, HostReaderEnds, HostCallTypes
  <2>3. HostCallTypes' /\ PluginCallTypes'
    BY <2>1, <2>2 DEF HostCallTypes, PluginCallTypes
  <2>4. \A d \in Calls : CallInv(d)'
    BY <2>1, PlacesStay, CallStays
  <2> QED
    BY <2>1, <2>3, <2>4, LanesStay
<1>2. CASE MarkDrains
  <2>1. /\ UNCHANGED <<server, task, taskBody, loopReply, pluginLanes, deliveryFailed, ran>>
        /\ UNCHANGED <<callPhase, callOutcome, hostLanes, hostReads, hostWrites>>
        /\ marking' = "drained" /\ pendingCalls' = {}
        /\ slot' \in [Calls -> Outcomes \cup {"empty"}]
        /\ \A d \in Calls : slot'[d] \in {slot[d], "failed"}
    BY <1>2 DEF MarkDrains, pluginControl, HostCallTypes, Outcomes
  <2>2. HostCallTypes' /\ PluginCallTypes'
    BY <2>1 DEF HostCallTypes, PluginCallTypes
  <2>3. \A d \in Calls : CallInv(d)'
    BY <2>1, PlacesStay, CallStays
  <2> QED
    BY <2>1, <2>2, <2>3, LanesStay
<1>3. CASE ReplyRouted
  <2> DEFINE l == NextLane(pluginLanes)
             r == Head(pluginLanes[l])
  <2>1. l \in LaneNames
    BY DEF NextLane, LaneNames
  <2>2. /\ pluginLanes[l] # <<>>
        /\ pluginLanes' = [pluginLanes EXCEPT ![l] = Tail(@)]
        /\ pendingCalls' = pendingCalls \ {r.call}
        /\ slot' = IF r.call \in pendingCalls THEN [slot EXCEPT ![r.call] = OutcomeOf(r.body)] ELSE slot
        /\ UNCHANGED <<callPhase, callOutcome, hostLanes, marking, hostReads, hostWrites,
                       server, task, taskBody, loopReply, deliveryFailed, ran>>
    BY <1>3 DEF ReplyRouted
  <2> HIDE DEF l
  <2>3. /\ PluginLanesOK'
        /\ r \in Replies
        /\ \A c \in Calls : c = r.call =>
             /\ InPlugin(c) /\ ~InPlugin(c)'
             /\ r.body = "overloaded" => RefusedInPlugin(c)
        /\ \A d \in Calls : /\ InPlugin(d)' => InPlugin(d)
                            /\ RefusedInPlugin(d)' => RefusedInPlugin(d)
    BY <2>1, <2>2, ReplyTaken
  <2> HIDE DEF r
  <2>4. PICK c \in Calls : c = r.call
    BY <2>3 DEF Replies
  <2>5. OutcomeOf(r.body) \in {"answered", "overloaded"}
    BY DEF OutcomeOf
  <2>6. HostCallTypes'
    BY <2>2, <2>4, <2>5 DEF HostCallTypes, Outcomes
  <2>7. PluginCallTypes' /\ HostLanesOK'
    BY <2>2, LanesStay DEF PluginCallTypes
  <2>8. \A d \in Calls : (InHost(d)' <=> InHost(d)) /\ (InLoop(d)' <=> InLoop(d))
    BY <2>2, PlacesStay
  <2>9. \A d \in Calls \ {c} : CallInv(d)'
    BY <2>2, <2>3, <2>4, <2>8, CallStays DEF HostCallTypes
  <2>10. CallInv(c)'
    <3>1. InPlugin(c) /\ ~InPlugin(c)' /\ (r.body = "overloaded" => RefusedInPlugin(c))
      BY <2>3, <2>4
    <3>2. Nowhere(c)' /\ ~Nowhere(c)
      BY <2>2, <2>8, <3>1 DEF CallInv, OnePlace, Nowhere
    <3>3. callPhase[c] \in {"waiting", "returned"} /\ (c \in pendingCalls => callPhase[c] = "waiting")
      BY <3>2 DEF CallInv, Unsent, HostCallTypes
    <3>4. slot'[c] = "overloaded" => r.body = "overloaded" /\ callPhase[c] = "waiting"
      BY <2>2, <2>4, <3>2, <3>3 DEF CallInv, Unsent, HostCallTypes, OutcomeOf
    <3>5. slot'[c] = "overloaded" => ran[c] = 0
      BY <3>1, <3>4 DEF CallInv, NotYetRun
    <3>6. OnePlace(c)' /\ NotYetRun(c)'
      BY <2>2, <2>3, <2>8, <3>1, <3>2 DEF CallInv, OnePlace, NotYetRun, Nowhere
    <3>7. Unsent(c)'
      BY <2>2, <2>4, <3>2, <3>3, <3>4, <3>5 DEF CallInv, Unsent
    <3> QED
      BY <3>6, <3>7 DEF CallInv
  <2> QED
    BY <2>3, <2>6, <2>7, <2>9, <2>10
<1> QED
    BY <1>1, <1>2, <1>3

\* The plugin's request loop reads a request.
LEMMA ServerReadsInv ==
    ASSUME ControlInv, ServerReads
    PROVE  ControlInv'
<1> USE DEF ControlInv
<1> DEFINE l == NextLane(hostLanes)
<1>1. l \in LaneNames
    BY DEF NextLane, LaneNames
<1>2. PICK c : c = Head(hostLanes[l])
    OBVIOUS
<1>3. /\ hostLanes[l] # <<>> /\ hostLanes' = [hostLanes EXCEPT ![l] = Tail(@)]
      /\ loopReply = NoReply
      /\ UNCHANGED <<callPhase, callOutcome, slot, pendingCalls, marking, hostReads, hostWrites,
                     server, pluginLanes, deliveryFailed, ran>>
    BY DEF ServerReads
<1>4. \/ /\ \E b \in {"answer", "overloaded"} : loopReply' = [call |-> c, body |-> b]
         /\ UNCHANGED <<task, taskBody>>
      \/ /\ task' = [task EXCEPT ![c] = "dispatch"]
         /\ taskBody' = [taskBody EXCEPT ![c] = "none"]
         /\ UNCHANGED loopReply
    BY <1>2 DEF ServerReads
<1> HIDE DEF l
<1>5. /\ HostLanesOK' /\ c \in Calls /\ InHost(c) /\ ~InHost(c)'
      /\ \A d \in Calls : InHost(d)' => InHost(d)
    BY <1>1, <1>2, <1>3, HostTaken
<1>6. HostCallTypes' /\ PluginLanesOK'
    BY <1>3, LanesStay DEF HostCallTypes
<1>7. \A d \in Calls : /\ InPlugin(d)' <=> InPlugin(d)
                       /\ RefusedInPlugin(d)' <=> RefusedInPlugin(d)
    BY <1>3, PlacesStay
<1>8. /\ task[c] = "none" /\ ~InLoop(c) /\ ~InPlugin(c) /\ ran[c] = 0 /\ ~Nowhere(c)
      /\ ~RefusedInPlugin(c)
    BY <1>5 DEF CallInv, OnePlace, NotYetRun, Nowhere, InPlugin, RefusedInPlugin
<1>9. Unsent(c)'
    BY <1>3, <1>5, <1>8 DEF CallInv, Unsent
<1>10. \A d \in Calls : ~InLoop(d)
    BY <1>3 DEF InLoop
<1>11. CASE /\ \E b \in {"answer", "overloaded"} : loopReply' = [call |-> c, body |-> b]
            /\ UNCHANGED <<task, taskBody>>
  <2>1. loopReply' \in Replies
    BY <1>5, <1>11 DEF Replies, Bodies
  <2>2. PluginCallTypes'
    BY <1>3, <1>11, <2>1 DEF PluginCallTypes
  <2>3. \A d \in Calls \ {c} : ~InLoop(d)'
    BY <1>11 DEF InLoop
  <2>4. \A d \in Calls \ {c} : CallInv(d)'
    BY <1>3, <1>5, <1>7, <1>11, <2>3, CallStays
  <2>5. OnePlace(c)' /\ NotYetRun(c)'
    BY <1>3, <1>5, <1>7, <1>8, <1>11 DEF OnePlace, NotYetRun
  <2> QED
    BY <1>5, <1>6, <1>9, <2>2, <2>4, <2>5 DEF CallInv
<1>12. CASE /\ task' = [task EXCEPT ![c] = "dispatch"]
            /\ taskBody' = [taskBody EXCEPT ![c] = "none"]
            /\ UNCHANGED loopReply
  <2>1. PluginCallTypes'
    BY <1>3, <1>5, <1>12 DEF PluginCallTypes
  <2>2. \A d \in Calls : InLoop(d)' <=> InLoop(d)
    BY <1>12, PlacesStay
  <2>3. \A d \in Calls \ {c} : CallInv(d)'
    BY <1>3, <1>5, <1>7, <1>12, <2>2, CallStays DEF PluginCallTypes
  <2>4. task'[c] = "dispatch"
    BY <1>5, <1>12 DEF PluginCallTypes
  <2>5. OnePlace(c)' /\ NotYetRun(c)'
    BY <1>3, <1>5, <1>7, <1>8, <2>2, <2>4 DEF OnePlace, NotYetRun
  <2> QED
    BY <1>5, <1>6, <1>9, <2>1, <2>3, <2>5 DEF CallInv
<1> QED
    BY <1>4, <1>11, <1>12

\* The loop delivers a reply of its own, gives up on it, or leaves.
LEMMA LoopInv ==
    ASSUME ControlInv, LoopDelivers \/ LoopDeliveryTimesOut \/ ServerLoopLeaves
    PROVE  ControlInv'
<1> USE DEF ControlInv
<1>1. /\ UNCHANGED <<callPhase, callOutcome, slot, pendingCalls, hostLanes, marking, hostReads, hostWrites>>
      /\ UNCHANGED <<task, taskBody, ran>>
      /\ server' \in {server, "closing"}
    BY DEF LoopDelivers, LoopDeliveryTimesOut, ServerLoopLeaves, LoopDone, hostControl
<1>2. HostCallTypes' /\ HostLanesOK'
    BY <1>1, LanesStay DEF HostCallTypes
<1>3. \A d \in Calls : InHost(d)' <=> InHost(d)
    BY <1>1, PlacesStay
<1>4. deliveryFailed' \in BOOLEAN
    BY Zenon DEF LoopDelivers, LoopDeliveryTimesOut, ServerLoopLeaves, LoopDone, PluginCallTypes
<1>5. loopReply' \in {loopReply, NoReply}
    BY DEF LoopDelivers, LoopDeliveryTimesOut, ServerLoopLeaves, LoopDone
<1>6. PluginCallTypes'
    BY <1>1, <1>4, <1>5 DEF PluginCallTypes
<1>7. \A d \in Calls : InLoop(d)' => InLoop(d) /\ loopReply' = loopReply
    BY <1>5 DEF InLoop
<1>8. CASE LoopDeliveryTimesOut \/ ServerLoopLeaves
  <2>1. UNCHANGED pluginLanes
    BY <1>8 DEF LoopDeliveryTimesOut, ServerLoopLeaves
  <2>2. PluginLanesOK' /\ \A d \in Calls : /\ InPlugin(d)' <=> InPlugin(d)
                                           /\ RefusedInPlugin(d)' <=> RefusedInPlugin(d)
    BY <2>1, LanesStay, PlacesStay
  <2>3. \A d \in Calls : CallInv(d)'
    BY <1>1, <1>3, <1>7, <2>2, CallStays
  <2> QED
    BY <1>2, <1>6, <2>2, <2>3
<1>9. CASE LoopDelivers
  <2>1. /\ loopReply # NoReply /\ loopReply' = NoReply /\ loopReply \in Replies
        /\ Len(pluginLanes["priority"]) < Lane
        /\ pluginLanes' = Queue(pluginLanes, "priority", loopReply)
    BY <1>9 DEF LoopDelivers, LoopDone, Room, PluginCallTypes
  <2>2. PICK c \in Calls : c = loopReply.call
    BY <2>1 DEF Replies
  <2>3. InLoop(c) /\ ~InHost(c) /\ task[c] = "none" /\ ~InPlugin(c) /\ ~Nowhere(c)
    BY <2>1, <2>2 DEF InLoop, CallInv, OnePlace, Nowhere
  <2>4. /\ PluginLanesOK'
        /\ \A d \in Calls \ {c} : /\ InPlugin(d)' <=> InPlugin(d)
                                  /\ RefusedInPlugin(d)' <=> RefusedInPlugin(d)
        /\ InPlugin(c)' /\ (RefusedInPlugin(c)' => loopReply.body = "overloaded")
    BY <2>1, <2>2, <2>3, ReplyQueued DEF LaneNames
  <2>5. \A d \in Calls \ {c} : CallInv(d)'
    BY <1>1, <1>3, <1>7, <2>4, CallStays
  <2>6. ~InLoop(c)'
    BY <2>1 DEF InLoop
  <2>7. OnePlace(c)' /\ NotYetRun(c)'
    BY <1>1, <1>3, <2>3, <2>4, <2>6 DEF CallInv, OnePlace, NotYetRun
  <2>8. Unsent(c)'
    BY <1>1, <2>3 DEF CallInv, Unsent
  <2> QED
    BY <1>2, <1>6, <2>4, <2>5, <2>7, <2>8 DEF CallInv
<1> QED
    BY <1>8, <1>9

\* A request's task runs the operation, or refuses to, and delivers its reply.
LEMMA RequestTaskInv ==
    ASSUME ControlInv, NEW c \in Calls, Dispatched(c) \/ OpenRefused(c) \/ TaskReplies(c)
    PROVE  ControlInv'
<1> USE DEF ControlInv, TaskReplies
<1>1. /\ UNCHANGED <<callPhase, callOutcome, slot, pendingCalls, hostLanes, marking, hostReads, hostWrites>>
      /\ UNCHANGED <<server, loopReply>>
    BY DEF Dispatched, OpenRefused, ReplyDelivered, ReplyTimesOut, hostControl
<1>2. HostCallTypes' /\ HostLanesOK'
    BY <1>1, LanesStay DEF HostCallTypes
<1>3. \A d \in Calls : (InHost(d)' <=> InHost(d)) /\ (InLoop(d)' <=> InLoop(d))
    BY <1>1, PlacesStay
<1>4. deliveryFailed' \in BOOLEAN
    BY Zenon DEF Dispatched, OpenRefused, ReplyDelivered, ReplyTimesOut, PluginCallTypes
<1>5. /\ task[c] # "none" /\ ~InHost(c) /\ ~InLoop(c) /\ ~InPlugin(c) /\ ~Nowhere(c)
      /\ ~RefusedInPlugin(c)
      /\ task[c] = "dispatch" => ran[c] = 0
    BY DEF Dispatched, OpenRefused, ReplyDelivered, ReplyTimesOut, CallInv, OnePlace, NotYetRun,
       Nowhere, InPlugin, RefusedInPlugin
<1>6. /\ callPhase[c] \in {"waiting", "returned"}
      /\ slot[c] # "overloaded" /\ callOutcome[c] # "overloaded"
    BY <1>5 DEF CallInv, Unsent, HostCallTypes
<1>7. Unsent(c)'
    BY <1>1, <1>6 DEF CallInv, Unsent
<1>8. CASE Dispatched(c) \/ OpenRefused(c)
  <2>1. task[c] = "dispatch" /\ UNCHANGED <<pluginLanes, deliveryFailed>>
    BY <1>8 DEF Dispatched, OpenRefused
  <2>2. /\ task' \in [Calls -> {"none", "dispatch", "reply"}] /\ task'[c] = "reply"
        /\ taskBody' \in [Calls -> Bodies \cup {"none"}]
        /\ ran' \in [Calls -> 0..2]
        /\ \/ taskBody'[c] \in {"answer", "limit"} /\ ran'[c] = 1
           \/ taskBody'[c] = "overloaded" /\ ran'[c] = 0
        /\ \A d \in Calls \ {c} : task'[d] = task[d] /\ taskBody'[d] = taskBody[d] /\ ran'[d] = ran[d]
    <3>1. CASE Dispatched(c)
      BY <1>5, <3>1 DEF Dispatched, PluginCallTypes, Bodies
    <3>2. CASE OpenRefused(c)
      BY <1>5, <3>2 DEF OpenRefused, PluginCallTypes, Bodies
    <3> QED
      BY <1>8, <3>1, <3>2
  <2>3. PluginCallTypes'
    BY <1>1, <1>4, <2>2 DEF PluginCallTypes
  <2>4. PluginLanesOK' /\ \A d \in Calls : /\ InPlugin(d)' <=> InPlugin(d)
                                           /\ RefusedInPlugin(d)' <=> RefusedInPlugin(d)
    BY <2>1, LanesStay, PlacesStay
  <2>5. \A d \in Calls \ {c} : CallInv(d)'
    BY <1>1, <1>3, <2>2, <2>4, CallStays
  <2>6. OnePlace(c)' /\ NotYetRun(c)'
    BY <1>3, <1>5, <2>2, <2>4 DEF OnePlace, NotYetRun, Bodies
  <2> QED
    BY <1>2, <1>7, <2>3, <2>4, <2>5, <2>6 DEF CallInv
<1>9. CASE ReplyDelivered(c) \/ ReplyTimesOut(c)
  <2>1. /\ task[c] = "reply" /\ UNCHANGED ran
        /\ task' \in [Calls -> {"none", "dispatch", "reply"}] /\ task'[c] = "none"
        /\ taskBody' \in [Calls -> Bodies \cup {"none"}]
        /\ \A d \in Calls \ {c} : task'[d] = task[d] /\ taskBody'[d] = taskBody[d]
    BY <1>9 DEF ReplyDelivered, ReplyTimesOut, TaskOver, PluginCallTypes
  <2>2. PluginCallTypes'
    BY <1>1, <1>4, <2>1 DEF PluginCallTypes
  <2>3. CASE ReplyTimesOut(c)
    <3>1. PluginLanesOK' /\ \A d \in Calls : /\ InPlugin(d)' <=> InPlugin(d)
                                             /\ RefusedInPlugin(d)' <=> RefusedInPlugin(d)
      BY <2>3, LanesStay, PlacesStay DEF ReplyTimesOut
    <3>2. \A d \in Calls : CallInv(d)'
      BY <1>1, <1>3, <2>1, <3>1, CallStays
    <3> QED
      BY <1>2, <2>2, <3>1, <3>2
  <2>4. CASE ReplyDelivered(c)
    <3> DEFINE r == [call |-> c, body |-> taskBody[c]]
               l == ReplyLane(c)
    <3>1. taskBody[c] \in Bodies /\ (taskBody[c] = "overloaded" => ran[c] = 0)
      BY <2>1 DEF CallInv, NotYetRun
    <3>2. r \in Replies /\ r.call = c /\ r.body = taskBody[c] /\ l \in LaneNames
      BY <3>1 DEF Replies, ReplyLane, LaneOf, LaneNames
    <3>3. Len(pluginLanes[l]) < Lane /\ pluginLanes' = Queue(pluginLanes, l, r)
      BY <2>4 DEF ReplyDelivered, Room
    <3> HIDE DEF r, l
    <3>4. /\ PluginLanesOK'
          /\ \A d \in Calls \ {c} : /\ InPlugin(d)' <=> InPlugin(d)
                                    /\ RefusedInPlugin(d)' <=> RefusedInPlugin(d)
          /\ InPlugin(c)' /\ (RefusedInPlugin(c)' => taskBody[c] = "overloaded")
      BY <1>5, <3>2, <3>3, ReplyQueued
    <3>5. \A d \in Calls \ {c} : CallInv(d)'
      BY <1>1, <1>3, <2>1, <3>4, CallStays
    <3>6. OnePlace(c)' /\ NotYetRun(c)'
      BY <1>3, <1>5, <2>1, <3>1, <3>4 DEF CallInv, OnePlace, NotYetRun
    <3> QED
      BY <1>2, <1>7, <2>2, <3>4, <3>5, <3>6 DEF CallInv
  <2> QED
    BY <1>9, <2>3, <2>4
<1> QED
    BY <1>8, <1>9

\* The plugin closes, or dies.
LEMMA PluginEndsInv ==
    ASSUME ControlInv, ServerCloses \/ PluginCrashes
    PROVE  ControlInv'
<1> USE DEF ControlInv, ServerCloses
<1>1. /\ UNCHANGED <<callPhase, callOutcome, slot, pendingCalls, hostLanes, marking, hostReads, hostWrites>>
      /\ UNCHANGED <<ran, deliveryFailed>>
      /\ server' \in {"joined", "ended", "dead"}
      /\ UNCHANGED loopReply \/ loopReply' = NoReply
      /\ UNCHANGED pluginLanes \/ pluginLanes' = NoLanes
      /\ \/ UNCHANGED <<task, taskBody>>
         \/ task' = [c \in Calls |-> "none"] /\ taskBody' = [c \in Calls |-> "none"]
    BY DEF ServerJoins, ServerEnds, PluginCrashes, TasksGone, hostControl
<1>2. HostCallTypes' /\ HostLanesOK'
    BY <1>1, LanesStay DEF HostCallTypes
<1>3. PluginCallTypes'
    BY <1>1 DEF PluginCallTypes
<1>4. PluginLanesOK' /\ \A d \in Calls : /\ InPlugin(d)' => InPlugin(d)
                                         /\ RefusedInPlugin(d)' => RefusedInPlugin(d)
  <2>1. CASE UNCHANGED pluginLanes
    BY <2>1, LanesStay, PlacesStay
  <2>2. CASE pluginLanes' = NoLanes
    BY <2>2, NoLanesFacts, EmptyQueue, LimitsAssumption DEF PluginLanesOK, InPlugin, RefusedInPlugin,
       LaneNames
  <2> QED
    BY <1>1, <2>1, <2>2
<1>5. \A d \in Calls : (InHost(d)' <=> InHost(d)) /\ (InLoop(d)' => InLoop(d) /\ loopReply' = loopReply)
  <2>1. \A d \in Calls : InLoop(d)' => InLoop(d) /\ loopReply' = loopReply
    BY <1>1 DEF InLoop
  <2> QED
    BY <1>1, <2>1, PlacesStay
<1>6. \A d \in Calls : \/ task'[d] = task[d] /\ taskBody'[d] = taskBody[d]
                       \/ task'[d] = "none"
    BY <1>1
<1>7. \A d \in Calls : CallInv(d)'
    BY <1>1, <1>4, <1>5, <1>6, CallStays
<1> QED
    BY <1>2, <1>3, <1>4, <1>7

\* Every step of the control connection preserves its invariant.
LEMMA NextControlInv ==
    ASSUME ControlInv, ControlNext
    PROVE  ControlInv'
    BY CallStepsInv, HostTasksInv, ServerReadsInv, LoopInv, RequestTaskInv, PluginEndsInv
       DEF ControlNext, ServerLoop

\* A step that leaves the control connection alone preserves its invariant.
LEMMA ControlInvStays == ControlInv /\ UNCHANGED controlVars => ControlInv'
<1> SUFFICES ASSUME ControlInv, UNCHANGED controlVars PROVE ControlInv'
    OBVIOUS
<1> USE DEF controlVars, hostControl, pluginControl
<1>1. HostCallTypes' /\ PluginCallTypes'
    BY DEF ControlInv, HostCallTypes, PluginCallTypes
<1>2. HostLanesOK' /\ PluginLanesOK'
    BY LanesStay DEF ControlInv
<1>3. \A d \in Calls : CallInv(d)'
    BY PlacesStay, CallStays DEF ControlInv
<1> QED
    BY <1>1, <1>2, <1>3 DEF ControlInv

-----------------------------------------------------------------------------
(* File transfers through a plugin (PluginFiles).                          *)

\* The channel holds data frames, and at most one end frame, which is the last.
NoEof(q) == \A i \in 1..Len(q) : q[i] = "data"
EofLast(q) == Len(q) > 0 /\ q[Len(q)] = "eof" /\ \A i \in 1..(Len(q) - 1) : q[i] = "data"
Channels == {q \in Seq(Frames) : NoEof(q) \/ EofLast(q)}

\* How many data frames it holds.
Data(q) == IF NoEof(q) THEN Len(q) ELSE Len(q) - 1

\* The numbers of frames, all and data.
LEMMA ChannelCounts ==
    ASSUME NEW q \in Channels
    PROVE  /\ q \in Seq(Frames) /\ Len(q) \in Nat /\ Data(q) \in Nat
           /\ Len(q) <= Data(q) + 1 /\ Data(q) <= Len(q)
           /\ ~(NoEof(q) /\ EofLast(q)) /\ (NoEof(q) \/ EofLast(q))
<1>1. q \in Seq(Frames) /\ Len(q) \in Nat /\ (NoEof(q) \/ EofLast(q))
    BY LenProperties DEF Channels
<1>2. EofLast(q) => Len(q) > 0 /\ ~NoEof(q)
    BY <1>1 DEF EofLast, NoEof
<1> QED
    BY <1>1, <1>2 DEF Data

\* An empty channel.
LEMMA EmptyChannel == <<>> \in Channels /\ NoEof(<<>>) /\ Data(<<>>) = 0 /\ ~EofLast(<<>>)
    BY DEF Channels, NoEof, EofLast, Data

\* A data frame is written.
LEMMA DataWritten ==
    ASSUME NEW q \in Channels, NoEof(q)
    PROVE  Append(q, "data") \in Channels /\ NoEof(Append(q, "data"))
           /\ Data(Append(q, "data")) = Data(q) + 1
<1>1. q \in Seq(Frames) /\ Len(q) \in Nat /\ "data" \in Frames
    BY LenProperties DEF Channels, Frames
<1>2. /\ Append(q, "data") \in Seq(Frames) /\ Len(Append(q, "data")) = Len(q) + 1
      /\ \A i \in 1..Len(q) : Append(q, "data")[i] = q[i]
      /\ Append(q, "data")[Len(q) + 1] = "data"
    BY <1>1, AppendProperties
<1>3. NoEof(Append(q, "data"))
    BY <1>1, <1>2 DEF NoEof
<1> QED
    BY <1>2, <1>3 DEF Channels, Data

\* The end frame is written.
LEMMA EofWritten ==
    ASSUME NEW q \in Channels, NoEof(q)
    PROVE  Append(q, "eof") \in Channels /\ EofLast(Append(q, "eof"))
           /\ Data(Append(q, "eof")) = Data(q)
<1>1. q \in Seq(Frames) /\ Len(q) \in Nat /\ "eof" \in Frames
    BY LenProperties DEF Channels, Frames
<1>2. /\ Append(q, "eof") \in Seq(Frames) /\ Len(Append(q, "eof")) = Len(q) + 1
      /\ \A i \in 1..Len(q) : Append(q, "eof")[i] = q[i]
      /\ Append(q, "eof")[Len(q) + 1] = "eof"
    BY <1>1, AppendProperties
<1>3. EofLast(Append(q, "eof"))
    BY <1>1, <1>2 DEF NoEof, EofLast
<1>4. Append(q, "eof") \in Channels
    BY <1>2, <1>3 DEF Channels
<1> QED
    BY <1>2, <1>3, <1>4, ChannelCounts DEF Data

\* A frame is taken.
LEMMA FrameTaken ==
    ASSUME NEW q \in Channels, q # <<>>
    PROVE  /\ Head(q) \in {"data", "eof"} /\ Tail(q) \in Channels
           /\ Head(q) = "data" => /\ Data(Tail(q)) = Data(q) - 1 /\ Data(q) > 0
                                  /\ NoEof(Tail(q)) <=> NoEof(q)
           /\ Head(q) = "eof" => Tail(q) = <<>> /\ EofLast(q) /\ Data(q) = 0
<1>1. /\ Head(q) \in Frames /\ Tail(q) \in Seq(Frames) /\ Len(Tail(q)) = Len(q) - 1
      /\ Len(q) \in Nat \ {0} /\ Head(q) = q[1]
      /\ \A i \in 1..Len(Tail(q)) : Tail(q)[i] = q[i + 1]
    BY HeadTailProperties, LenProperties, EmptySeq DEF Channels
<1>2. CASE NoEof(q)
  <2>1. NoEof(Tail(q)) /\ Head(q) = "data"
    BY <1>1, <1>2 DEF NoEof
  <2> QED
    BY <1>1, <1>2, <2>1 DEF Channels, Data
<1>3. CASE EofLast(q) /\ Len(q) = 1
  <2>0. Len(Tail(q)) = 0
    BY <1>1, <1>3
  <2>1. Tail(q) = <<>> /\ Head(q) = "eof"
    BY <1>1, <1>3, <2>0, EmptySeq DEF EofLast
  <2> QED
    BY <1>1, <1>3, <2>1, EmptyChannel, ChannelCounts DEF Data, EofLast
<1>4. CASE EofLast(q) /\ Len(q) > 1
  <2>1. EofLast(Tail(q)) /\ Head(q) = "data"
    BY <1>1, <1>4 DEF EofLast
  <2>2. Tail(q) \in Channels
    BY <1>1, <2>1 DEF Channels
  <2> QED
    BY <1>1, <1>4, <2>1, <2>2, ChannelCounts DEF Data
<1> QED
    BY <1>1, <1>2, <1>3, <1>4 DEF Channels

\* The reply, the call and the result agree, and only a finished request has replied.
AnsweredOnce ==
    /\ xReply # "none" => xServe = "over"
    /\ xCall # "none" => xCall = xReply
    /\ xResult = "ok" => xPump = "ok" /\ xCall = "ok"

\* Nothing moves before the channel is open.
Unopened ==
    /\ xServe = "asked" => xPump \in {"waiting", "err"}
    /\ xPump = "waiting" => xServe # "serving"
    /\ xServe = "asked" \/ xPump = "waiting" => xFrames = <<>> /\ xSent = 0 /\ xGot = 0

\* No chunk comes from nowhere.
Counted ==
    /\ xGot + Data(xFrames) <= xSent /\ xSent <= xSize
    /\ xKind \in Writes => xSent <= xDeclared

\* A read: as long as the pump is at work nothing is lost; the end frame is the plugin's last.
ReadInv ==
    xKind \in Reads =>
      /\ xPump \in {"moving", "ok"} => xGot + Data(xFrames) = xSent
      /\ xServe = "serving" => NoEof(xFrames) /\ xPump # "ok"
      /\ xPump = "ok" => xFrames = <<>>
      /\ xReply = "ok" => xSent = xSize

\* A write: the end frame is the pump's last, and a reply Ok stored what was declared.
WriteInv ==
    xKind \in Writes =>
      /\ xPump = "moving" => NoEof(xFrames)
      /\ xReply = "ok" => xStored = xDeclared /\ xDeclared <= xSize

FileTypes ==
    /\ xKind \in Kinds /\ xSize \in 0..MaxChunks /\ xDeclared \in 0..MaxChunks
    /\ xCall \in {"none", "ok", "err"} /\ xReply \in {"none", "ok", "err"}
    /\ xResult \in {"none", "ok", "err"} /\ xLink \in {"open", "closed"}
    /\ xPump \in {"waiting", "moving", "ok", "err"}
    /\ xServe \in {"asked", "serving", "over"}
    /\ xFrames \in Channels
    /\ xSent \in 0..MaxChunks /\ xGot \in 0..MaxChunks
    /\ xStored \in 0..Untouched

FilesInv == FileTypes /\ AnsweredOnce /\ Unopened /\ Counted /\ ReadInv /\ WriteInv

\* The invariant implies the types the run checks, and that a transfer answered Ok is whole.
LEMMA FilesInvSuffices == FilesInv => FilesTypeOK /\ OkTransferIsWhole
<1> SUFFICES ASSUME FilesInv PROVE FilesTypeOK /\ OkTransferIsWhole
    OBVIOUS
<1>0. MaxChunks \in Nat
    BY FilesAssumption
<1>1. xFrames \in Seq(Frames) /\ Len(xFrames) <= MaxChunks + 1
    BY <1>0, ChannelCounts DEF FilesInv, FileTypes, Counted
<1>2. FilesTypeOK
    BY <1>0, <1>1, ShortSeq DEF FilesInv, FileTypes, FilesTypeOK
<1>3. OkTransferIsWhole
    BY <1>0, EmptyChannel
       DEF FilesInv, FileTypes, AnsweredOnce, Counted, ReadInv, WriteInv, OkTransferIsWhole, Kinds
<1> QED
    BY <1>2, <1>3

\* The initial state satisfies the invariant of a transfer.
LEMMA InitFilesInv == FilesInit => FilesInv
    BY FilesAssumption, EmptyChannel
       DEF FilesInit, FilesInv, FileTypes, AnsweredOnce, Unopened, Counted, ReadInv, WriteInv,
           Kinds, Untouched, Reads, Writes

\* Steps that move no chunk keep the invariant of a transfer.
LEMMA QuietFilesInv ==
    ASSUME FilesInv,
           \/ ServeOpens \/ ServeRefuses \/ ServeLimits \/ ReceiveBreaks \/ ServeWriteFails
           \/ PumpTimesOut \/ PumpBreaks \/ ReplyArrives \/ FileControlCloses
           \/ PluginDiesWithFile \/ TransferReturns \/ TransferFails
    PROVE  FilesInv'
<1>0. /\ FileTypes /\ MaxChunks \in Nat /\ Data(<<>>) = 0 /\ NoEof(<<>>)
      /\ AnsweredOnce /\ Unopened /\ Counted /\ ReadInv /\ WriteInv
    BY FilesAssumption, EmptyChannel DEF FilesInv
<1> USE DEF ServeOpens, ServeRefuses, ServeLimits, ReceiveBreaks, ServeWriteFails,
            PumpTimesOut, PumpBreaks, ReplyArrives, FileControlCloses,
            PluginDiesWithFile, TransferReturns, TransferFails, Replies_, PluginEnd, HostEnd,
            xRequest, JoinedOk
<1>1. UNCHANGED <<xKind, xSize, xDeclared, xFrames, xSent, xGot, xStored>>
    OBVIOUS
<1>2. FileTypes'
    BY <1>0 DEF FileTypes
<1>3. AnsweredOnce'
    BY <1>0 DEF AnsweredOnce, FileTypes
<1>4. Unopened'
    BY <1>0 DEF Unopened, FileTypes
<1>5. Counted'
    BY <1>0, <1>1 DEF Counted
<1>6. ReadInv'
    BY <1>0 DEF ReadInv, Unopened, FileTypes
<1>7. WriteInv'
    BY <1>0 DEF WriteInv, Unopened, FileTypes
<1> QED
    BY <1>2, <1>3, <1>4, <1>5, <1>6, <1>7 DEF FilesInv

\* The plugin's side of a read.
LEMMA SendFilesInv ==
    ASSUME FilesInv, send_file \/ ServeReadFails \/ ServeReadEnds
    PROVE  FilesInv'
<1>0. /\ FileTypes /\ MaxChunks \in Nat /\ xKind \in Reads /\ xKind \notin Writes
      /\ AnsweredOnce /\ Unopened /\ Counted /\ ReadInv /\ xServe = "serving"
      /\ Data(xFrames) \in Nat
    BY FilesAssumption, ChannelCounts
       DEF FilesInv, send_file, ServeReadFails, ServeReadEnds, PluginEnd, Reads, Writes, FileTypes
<1>1. UNCHANGED <<xKind, xSize, xDeclared, xCall, xLink, xPump, xGot, xStored, xResult>>
    BY DEF send_file, ServeReadFails, ServeReadEnds, xRequest
<1>2. \/ /\ xFrames' = Append(xFrames, "data") /\ xSent' = xSent + 1 /\ xSent < xSize
         /\ UNCHANGED <<xReply, xServe>>
      \/ /\ xFrames' = Append(xFrames, "eof") /\ xSent' = xSent /\ xServe' = "over"
         /\ xReply' = "err" \/ (xReply' = "ok" /\ xSent = xSize)
      \/ xFrames' = xFrames /\ xSent' = xSent /\ xServe' = "over" /\ xReply' = "err"
    BY DEF send_file, ServeReadFails, ServeReadEnds, Replies_
<1>3. /\ xFrames' \in Channels
      /\ Data(xFrames') \in {Data(xFrames), Data(xFrames) + 1}
      /\ Data(xFrames') - Data(xFrames) = xSent' - xSent /\ xSent' \in xSent..xSize
      /\ xServe' = "serving" => NoEof(xFrames')
  <2>0. xSent \in Nat /\ xSize \in Nat /\ xSent <= xSize /\ NoEof(xFrames) /\ xFrames \in Channels
    BY <1>0 DEF FileTypes, ReadInv, Counted
  <2>1. CASE xFrames' = Append(xFrames, "data") /\ xSent' = xSent + 1 /\ xSent < xSize
    BY <1>0, <2>0, <2>1, DataWritten
  <2>2. CASE xFrames' = Append(xFrames, "eof") /\ xSent' = xSent /\ xServe' = "over"
    BY <1>0, <2>0, <2>2, EofWritten
  <2>3. CASE xFrames' = xFrames /\ xSent' = xSent /\ xServe' = "over"
    BY <1>0, <2>0, <2>3
  <2> QED
    BY <1>2, <2>1, <2>2, <2>3
<1>4. FileTypes'
    BY <1>0, <1>1, <1>2, <1>3 DEF FileTypes
<1>5. AnsweredOnce'
    BY <1>0, <1>1, <1>2 DEF AnsweredOnce, FileTypes
<1>6. Unopened'
    BY <1>0, <1>1, <1>2 DEF Unopened
<1>7. Counted' /\ ReadInv' /\ WriteInv'
  <2>1. Counted'
    BY <1>0, <1>1, <1>3 DEF Counted, FileTypes
  <2>2. ReadInv'
    BY <1>0, <1>1, <1>2, <1>3 DEF ReadInv, FileTypes, AnsweredOnce
  <2> QED
    BY <1>0, <1>1, <2>1, <2>2 DEF WriteInv
<1> QED
    BY <1>4, <1>5, <1>6, <1>7 DEF FilesInv

\* The plugin's side of a write.
LEMMA ReceiveFilesInv == ASSUME FilesInv, receive_file \/ ReceiveEnds PROVE FilesInv'
<1>0. /\ FileTypes /\ MaxChunks \in Nat /\ xKind \in Writes /\ xKind \notin Reads
      /\ AnsweredOnce /\ Unopened /\ Counted /\ WriteInv /\ xServe = "serving"
      /\ Data(xFrames) \in Nat /\ xFrames # <<>> /\ xFrames \in Channels
    BY FilesAssumption, ChannelCounts
       DEF FilesInv, receive_file, ReceiveEnds, PluginEnd, Reads, Writes, FileTypes
<1>1. UNCHANGED <<xKind, xSize, xDeclared, xCall, xLink, xPump, xSent, xResult>>
    BY DEF receive_file, ReceiveEnds, xRequest
<1>2. /\ xFrames' = Tail(xFrames)
      /\ \/ /\ Head(xFrames) = "data" /\ xGot' = xGot + 1 /\ xGot < xDeclared
            /\ xStored' \in {xStored, xGot + 1} /\ UNCHANGED <<xReply, xServe>>
         \/ UNCHANGED <<xGot, xStored>> /\ xServe' = "over" /\ xReply' = "err"
         \/ /\ UNCHANGED xGot /\ xServe' = "over" /\ xReply' = "ok" /\ xGot = xDeclared
            /\ xStored' = xGot
    BY DEF receive_file, ReceiveEnds, Replies_
<1>3. /\ xFrames' \in Channels /\ Data(xFrames') \in Nat
      /\ Data(xFrames') <= Data(xFrames)
      /\ Head(xFrames) = "data" => Data(xFrames') = Data(xFrames) - 1
      /\ NoEof(xFrames) => NoEof(xFrames')
  <2>1. CASE Head(xFrames) = "data"
    BY <1>0, <1>2, <2>1, FrameTaken, ChannelCounts
  <2>2. CASE Head(xFrames) = "eof"
    <3>1. xFrames' = <<>>
      BY <1>0, <1>2, <2>2, FrameTaken
    <3>2. xFrames' \in Channels /\ NoEof(xFrames') /\ Data(xFrames') = 0
      BY <3>1, EmptyChannel
    <3> QED
      BY <1>0, <2>2, <3>2
  <2> QED
    BY <1>0, <2>1, <2>2, FrameTaken
<1>4. FileTypes'
    BY <1>0, <1>1, <1>2, <1>3 DEF FileTypes, Untouched
<1>5. AnsweredOnce'
    BY <1>0, <1>1, <1>2 DEF AnsweredOnce, FileTypes
<1>6. Unopened'
    BY <1>0, <1>1, <1>2 DEF Unopened
<1>7. Counted'
    BY <1>0, <1>1, <1>2, <1>3 DEF Counted, FileTypes
<1>8. WriteInv' /\ ReadInv'
    BY <1>0, <1>1, <1>2, <1>3 DEF WriteInv, ReadInv, Counted, AnsweredOnce, FileTypes
<1> QED
    BY <1>4, <1>5, <1>6, <1>7, <1>8 DEF FilesInv

\* The host's side of a read.
LEMMA PumpReadsFilesInv == ASSUME FilesInv, PumpReads PROVE FilesInv'
<1>0. /\ FileTypes /\ MaxChunks \in Nat /\ xKind \in Reads /\ xKind \notin Writes
      /\ AnsweredOnce /\ Unopened /\ Counted /\ ReadInv /\ xPump = "moving"
      /\ Data(xFrames) \in Nat /\ xFrames # <<>> /\ xFrames \in Channels
    BY FilesAssumption, ChannelCounts
       DEF FilesInv, PumpReads, HostEnd, Reads, Writes, FileTypes
<1>1. UNCHANGED <<xKind, xSize, xDeclared, xCall, xReply, xLink, xServe, xSent, xStored, xResult>>
    BY DEF PumpReads, xRequest
<1>2. /\ xFrames' = Tail(xFrames)
      /\ \/ Head(xFrames) = "eof" /\ xPump' = "ok" /\ UNCHANGED xGot
         \/ Head(xFrames) # "eof" /\ xGot' = xGot + 1 /\ UNCHANGED xPump
         \/ Head(xFrames) # "eof" /\ xPump' = "err" /\ UNCHANGED xGot
    BY DEF PumpReads
<1>3. /\ xFrames' \in Channels /\ Data(xFrames') \in Nat /\ Head(xFrames) \in {"data", "eof"}
      /\ Head(xFrames) = "data" => Data(xFrames') = Data(xFrames) - 1 /\ Data(xFrames) > 0
      /\ NoEof(xFrames) => NoEof(xFrames') /\ Head(xFrames) = "data"
      /\ Head(xFrames) = "eof" => xFrames' = <<>> /\ Data(xFrames) = 0 /\ Data(xFrames') = 0
    BY <1>0, <1>2, FrameTaken, ChannelCounts, EmptyChannel
<1>4. FileTypes'
    BY <1>0, <1>1, <1>2, <1>3 DEF FileTypes, Counted
<1>5. AnsweredOnce'
    BY <1>0, <1>1, <1>2 DEF AnsweredOnce, FileTypes
<1>6. Unopened'
    BY <1>0, <1>1, <1>2 DEF Unopened
<1>7. Counted'
    BY <1>0, <1>1, <1>2, <1>3 DEF Counted, FileTypes
<1>8. ReadInv'
    BY <1>0, <1>1, <1>2, <1>3 DEF ReadInv, FileTypes
<1>9. WriteInv'
    BY <1>0, <1>1 DEF WriteInv
<1> QED
    BY <1>4, <1>5, <1>6, <1>7, <1>8, <1>9 DEF FilesInv

\* The host's side of a write.
LEMMA PumpWritesFilesInv == ASSUME FilesInv, PumpWrites \/ PumpWriteEnds PROVE FilesInv'
<1>0. /\ FileTypes /\ MaxChunks \in Nat /\ xKind \in Writes /\ xKind \notin Reads
      /\ AnsweredOnce /\ Unopened /\ Counted /\ WriteInv /\ xPump = "moving"
      /\ Data(xFrames) \in Nat /\ xFrames \in Channels /\ NoEof(xFrames)
    BY FilesAssumption, ChannelCounts
       DEF FilesInv, PumpWrites, PumpWriteEnds, HostEnd, Reads, Writes, FileTypes, WriteInv
<1>1. UNCHANGED <<xKind, xSize, xDeclared, xCall, xReply, xLink, xServe, xGot, xStored, xResult>>
    BY DEF PumpWrites, PumpWriteEnds, xRequest
<1>2. \/ /\ xFrames' = Append(xFrames, "data") /\ xSent' = xSent + 1 /\ UNCHANGED xPump
         /\ xSent < xSize /\ xSent < xDeclared
      \/ xFrames' = Append(xFrames, "eof") /\ UNCHANGED xSent /\ xPump' = "ok"
      \/ UNCHANGED <<xFrames, xSent>> /\ xPump' = "err"
    BY <1>0 DEF PumpWrites, PumpWriteEnds, Lowest, FileTypes
<1>3. /\ xFrames' \in Channels /\ Data(xFrames') \in Nat
      /\ Data(xFrames') - Data(xFrames) = xSent' - xSent
      /\ xPump' = "moving" => NoEof(xFrames')
  <2>1. CASE xFrames' = Append(xFrames, "data") /\ xSent' = xSent + 1
    BY <1>0, <2>1, DataWritten DEF FileTypes
  <2>2. CASE xFrames' = Append(xFrames, "eof") /\ UNCHANGED xSent /\ xPump' = "ok"
    BY <1>0, <2>2, EofWritten DEF FileTypes
  <2>3. CASE UNCHANGED <<xFrames, xSent>> /\ xPump' = "err"
    BY <1>0, <2>3 DEF FileTypes
  <2> QED
    BY <1>2, <2>1, <2>2, <2>3
<1>4. FileTypes'
    BY <1>0, <1>1, <1>2, <1>3 DEF FileTypes, Counted
<1>5. AnsweredOnce'
    BY <1>0, <1>1, <1>2 DEF AnsweredOnce, FileTypes
<1>6. Unopened'
    BY <1>0, <1>1, <1>2 DEF Unopened
<1>7. Counted'
    BY <1>0, <1>1, <1>2, <1>3 DEF Counted, FileTypes
<1>8. WriteInv'
    BY <1>0, <1>1, <1>3 DEF WriteInv
<1>9. ReadInv'
    BY <1>0, <1>1 DEF ReadInv
<1> QED
    BY <1>4, <1>5, <1>6, <1>7, <1>8, <1>9 DEF FilesInv

\* Every step keeps the invariant of a transfer.
LEMMA NextFilesInv == FilesInv /\ FilesNext => FilesInv'
    BY QuietFilesInv, SendFilesInv, ReceiveFilesInv, PumpReadsFilesInv, PumpWritesFilesInv
       DEF FilesNext

\* A step that leaves the transfer alone preserves its invariant.
LEMMA FilesInvStays == FilesInv /\ UNCHANGED fileVars => FilesInv'
    BY DEF FilesInv, FileTypes, AnsweredOnce, Unopened, Counted, ReadInv, WriteInv, fileVars

-----------------------------------------------------------------------------
(* The events of a plugin's operations (PluginEvents).                     *)

\* The members of a queue that gets one more.
LEMMA AppendMembers ==
    ASSUME NEW S, NEW q \in Seq(S), NEW x \in S
    PROVE  /\ Append(q, x) \in Seq(S) /\ Len(Append(q, x)) = Len(q) + 1
           /\ InQueue(Append(q, x)) = InQueue(q) \cup {x}
<1>1. Append(q, x) \in Seq(S) /\ Len(Append(q, x)) = Len(q) + 1 /\ Len(q) \in Nat
      /\ \A i \in 1..Len(q) : Append(q, x)[i] = q[i]
      /\ Append(q, x)[Len(q) + 1] = x
    BY AppendProperties
<1>2. \A i : i \in 1..(Len(q) + 1) <=> i \in 1..Len(q) \/ i = Len(q) + 1
    BY <1>1
<1> QED
    BY <1>1, <1>2 DEF InQueue

\* The members of a queue whose first is taken.
LEMMA TailMembers ==
    ASSUME NEW S, NEW q \in Seq(S), q # <<>>
    PROVE  /\ Head(q) \in S /\ Tail(q) \in Seq(S) /\ Len(Tail(q)) = Len(q) - 1 /\ Len(q) > 0
           /\ InQueue(q) = InQueue(Tail(q)) \cup {Head(q)}
<1>1. /\ Head(q) \in S /\ Tail(q) \in Seq(S) /\ Len(Tail(q)) = Len(q) - 1 /\ Len(q) \in Nat \ {0}
      /\ \A i \in 1..Len(Tail(q)) : Tail(q)[i] = q[i + 1]
      /\ Head(q) = q[1]
    BY HeadTailProperties, LenProperties, EmptySeq
<1>2. \A i : i \in 1..Len(q) <=> i = 1 \/ (i - 1 \in 1..Len(Tail(q)) /\ i \in Nat)
    BY <1>1
<1>3. \A i \in 1..Len(q) : q[i] = Head(q) \/ q[i] \in InQueue(Tail(q))
    <2> SUFFICES ASSUME NEW i \in 1..Len(q), i # 1 PROVE q[i] \in InQueue(Tail(q))
        BY <1>1
    <2>1. i - 1 \in 1..Len(Tail(q)) /\ (i - 1) + 1 = i
        BY <1>1
    <2>2. Tail(q)[i - 1] = q[i]
        BY <1>1, <2>1
    <2> QED
        BY <2>1, <2>2 DEF InQueue
<1>4. \A i \in 1..Len(Tail(q)) : Tail(q)[i] \in InQueue(q)
    <2> TAKE i \in 1..Len(Tail(q))
    <2>1. i + 1 \in 1..Len(q) /\ Tail(q)[i] = q[i + 1]
        BY <1>1
    <2> QED
        BY <2>1 DEF InQueue
<1>5. Head(q) \in InQueue(q) /\ 1 \in 1..Len(q)
    BY <1>1 DEF InQueue
<1> QED
    BY <1>1, <1>3, <1>4, <1>5 DEF InQueue

\* The loss of an event is told.
Told == eventFailure \/ notices > 0 \/ undeliverable \/ linkClosed

\* One event at a time is with its observer; only an overflow sends a notice, and an overflow
\* is told.
EventsInv ==
    /\ EventsTypeOK
    /\ forwarding = {} \/ \E e \in PluginEvent : forwarding = {e}
    /\ notices > 0 => eventsFailed
    /\ eventsFailed => Told
    /\ EventsAreToldOrDelivered

EventFlags ==
    /\ fallback \in BOOLEAN
    /\ eventsFailed \in BOOLEAN /\ undeliverable \in BOOLEAN /\ eventTask \in BOOLEAN
    /\ eventFailure \in BOOLEAN /\ linkClosed \in BOOLEAN

\* The types, with queues as sequences and flags one by one.
EventTypes ==
    /\ eventOp \in [EventOps -> {"idle", "running", "over"}]
    /\ routes \subseteq EventOps
    /\ emitted \in [EventOps -> 0..MaxEvents]
    /\ eventLane \in Seq(PluginEvent) /\ Len(eventLane) <= EventLane
    /\ eventQueue \in Seq(PluginEvent) /\ Len(eventQueue) <= EventLane
    /\ notices \in 0..1
    /\ observed \subseteq PluginEvent
    /\ EventFlags

\* Five flags.
LEMMA FlagsAre ==
    ASSUME NEW a, NEW b, NEW c, NEW d, NEW e
    PROVE  {a, b, c, d, e} \subseteq BOOLEAN <=>
             a \in BOOLEAN /\ b \in BOOLEAN /\ c \in BOOLEAN /\ d \in BOOLEAN /\ e \in BOOLEAN
    BY Zenon

\* The type invariant says the same, given what is with the observer.
LEMMA EventTypesAre ==
    ASSUME forwarding = {} \/ \E e \in PluginEvent : forwarding = {e}
    PROVE  EventsTypeOK <=> EventTypes
<1>1. EventLane \in Nat
    BY EventsAssumption
<1>2. \A q : q \in Queued <=> q \in Seq(PluginEvent) /\ Len(q) <= EventLane
    BY <1>1, ShortSeq DEF Queued
<1>3. forwarding \subseteq PluginEvent /\ Cardinality(forwarding) <= 1
  <2>1. CASE forwarding = {}
    BY <2>1, FS_EmptySet
  <2>2. CASE \E e \in PluginEvent : forwarding = {e}
    BY <2>2, FS_Singleton
  <2> QED
    BY <2>1, <2>2
<1>4. {eventsFailed, undeliverable, eventTask, eventFailure, linkClosed} \subseteq BOOLEAN <=>
        eventsFailed \in BOOLEAN /\ undeliverable \in BOOLEAN /\ eventTask \in BOOLEAN
        /\ eventFailure \in BOOLEAN /\ linkClosed \in BOOLEAN
    BY FlagsAre, Zenon
<1> QED
    BY <1>2, <1>3, <1>4 DEF EventsTypeOK, EventTypes, EventFlags

\* The same in the next state.
LEMMA EventTypesAreNext ==
    ASSUME EventTypes', (forwarding = {} \/ \E e \in PluginEvent : forwarding = {e})'
    PROVE  EventsTypeOK'
<1>1. EventLane \in Nat
    BY EventsAssumption
<1>2. \A q : q \in Queued <=> q \in Seq(PluginEvent) /\ Len(q) <= EventLane
    BY <1>1, ShortSeq DEF Queued
<1>3. (forwarding \subseteq PluginEvent /\ Cardinality(forwarding) <= 1)'
  <2>1. CASE forwarding' = {}
    BY <2>1, FS_EmptySet
  <2>2. CASE \E e \in PluginEvent : forwarding' = {e}
    BY <2>2, FS_Singleton
  <2> QED
    BY <2>1, <2>2
<1>4. ({eventsFailed, undeliverable, eventTask, eventFailure, linkClosed} \subseteq BOOLEAN)'
    BY FlagsAre, Zenon DEF EventTypes, EventFlags
<1> QED
    BY <1>2, <1>3, <1>4 DEF EventsTypeOK, EventTypes, EventFlags

\* The initial state satisfies the invariant of events.
LEMMA InitEventsInv == EventsInit => EventsInv
<1> SUFFICES ASSUME EventsInit PROVE EventsInv
    OBVIOUS
<1> USE DEF EventsInit
<1>1. <<>> \in Seq(PluginEvent) /\ Len(<<>>) = 0
    OBVIOUS
<1>4. EventFlags
    BY Zenon DEF EventFlags
<1>2. EventTypes
    BY <1>1, <1>4, EventsAssumption DEF EventTypes
<1>3. AllEmitted = {}
    BY DEF AllEmitted, PluginEvent
<1> QED
    BY <1>2, <1>3, EventTypesAre DEF EventsInv, EventsAreToldOrDelivered

\* Operations, the fallback, notices and the end of the connection.
LEMMA HostEventsInv ==
    ASSUME EventsInv,
           \/ \E o \in EventOps : OperationStarts(o) \/ OperationReplies(o)
           \/ FallbackEvicted \/ NoticeRouted \/ LinkEnds
    PROVE  EventsInv'
<1>0. EventTypes
    BY EventTypesAre DEF EventsInv
<1>00. EventFlags
    BY <1>0 DEF EventTypes
<1>1. EventTypes'
  <2>1. ASSUME NEW o \in EventOps, OperationStarts(o) PROVE EventTypes'
    BY <1>0, <2>1 DEF EventTypes, OperationStarts, RegistersRoute, pluginEventVars, EventFlags
  <2>2. ASSUME NEW o \in EventOps, OperationReplies(o) PROVE EventTypes'
    BY <1>0, <2>2 DEF EventTypes, OperationReplies, pluginEventVars, EventFlags
  <2>3. CASE FallbackEvicted \/ NoticeRouted \/ LinkEnds
    <3>1. EventFlags'
      BY <1>00, <2>3, Zenon DEF EventFlags, FallbackEvicted, NoticeRouted, LinkEnds, pluginEventVars
    <3> QED
      BY <1>0, <2>3, <3>1 DEF EventTypes, FallbackEvicted, NoticeRouted, LinkEnds, pluginEventVars
  <2> QED
    BY <2>1, <2>2, <2>3
<1>2. /\ UNCHANGED <<emitted, eventLane, eventQueue, forwarding, observed, eventsFailed,
                     undeliverable>>
      /\ notices' \in {notices, notices - 1} /\ (Told => Told')
      /\ notices' > 0 => notices > 0
    BY <1>0 DEF OperationStarts, OperationReplies, FallbackEvicted, NoticeRouted, LinkEnds,
                pluginEventVars, Told, EventTypes, EventFlags
<1>3. EventsAreToldOrDelivered'
    BY <1>2 DEF EventsInv, EventsAreToldOrDelivered, Told, AllEmitted, UnderWay, InQueue
<1> QED
    BY <1>1, <1>2, <1>3, EventTypesAreNext DEF EventsInv

\* An event is emitted: it is queued, or its loss is told.
LEMMA ObserveEventsInv ==
    ASSUME EventsInv, NEW o \in EventOps, observe(o)
    PROVE  EventsInv'
<1> DEFINE e == <<o, emitted[o] + 1>>
<1>0. EventTypes /\ EventLane \in Nat /\ MaxEvents \in Nat
    BY EventTypesAre, EventsAssumption DEF EventsInv
<1>1. /\ UNCHANGED <<eventOp, routes, fallback, eventQueue, forwarding, eventTask, eventFailure,
                     linkClosed, observed>>
      /\ emitted' = [emitted EXCEPT ![o] = @ + 1] /\ emitted[o] < MaxEvents
    BY DEF observe, hostEventVars
<1>2. e \in PluginEvent /\ emitted' \in [EventOps -> 0..MaxEvents]
    BY <1>0, <1>1 DEF EventTypes, PluginEvent
<1>3. AllEmitted' \subseteq AllEmitted \cup {e}
    BY <1>0, <1>1 DEF AllEmitted, PluginEvent, EventTypes
<1>4. CASE eventsFailed
  <2>1. UNCHANGED pluginEventVars
    BY <1>4 DEF observe
  <2>2. EventTypes' /\ Told'
    BY <1>0, <1>1, <1>2, <1>4, <2>1 DEF EventTypes, pluginEventVars, EventsInv, Told, EventFlags
  <2> QED
    BY <1>1, <2>1, <2>2, EventTypesAreNext
       DEF EventsInv, pluginEventVars, EventsAreToldOrDelivered, Told
<1>5. CASE ~eventsFailed /\ Len(eventLane) < EventLane
  <2>1. eventLane' = Append(eventLane, e) /\ UNCHANGED <<notices, eventsFailed, undeliverable>>
    BY <1>5 DEF observe
  <2> HIDE DEF e
  <2>2. /\ eventLane' \in Seq(PluginEvent) /\ Len(eventLane') <= EventLane
        /\ InQueue(eventLane') = InQueue(eventLane) \cup {e}
    BY <1>0, <1>2, <1>5, <2>1, AppendMembers DEF EventTypes
  <2>3. EventTypes'
    BY <1>0, <1>1, <1>2, <2>1, <2>2 DEF EventTypes, EventFlags
  <2>4. UnderWay' = UnderWay \cup {e}
    BY <1>1, <2>2 DEF UnderWay
  <2> QED
    BY <1>1, <1>3, <2>1, <2>3, <2>4, EventTypesAreNext
       DEF EventsInv, EventsAreToldOrDelivered, Told
<1>6. CASE ~eventsFailed /\ ~(Len(eventLane) < EventLane)
  <2>1. Overflows
    BY <1>6 DEF observe
  <2>2. EventFlags'
    BY <1>0, <1>1, <2>1, Zenon DEF EventTypes, EventFlags, Overflows
  <2>3. EventTypes'
    BY <1>0, <1>1, <1>2, <1>6, <2>1, <2>2 DEF EventTypes, EventsInv, Overflows
  <2>4. Told' /\ eventsFailed'
    BY <1>0, <1>6, <2>1 DEF EventTypes, EventsInv, Told, Overflows
  <2> QED
    BY <1>1, <2>3, <2>4, EventTypesAreNext DEF EventsInv, EventsAreToldOrDelivered, Told
<1> QED
    BY <1>4, <1>5, <1>6

\* The client's reader hands an event on, or fails the subscription.
LEMMA RoutedEventsInv == ASSUME EventsInv, EventRouted PROVE EventsInv'
<1> DEFINE e == Head(eventLane)
<1>0. EventTypes /\ EventLane \in Nat
    BY EventTypesAre, EventsAssumption DEF EventsInv
<1>1. /\ UNCHANGED <<eventOp, emitted, notices, eventsFailed, undeliverable, routes, fallback,
                     forwarding, eventTask, linkClosed, observed>>
      /\ eventLane' = Tail(eventLane) /\ eventLane # <<>>
      /\ \/ /\ eventQueue' = Append(eventQueue, e) /\ UNCHANGED eventFailure
            /\ Len(eventQueue) < EventLane
         \/ eventFailure' = TRUE /\ UNCHANGED eventQueue
    BY DEF EventRouted, RouteEvent
<1>2. /\ e \in PluginEvent /\ eventLane' \in Seq(PluginEvent) /\ Len(eventLane') <= EventLane
      /\ InQueue(eventLane) = InQueue(eventLane') \cup {e}
    BY <1>0, <1>1, TailMembers DEF EventTypes
<1> HIDE DEF e
<1>3. CASE eventFailure' = TRUE /\ UNCHANGED eventQueue
  <2>1. EventTypes'
    BY <1>0, <1>1, <1>2, <1>3 DEF EventTypes, EventFlags
  <2> QED
    BY <1>1, <1>3, <2>1, EventTypesAreNext DEF EventsInv, EventsAreToldOrDelivered, Told
<1>4. CASE /\ eventQueue' = Append(eventQueue, e) /\ UNCHANGED eventFailure
           /\ Len(eventQueue) < EventLane
  <2>1. /\ eventQueue' \in Seq(PluginEvent) /\ Len(eventQueue') <= EventLane
        /\ InQueue(eventQueue') = InQueue(eventQueue) \cup {e}
    BY <1>0, <1>2, <1>4, AppendMembers DEF EventTypes
  <2>2. EventTypes'
    BY <1>0, <1>1, <1>2, <1>4, <2>1 DEF EventTypes, EventFlags
  <2>3. UnderWay' = UnderWay /\ AllEmitted' = AllEmitted
    BY <1>1, <1>2, <2>1 DEF UnderWay, AllEmitted
  <2> QED
    BY <1>1, <1>4, <2>2, <2>3, EventTypesAreNext DEF EventsInv, EventsAreToldOrDelivered, Told
<1> QED
    BY <1>1, <1>3, <1>4

\* The event task and its observer.
LEMMA TaskEventsInv ==
    ASSUME EventsInv, EventTaskTakes \/ EventForwarded \/ EventTimesOut
    PROVE  EventsInv'
<1>0. EventTypes /\ EventLane \in Nat
    BY EventTypesAre, EventsAssumption DEF EventsInv
<1>1. CASE EventTaskTakes
  <2> DEFINE e == Head(eventQueue)
  <2>1. /\ UNCHANGED <<eventOp, emitted, notices, eventsFailed, undeliverable, routes, fallback,
                       eventFailure, linkClosed, observed, eventLane>>
        /\ eventQueue' = Tail(eventQueue) /\ eventQueue # <<>>
        /\ forwarding = {}
    BY <1>1 DEF EventTaskTakes, pluginEventVars
  <2>7. IF eventFailure THEN forwarding' = {} ELSE forwarding' = {e}
    BY <1>1 DEF EventTaskTakes
  <2>6. EventFlags'
    BY <1>0, <1>1, Zenon DEF EventTypes, EventFlags, EventTaskTakes, pluginEventVars
  <2>2. /\ e \in PluginEvent /\ eventQueue' \in Seq(PluginEvent) /\ Len(eventQueue') <= EventLane
        /\ InQueue(eventQueue) = InQueue(eventQueue') \cup {e}
    BY <1>0, <2>1, TailMembers DEF EventTypes
  <2> HIDE DEF e
  <2>3. EventTypes'
    BY <1>0, <2>1, <2>2, <2>6 DEF EventTypes
  <2>4. AllEmitted' = AllEmitted
    BY <2>1 DEF AllEmitted
  <2>5. ~eventFailure => UnderWay' = UnderWay
    BY <2>1, <2>2, <2>7 DEF UnderWay
  <2> QED
    BY <2>1, <2>2, <2>3, <2>4, <2>5, <2>7, EventTypesAreNext
       DEF EventsInv, EventsAreToldOrDelivered, Told
<1>2. CASE EventForwarded
  <2>1. /\ UNCHANGED <<emitted, notices, eventsFailed, undeliverable,
                       eventFailure, linkClosed, eventLane, eventQueue>>
        /\ observed' = observed \cup forwarding /\ forwarding' = {}
    BY <1>2 DEF EventForwarded, pluginEventVars
  <2>2. EventTypes'
    BY <1>0, <1>2, <2>1 DEF EventTypes, EventForwarded, EventsInv, EventFlags
  <2>3. observed' \cup UnderWay' = observed \cup UnderWay /\ AllEmitted' = AllEmitted
    BY <2>1 DEF UnderWay, AllEmitted
  <2> QED
    BY <2>1, <2>2, <2>3, EventTypesAreNext DEF EventsInv, EventsAreToldOrDelivered, Told
<1>3. CASE EventTimesOut
  <2>1. EventTypes' /\ forwarding' = {} /\ eventFailure' = TRUE /\ UNCHANGED <<notices, eventsFailed>>
    BY <1>0, <1>3 DEF EventTypes, EventTimesOut, pluginEventVars, EventFlags
  <2> QED
    BY <2>1, EventTypesAreNext DEF EventsInv, EventsAreToldOrDelivered, Told
<1> QED
    BY <1>1, <1>2, <1>3

\* Every step keeps the invariant of events.
LEMMA NextEventsInv == EventsInv /\ EventsNext => EventsInv'
    BY HostEventsInv, ObserveEventsInv, RoutedEventsInv, TaskEventsInv DEF EventsNext

\* A step that leaves the events alone preserves their invariant.
LEMMA EventsInvStays == EventsInv /\ UNCHANGED eventVars => EventsInv'
    BY DEF EventsInv, EventsTypeOK, EventsAreToldOrDelivered, Told, AllEmitted, UnderWay, eventVars

-----------------------------------------------------------------------------
(* The sandbox handles of a plugin's server (PluginHandles).               *)

\* A call that names a sandbox has seen what the sandbox is now.
Watched(c) ==
    boxCall[c].id # NoBox =>
      /\ boxState[boxCall[c].id] # "none"
      /\ boxState[boxCall[c].id] = "up" => wasUp[c]
      /\ boxState[boxCall[c].id] # "up" => wasGone[c]

\* Where a call is says what it may be: which operation, with a sandbox or without.
Placed(c) ==
    LET call == boxCall[c] IN
      /\ boxAt[c] = "idle" => call = NoCall
      /\ boxAnswer[c] # "none" => boxAt[c] = "replied"
      /\ boxAt[c] \in {"attaching", "acting"} => call.op \in Bound /\ call.id # NoBox
      /\ boxAt[c] = "describing" => call.op \in Openers \cup {"fork"} /\ call.id # NoBox
      /\ boxAt[c] = "sent" /\ call.op \notin {"create"} \cup ServiceCalls => call.id # NoBox
      /\ boxAnswer[c] = "ok" /\ call.op \in Openers \cup Bound => call.id # NoBox

\* What is asked for was shown, and what was shown is offered.
Offered(c) ==
    /\ boxCall[c].op = "facet" => "facet" \in offers
    /\ boxCall[c].op \in ServiceCalls => boxCall[c].op \in offers

\* The answer fits (AnswersFitTheSandbox for one client).
Fits(c) ==
    /\ boxAnswer[c] = "not_found" => wasGone[c]
    /\ boxAnswer[c] = "ok" /\ boxCall[c].op \in Bound \cup Openers => wasUp[c]
    /\ boxAnswer[c] = "ok" /\ boxCall[c].op = "delete" => wasGone[c]
    /\ boxAnswer[c] # "unsupported"

ClientInv(c) == Watched(c) /\ Placed(c) /\ Offered(c) /\ Fits(c)

CallPlaces == {"idle", "sent", "attaching", "acting", "describing", "replied"}

CacheOK == cachedBoxes \subseteq Boxes /\ IsFiniteSet(cachedBoxes) /\ Cardinality(cachedBoxes) <= MaxCached

HandlesInv ==
    /\ HandlesTypeOK /\ CacheOK
    /\ \A s \in hostHandles : boxState[s] # "none"
    /\ \A c \in BoxClients : ClientInv(c)

\* The invariant implies what the run checks.
LEMMA HandlesInvSuffices == HandlesInv => HandlesTypeOK /\ AnswersFitTheSandbox
    BY DEF HandlesInv, ClientInv, Fits, AnswersFitTheSandbox

\* The initial state satisfies the invariant of handles.
LEMMA InitHandlesInv == HandlesInit => HandlesInv
<1> SUFFICES ASSUME HandlesInit PROVE HandlesInv
    OBVIOUS
<1>1. CacheOK
    BY FS_EmptySet, HandleCacheAssumption DEF HandlesInit, CacheOK
<1>2. HandlesTypeOK
    BY <1>1 DEF HandlesInit, HandlesTypeOK, CacheOK, BoxAnswers
<1>3. \A c \in BoxClients : ClientInv(c)
    BY DEF HandlesInit, ClientInv, Watched, Placed, Offered, Fits, NoCall, Bound, Openers, ServiceCalls
<1> QED
    BY <1>1, <1>2, <1>3 DEF HandlesInv, HandlesInit

\* Registry::insert_bounded keeps the cache within its limit.
LEMMA RemembersCacheOK ==
    ASSUME CacheOK, NEW s \in Boxes, Remembers(s)
    PROVE  CacheOK'
<1>1. MaxCached \in Nat \ {0} /\ Cardinality(cachedBoxes) \in Nat
    BY HandleCacheAssumption, FS_CardinalityType DEF CacheOK
<1>2. CASE s \notin cachedBoxes /\ Cardinality(cachedBoxes) >= MaxCached
  <2>1. PICK old \in cachedBoxes : cachedBoxes' = (cachedBoxes \ {old}) \cup {s}
    BY <1>2 DEF Remembers
  <2>2. IsFiniteSet(cachedBoxes \ {old}) /\ Cardinality(cachedBoxes \ {old}) = Cardinality(cachedBoxes) - 1
    BY FS_RemoveElement DEF CacheOK
  <2>3. IsFiniteSet(cachedBoxes') /\ Cardinality(cachedBoxes') = Cardinality(cachedBoxes \ {old}) + 1
    BY <1>2, <2>1, <2>2, FS_AddElement
  <2> QED
    BY <1>1, <2>1, <2>2, <2>3 DEF CacheOK
<1>3. CASE ~(s \notin cachedBoxes /\ Cardinality(cachedBoxes) >= MaxCached)
  <2>1. cachedBoxes' = cachedBoxes \cup {s}
    BY <1>3 DEF Remembers
  <2>2. IsFiniteSet(cachedBoxes')
        /\ Cardinality(cachedBoxes') = (IF s \in cachedBoxes THEN Cardinality(cachedBoxes) ELSE Cardinality(cachedBoxes) + 1)
    BY <2>1, FS_AddElement DEF CacheOK
  <2> QED
    BY <1>1, <1>3, <2>1, <2>2 DEF CacheOK
<1> QED
    BY <1>2, <1>3

\* A step of another client under which a client's sandbox is still watched.
LEMMA OtherClient ==
    ASSUME NEW d \in BoxClients, ClientInv(d), Watched(d)', offers' = offers,
           boxCall'[d] = boxCall[d], boxAt'[d] = boxAt[d], boxAnswer'[d] = boxAnswer[d],
           wasUp[d] => wasUp'[d], wasGone[d] => wasGone'[d]
    PROVE  ClientInv(d)'
<1>1. Placed(d)'
    BY DEF ClientInv, Placed
<1>2. Offered(d)'
    BY DEF ClientInv, Offered
<1>3. Fits(d)'
    BY DEF ClientInv, Fits
<1> QED
    BY <1>1, <1>2, <1>3 DEF ClientInv

\* One client moves or is answered while every sandbox stays what it is.
LEMMA ClientMoves ==
    ASSUME HandlesInv, NEW c \in BoxClients, StandsStill, CacheOK',
           UNCHANGED <<offers, shown, boxCall, hostHandles>>,
           NEW place \in CallPlaces, NEW answer \in BoxAnswers, boxAt' = [boxAt EXCEPT ![c] = place],
           boxAnswer' = [boxAnswer EXCEPT ![c] = answer],
           Placed(c)', Fits(c)'
    PROVE  HandlesInv'
<1>0. HandlesTypeOK'
    BY DEF HandlesInv, HandlesTypeOK, CacheOK, StandsStill, CallPlaces
<1>1. ASSUME NEW d \in BoxClients PROVE Watched(d)'
    BY DEF HandlesInv, ClientInv, Watched, StandsStill
<1>2. ASSUME NEW d \in BoxClients, d # c PROVE ClientInv(d)'
  <2>1. /\ offers' = offers /\ boxCall'[d] = boxCall[d] /\ boxAt'[d] = boxAt[d]
        /\ boxAnswer'[d] = boxAnswer[d]
        /\ wasUp[d] => wasUp'[d]
        /\ wasGone[d] => wasGone'[d]
    BY <1>2 DEF HandlesInv, HandlesTypeOK, StandsStill
  <2> QED
    BY <1>1, <1>2, <2>1, OtherClient DEF HandlesInv
<1>3. ClientInv(c)'
    BY <1>1 DEF HandlesInv, ClientInv, Offered
<1>4. (\A s \in hostHandles : boxState[s] # "none")'
    BY DEF HandlesInv, StandsStill
<1> QED
    BY <1>0, <1>2, <1>3, <1>4 DEF HandlesInv

\* The server finds the sandbox's handle or attaches anew.
LEMMA FindsHandlesInv ==
    ASSUME HandlesInv, NEW c \in BoxClients, Sandbox(c) \/ Reattached(c) \/ AttachServed(c)
    PROVE  HandlesInv'
<1>0. /\ ClientInv(c) /\ CacheOK /\ HandlesTypeOK /\ boxAnswer[c] = "none"
      /\ boxAt[c] \in CallPlaces /\ boxCall[c].id \in Boxes /\ boxCall[c].op \in Bound \cup Openers
    BY DEF HandlesInv, HandlesTypeOK, ClientInv, Placed, Sandbox, Reattached, AttachServed,
           CallPlaces, BoxCalls, NoCall, Bound, ServiceCalls, Openers
<1>1. StandsStill /\ UNCHANGED <<offers, shown, boxCall, hostHandles>>
    BY DEF Sandbox, Reattached, AttachServed
<1>2. CacheOK'
    BY <1>0, RemembersCacheOK DEF Sandbox, Reattached, AttachServed, CacheOK
<1>3. \/ \E place \in CallPlaces : /\ boxAt' = [boxAt EXCEPT ![c] = place] /\ boxAnswer' = boxAnswer
                                   /\ place \in {"attaching", "acting"} => boxCall[c].op \in Bound
                                   /\ place = "describing" => boxCall[c].op \in Openers
                                   /\ place \in {"attaching", "acting", "describing"}
      \/ AnswersCall(c, "not_found") /\ boxState[boxCall[c].id] # "up"
    BY <1>0 DEF Sandbox, Reattached, AttachServed, Moves, CallPlaces, ClientInv, Placed, Openers
<1>4. CASE AnswersCall(c, "not_found") /\ boxState[boxCall[c].id] # "up"
  <2>1. /\ boxAt' = [boxAt EXCEPT ![c] = "replied"] /\ boxAnswer' = [boxAnswer EXCEPT ![c] = "not_found"]
        /\ boxAt'[c] = "replied" /\ boxAnswer'[c] = "not_found"
    BY <1>0, <1>4 DEF AnswersCall, Moves, HandlesTypeOK
  <2>2. wasGone[c]
    BY <1>0, <1>4, NoBoxAssumption DEF ClientInv, Watched
  <2>3. Placed(c)' /\ Fits(c)'
    BY <1>0, <1>1, <2>1, <2>2 DEF Placed, Fits, StandsStill
  <2> QED
    BY <1>1, <1>2, <2>1, <2>3, ClientMoves DEF CallPlaces, BoxAnswers
<1>5. ASSUME NEW place \in CallPlaces, boxAt' = [boxAt EXCEPT ![c] = place], boxAnswer' = boxAnswer,
             place \in {"attaching", "acting"} => boxCall[c].op \in Bound,
             place = "describing" => boxCall[c].op \in Openers,
             place \in {"attaching", "acting", "describing"}
      PROVE  HandlesInv'
  <2>1. boxAnswer' = [boxAnswer EXCEPT ![c] = "none"] /\ boxAt'[c] = place /\ boxAnswer'[c] = "none"
    BY <1>0, <1>5 DEF HandlesTypeOK
  <2>2. Placed(c)' /\ Fits(c)'
    BY <1>0, <1>1, <1>5, <2>1, NoBoxAssumption DEF Placed, Fits, StandsStill
  <2> QED
    BY <1>1, <1>2, <1>5, <2>1, <2>2, ClientMoves DEF BoxAnswers
<1> QED
    BY <1>3, <1>4, <1>5

\* An answer that changes no sandbox, and fits.
LEMMA AnswerHandlesInv ==
    ASSUME HandlesInv, NEW c \in BoxClients, NEW answer \in BoxAnswers, AnswersCall(c, answer),
           StandsStill, UNCHANGED <<offers, cachedBoxes, shown, boxCall, hostHandles>>,
           boxAt[c] # "idle",
           answer = "not_found" => wasGone[c],
           answer = "ok" /\ boxCall[c].op \in Bound \cup Openers => wasUp[c] /\ boxCall[c].id # NoBox,
           answer = "ok" /\ boxCall[c].op = "delete" => wasGone[c],
           answer # "unsupported"
    PROVE  HandlesInv'
<1>1. /\ boxAt' = [boxAt EXCEPT ![c] = "replied"] /\ boxAnswer' = [boxAnswer EXCEPT ![c] = answer]
      /\ boxAt'[c] = "replied" /\ boxAnswer'[c] = answer
    BY DEF HandlesInv, AnswersCall, Moves, HandlesTypeOK
<1>2. Placed(c)' /\ Fits(c)' /\ CacheOK'
    BY <1>1 DEF Placed, Fits, StandsStill, HandlesInv, CacheOK
<1> QED
    BY <1>1, <1>2, ClientMoves DEF CallPlaces

\* Operations that run at the backend and are answered.
LEMMA ServedHandlesInv ==
    ASSUME HandlesInv, NEW c \in BoxClients,
           \/ StateServed(c) \/ FsServed(c) \/ FacetServed(c) \/ ServiceServed(c)
           \/ DescribeServed(c) \/ MakeFails(c)
    PROVE  HandlesInv'
<1>0. /\ ClientInv(c) /\ HandlesTypeOK
      /\ \A a \in {"ok", "failed", "not_found", "unsupported"} : a \in BoxAnswers
    BY DEF HandlesInv, BoxAnswers
<1>1. StandsStill /\ UNCHANGED <<offers, cachedBoxes, shown, boxCall, hostHandles>> /\ boxAt[c] # "idle"
    BY DEF StateServed, FsServed, FacetServed, ServiceServed, DescribeServed, MakeFails, BoundActs
<1>2. CASE boxAt[c] \in {"acting", "describing"}
  <2>1. /\ boxCall[c].id # NoBox
        /\ boxState[boxCall[c].id] = "up" => wasUp[c]
        /\ boxState[boxCall[c].id] # "up" => wasGone[c]
        /\ boxCall[c].op \in Bound \cup Openers /\ boxCall[c].op # "delete"
    BY <1>0, <1>2 DEF ClientInv, Watched, Placed, Bound, Openers
  <2>2. \E answer \in {"ok", "failed"} :
          AnswersCall(c, IF boxState[boxCall[c].id] = "up" THEN answer ELSE "not_found")
    <3>1. CASE StateServed(c) \/ FsServed(c) \/ DescribeServed(c)
      BY <3>1 DEF StateServed, FsServed, DescribeServed, BoundActs
    <3>2. CASE FacetServed(c)
      BY <1>0, <3>2 DEF FacetServed, BoundActs, ClientInv, Offered
    <3>3. CASE MakeFails(c)
      BY <1>0, <1>2, <2>1, <3>3 DEF MakeFails, ClientInv, Placed
    <3>4. ~ServiceServed(c)
      BY <1>2 DEF ServiceServed
    <3> QED
      BY <3>1, <3>2, <3>3, <3>4
  <2>3. PICK answer \in {"ok", "failed", "not_found"} :
          /\ AnswersCall(c, answer)
          /\ answer = "not_found" => boxState[boxCall[c].id] # "up"
          /\ answer = "ok" => boxState[boxCall[c].id] = "up"
    BY <2>2
  <2> QED
    BY <1>0, <1>1, <2>1, <2>3, AnswerHandlesInv
<1>3. CASE boxAt[c] = "sent"
  <2>1. boxCall[c].op \in ServiceCalls \cup {"create"}
    BY <1>3 DEF StateServed, FsServed, FacetServed, ServiceServed, DescribeServed, MakeFails, BoundActs
  <2>2. \E answer \in {"ok", "failed"} :
          AnswersCall(c, answer) /\ (answer = "ok" => boxCall[c].op \in ServiceCalls)
    BY <1>0, <1>3, <2>1
       DEF StateServed, FsServed, FacetServed, ServiceServed, DescribeServed, MakeFails, BoundActs,
           ClientInv, Offered, ServiceCalls
  <2> QED
    BY <1>0, <1>1, <2>2, AnswerHandlesInv DEF ServiceCalls, Bound, Openers
<1> QED
    BY <1>2, <1>3
       DEF StateServed, FsServed, FacetServed, ServiceServed, DescribeServed, MakeFails, BoundActs

\* A call is sent, for a sandbox that has existed or for none.
LEMMA SendsHandlesInv ==
    ASSUME HandlesInv, NEW c \in BoxClients, NEW op \in BoxOps, NEW s \in Boxes \cup {NoBox},
           Sends(c, op, s),
           s = NoBox => op \in {"create"} \cup ServiceCalls,
           s # NoBox => boxState[s] # "none",
           op \in {"facet"} \cup ServiceCalls => op \in offers
    PROVE  HandlesInv'
<1>0. HandlesTypeOK /\ ClientInv(c) /\ boxAt[c] = "idle" /\ boxAnswer[c] = "none"
    BY DEF HandlesInv, Sends, ClientInv, Placed, HandlesTypeOK
<1>1. /\ UNCHANGED <<boxState, offers, cachedBoxes, hostHandles, shown, boxAnswer>>
      /\ boxCall' = [boxCall EXCEPT ![c] = [op |-> op, id |-> s]]
      /\ boxAt' = [boxAt EXCEPT ![c] = "sent"]
      /\ wasUp' = [wasUp EXCEPT ![c] = s # NoBox /\ boxState[s] = "up"]
      /\ wasGone' = [wasGone EXCEPT ![c] = s # NoBox /\ boxState[s] # "up"]
    BY DEF Sends, Moves
<1>2. /\ boxCall'[c] = [op |-> op, id |-> s] /\ boxCall'[c].op = op /\ boxCall'[c].id = s
      /\ boxAt'[c] = "sent" /\ boxAnswer'[c] = "none"
      /\ [op |-> op, id |-> s] \in BoxCalls
    BY <1>0, <1>1 DEF HandlesTypeOK, BoxCalls
<1>3. HandlesTypeOK'
  <2>1. wasUp' \in [BoxClients -> BOOLEAN] /\ wasGone' \in [BoxClients -> BOOLEAN]
    BY <1>0, <1>1 DEF HandlesTypeOK
  <2> QED
    BY <1>0, <1>1, <1>2, <2>1 DEF HandlesTypeOK
<1>4. ClientInv(c)'
  <2>1. Watched(c)'
    BY <1>0, <1>1, <1>2 DEF Watched, HandlesTypeOK
  <2>2. Placed(c)'
    BY <1>2 DEF Placed
  <2>3. Offered(c)' /\ Fits(c)'
    BY <1>1, <1>2 DEF Offered, Fits
  <2> QED
    BY <2>1, <2>2, <2>3 DEF ClientInv
<1>5. ASSUME NEW d \in BoxClients, d # c PROVE ClientInv(d)'
  <2>1. /\ offers' = offers /\ boxCall'[d] = boxCall[d] /\ boxAt'[d] = boxAt[d]
        /\ boxAnswer'[d] = boxAnswer[d] /\ wasUp'[d] = wasUp[d] /\ wasGone'[d] = wasGone[d]
    BY <1>0, <1>1, <1>5 DEF HandlesTypeOK
  <2>2. ClientInv(d) /\ Watched(d)'
    BY <1>1, <2>1 DEF HandlesInv, ClientInv, Watched
  <2> QED
    BY <2>1, <2>2, OtherClient
<1> QED
    BY <1>1, <1>3, <1>4, <1>5 DEF HandlesInv, CacheOK

\* The host's handles and provider ask only of sandboxes they know, for what they were shown.
LEMMA AsksHandlesInv == ASSUME HandlesInv, NEW c \in BoxClients, HostAsks(c) PROVE HandlesInv'
<1>0. /\ shown \subseteq offers /\ hostHandles \subseteq Boxes
      /\ \A s \in hostHandles : boxState[s] # "none" /\ s # NoBox
    BY NoBoxAssumption DEF HandlesInv, HandlesTypeOK
<1>1. CASE ProviderAsks(c)
    BY <1>1, NoBoxAssumption, SendsHandlesInv DEF ProviderAsks, BoxOps, Openers, ServiceCalls
<1>2. CASE SnapshotAsks(c) \/ VolumeAsks(c)
    BY <1>0, <1>2, SendsHandlesInv DEF SnapshotAsks, VolumeAsks, BoxOps, ServiceCalls
<1>3. CASE HandleAsks(c) \/ HandleDeletes(c) \/ FsAsks(c)
    BY <1>0, <1>3, SendsHandlesInv
       DEF HandleAsks, HandleDeletes, FsAsks, BoxOps, Bound, ServiceCalls
<1>4. CASE AccessAsks(c) \/ GitAsks(c)
    BY <1>0, <1>4, SendsHandlesInv
       DEF AccessAsks, GitAsks, FacetShown, BoxOps, Bound, ServiceCalls
<1> QED
    BY <1>1, <1>2, <1>3, <1>4 DEF HostAsks

\* The caller takes its reply; a sandbox it opened has existed.
LEMMA TakesHandlesInv == ASSUME HandlesInv, NEW c \in BoxClients, HostTakes(c) PROVE HandlesInv'
<1>0. HandlesTypeOK /\ ClientInv(c)
    BY DEF HandlesInv
<1>1. /\ UNCHANGED <<boxState, offers, cachedBoxes, shown>>
      /\ boxCall' = [boxCall EXCEPT ![c] = NoCall] /\ boxAt' = [boxAt EXCEPT ![c] = "idle"]
      /\ boxAnswer' = [boxAnswer EXCEPT ![c] = "none"]
      /\ wasUp' = [wasUp EXCEPT ![c] = FALSE] /\ wasGone' = [wasGone EXCEPT ![c] = FALSE]
    BY DEF HostTakes
<1>2. /\ boxCall'[c] = NoCall /\ boxCall'[c].op = "none" /\ boxCall'[c].id = NoBox
      /\ boxAt'[c] = "idle" /\ boxAnswer'[c] = "none"
    BY <1>0, <1>1 DEF HandlesTypeOK, NoCall
<1>3. hostHandles' \subseteq Boxes /\ \A s \in hostHandles' : boxState[s] # "none"
  <2>1. hostHandles \subseteq Boxes /\ \A s \in hostHandles : boxState[s] # "none"
    BY DEF HandlesInv, HandlesTypeOK
  <2>2. CASE boxAnswer[c] = "ok" /\ boxCall[c].op \in Openers \cup {"fork"}
    <3>1. boxCall[c].id # NoBox
      BY <1>0, <2>2 DEF ClientInv, Placed, Bound
    <3>2. boxCall[c].id \in Boxes /\ boxState[boxCall[c].id] # "none"
      BY <1>0, <3>1 DEF ClientInv, Watched, HandlesTypeOK, BoxCalls, NoCall
    <3>3. hostHandles' = hostHandles \cup {boxCall[c].id}
      BY <2>2 DEF HostTakes, WrapsHandle
    <3> QED
      BY <2>1, <3>2, <3>3
  <2>3. CASE ~(boxAnswer[c] = "ok" /\ boxCall[c].op \in Openers \cup {"fork"})
    BY <2>1, <2>3 DEF HostTakes, WrapsHandle
  <2> QED
    BY <2>2, <2>3
<1>4. HandlesTypeOK'
  <2>1. wasUp' \in [BoxClients -> BOOLEAN] /\ wasGone' \in [BoxClients -> BOOLEAN]
    BY <1>0, <1>1 DEF HandlesTypeOK
  <2> QED
    BY <1>0, <1>1, <1>3, <2>1 DEF HandlesTypeOK, BoxAnswers
<1>5. ClientInv(c)'
    BY <1>2 DEF ClientInv, Watched, Placed, Offered, Fits, ServiceCalls, Bound, Openers
<1>6. ASSUME NEW d \in BoxClients, d # c PROVE ClientInv(d)'
  <2>1. /\ offers' = offers /\ boxCall'[d] = boxCall[d] /\ boxAt'[d] = boxAt[d]
        /\ boxAnswer'[d] = boxAnswer[d] /\ wasUp'[d] = wasUp[d] /\ wasGone'[d] = wasGone[d]
    BY <1>0, <1>1, <1>6 DEF HandlesTypeOK
  <2>2. ClientInv(d) /\ Watched(d)'
    BY <1>1, <2>1 DEF HandlesInv, ClientInv, Watched
  <2> QED
    BY <2>1, <2>2, OtherClient
<1> QED
    BY <1>1, <1>3, <1>4, <1>5, <1>6 DEF HandlesInv, CacheOK

\* A sandbox that existed changes its state: every call that names it sees it.
LEMMA BecomesWatched ==
    ASSUME HandlesInv, NEW s \in Boxes, NEW state \in {"up", "gone"}, BoxBecomes(s, state),
           UNCHANGED <<offers, boxCall>>
    PROVE  /\ boxState' \in [Boxes -> {"none", "up", "gone"}] /\ boxState'[s] = state
           /\ \A b \in Boxes : boxState[b] # "none" => boxState'[b] # "none"
           /\ wasUp' \in [BoxClients -> BOOLEAN] /\ wasGone' \in [BoxClients -> BOOLEAN]
           /\ \A d \in BoxClients : /\ Watched(d)'
                                    /\ wasUp[d] => wasUp'[d]
                                    /\ wasGone[d] => wasGone'[d]
<1>0. HandlesTypeOK /\ \A d \in BoxClients : Watched(d)
    BY DEF HandlesInv, ClientInv
<1>1. boxState' = [boxState EXCEPT ![s] = state] /\ Sees(boxState')
    BY DEF BoxBecomes
<1>2. /\ boxState' \in [Boxes -> {"none", "up", "gone"}] /\ boxState'[s] = state
      /\ \A b \in Boxes : boxState[b] # "none" => boxState'[b] # "none"
    BY <1>0, <1>1 DEF HandlesTypeOK
<1>3. wasUp' \in [BoxClients -> BOOLEAN] /\ wasGone' \in [BoxClients -> BOOLEAN]
    BY <1>1 DEF Sees
<1>4. ASSUME NEW d \in BoxClients PROVE Watched(d)' /\ (wasUp[d] => wasUp'[d]) /\ (wasGone[d] => wasGone'[d])
  <2>1. /\ wasUp'[d] <=> wasUp[d] \/ (boxCall[d].id # NoBox /\ boxState'[boxCall[d].id] = "up")
        /\ wasGone'[d] <=> wasGone[d] \/ (boxCall[d].id # NoBox /\ boxState'[boxCall[d].id] # "up")
    BY <1>1 DEF Sees
  <2>2. boxCall[d].id # NoBox => boxCall[d].id \in Boxes /\ boxState[boxCall[d].id] # "none"
    BY <1>0 DEF Watched, HandlesTypeOK, BoxCalls, NoCall
  <2> QED
    BY <1>2, <2>1, <2>2 DEF Watched
<1> QED
    BY <1>2, <1>3, <1>4

\* One client moves or is answered as its operation changes a sandbox.
LEMMA ClientChanges ==
    ASSUME HandlesInv, NEW c \in BoxClients, NEW s \in Boxes, NEW state \in {"up", "gone"},
           BoxBecomes(s, state), CacheOK', UNCHANGED <<offers, shown, boxCall, hostHandles>>,
           NEW place \in CallPlaces, NEW answer \in BoxAnswers,
           boxAt' = [boxAt EXCEPT ![c] = place], boxAnswer' = [boxAnswer EXCEPT ![c] = answer],
           Placed(c)', Fits(c)'
    PROVE  HandlesInv'
<1>1. /\ boxState' \in [Boxes -> {"none", "up", "gone"}]
      /\ \A b \in Boxes : boxState[b] # "none" => boxState'[b] # "none"
      /\ wasUp' \in [BoxClients -> BOOLEAN] /\ wasGone' \in [BoxClients -> BOOLEAN]
      /\ \A d \in BoxClients : /\ Watched(d)'
                               /\ wasUp[d] => wasUp'[d]
                               /\ wasGone[d] => wasGone'[d]
    BY BecomesWatched
<1>2. HandlesTypeOK'
    BY <1>1 DEF HandlesInv, HandlesTypeOK, CacheOK, CallPlaces
<1>3. ASSUME NEW d \in BoxClients, d # c PROVE ClientInv(d)'
  <2>1. boxAt'[d] = boxAt[d] /\ boxAnswer'[d] = boxAnswer[d] /\ boxCall'[d] = boxCall[d] /\ ClientInv(d)
    BY <1>3 DEF HandlesInv, HandlesTypeOK
  <2> QED
    BY <1>1, <2>1, OtherClient
<1>4. ClientInv(c)'
    BY <1>1 DEF HandlesInv, ClientInv, Offered
<1>5. (\A b \in hostHandles : boxState[b] # "none")'
    BY <1>1 DEF HandlesInv, HandlesTypeOK
<1> QED
    BY <1>2, <1>3, <1>4, <1>5 DEF HandlesInv

\* SANDBOX_UNDELETE.
LEMMA UndeleteHandlesInv == ASSUME HandlesInv, NEW c \in BoxClients, UndeleteServed(c) PROVE HandlesInv'
<1>0. /\ HandlesTypeOK /\ CacheOK /\ ClientInv(c) /\ boxAt[c] = "sent" /\ boxCall[c].op = "undelete"
      /\ boxAnswer[c] = "none" /\ boxCall[c].id \in Boxes /\ boxCall[c].id # NoBox
      /\ UNCHANGED <<offers, hostHandles, shown, boxCall>>
    BY DEF HandlesInv, UndeleteServed, ClientInv, Placed, ServiceCalls, HandlesTypeOK, BoxCalls, NoCall
<1>1. CASE AnswersCall(c, "failed") /\ StandsStill /\ UNCHANGED cachedBoxes
    BY <1>0, <1>1, AnswerHandlesInv DEF BoxAnswers
<1>2. CASE /\ BoxBecomes(boxCall[c].id, "up")
           /\ Remembers(boxCall[c].id) /\ Moves(c, "describing") /\ UNCHANGED boxAnswer
  <2>1. CacheOK'
    BY <1>0, <1>2, RemembersCacheOK
  <2>2. /\ boxAt' = [boxAt EXCEPT ![c] = "describing"] /\ boxAnswer' = [boxAnswer EXCEPT ![c] = "none"]
        /\ boxAt'[c] = "describing" /\ boxAnswer'[c] = "none"
    BY <1>0, <1>2 DEF Moves, HandlesTypeOK
  <2>3. Placed(c)' /\ Fits(c)'
    BY <1>0, <2>2 DEF Placed, Fits, Openers
  <2> QED
    BY <1>0, <1>2, <2>1, <2>2, <2>3, ClientChanges DEF CallPlaces, BoxAnswers
<1> QED
    BY <1>1, <1>2 DEF UndeleteServed

\* SANDBOX_DELETE.
LEMMA DeleteHandlesInv == ASSUME HandlesInv, NEW c \in BoxClients, DeleteServed(c) PROVE HandlesInv'
<1>0. /\ HandlesTypeOK /\ CacheOK /\ ClientInv(c) /\ boxAt[c] = "sent" /\ boxCall[c].op = "delete"
      /\ boxAnswer[c] = "none" /\ boxCall[c].id \in Boxes /\ boxCall[c].id # NoBox
      /\ UNCHANGED <<offers, hostHandles, shown, boxCall>>
    BY DEF HandlesInv, DeleteServed, ClientInv, Placed, ServiceCalls, HandlesTypeOK, BoxCalls, NoCall
<1>1. CASE AnswersCall(c, "failed") /\ StandsStill /\ UNCHANGED cachedBoxes
    BY <1>0, <1>1, AnswerHandlesInv DEF BoxAnswers
<1>2. CASE /\ BoxBecomes(boxCall[c].id, "gone")
           /\ cachedBoxes' = cachedBoxes \ {boxCall[c].id} /\ AnswersCall(c, "ok")
  <2>1. CacheOK'
    <3>1. IsFiniteSet(cachedBoxes') /\ Cardinality(cachedBoxes') <= Cardinality(cachedBoxes)
      BY <1>0, <1>2, FS_Subset DEF CacheOK
    <3>2. Cardinality(cachedBoxes) \in Nat /\ Cardinality(cachedBoxes') \in Nat /\ MaxCached \in Nat
      BY <1>0, <3>1, FS_CardinalityType, HandleCacheAssumption DEF CacheOK
    <3> QED
      BY <1>0, <1>2, <3>1, <3>2 DEF CacheOK
  <2>2. /\ boxAt' = [boxAt EXCEPT ![c] = "replied"] /\ boxAnswer' = [boxAnswer EXCEPT ![c] = "ok"]
        /\ boxAt'[c] = "replied" /\ boxAnswer'[c] = "ok"
    BY <1>0, <1>2 DEF Moves, AnswersCall, HandlesTypeOK
  <2>3. boxState'[boxCall[c].id] = "gone" /\ Watched(c)'
    BY <1>0, <1>2, BecomesWatched
  <2>4. Placed(c)' /\ Fits(c)'
    BY <1>0, <2>2, <2>3 DEF Placed, Fits, Openers, Bound, Watched
  <2> QED
    BY <1>0, <1>2, <2>1, <2>2, <2>4, ClientChanges DEF CallPlaces, BoxAnswers
<1> QED
    BY <1>1, <1>2 DEF DeleteServed

\* Another client of the backend deletes a sandbox.
LEMMA ElsewhereHandlesInv == ASSUME HandlesInv, NEW s \in Boxes, DeletedElsewhere(s) PROVE HandlesInv'
<1>0. /\ UNCHANGED <<offers, cachedBoxes, hostHandles, shown, boxCall, boxAt, boxAnswer>>
      /\ BoxBecomes(s, "gone")
    BY DEF DeletedElsewhere
<1>1. /\ boxState' \in [Boxes -> {"none", "up", "gone"}]
      /\ \A b \in Boxes : boxState[b] # "none" => boxState'[b] # "none"
      /\ wasUp' \in [BoxClients -> BOOLEAN] /\ wasGone' \in [BoxClients -> BOOLEAN]
      /\ \A d \in BoxClients : /\ Watched(d)'
                               /\ wasUp[d] => wasUp'[d]
                               /\ wasGone[d] => wasGone'[d]
    BY <1>0, BecomesWatched
<1>2. HandlesTypeOK'
    BY <1>0, <1>1 DEF HandlesInv, HandlesTypeOK
<1>3. ASSUME NEW d \in BoxClients PROVE ClientInv(d)'
    BY <1>0, <1>1, OtherClient DEF HandlesInv
<1>4. (\A b \in hostHandles : boxState[b] # "none")' /\ CacheOK'
    BY <1>0, <1>1 DEF HandlesInv, HandlesTypeOK, CacheOK
<1> QED
    BY <1>2, <1>3, <1>4 DEF HandlesInv

\* SANDBOX_CREATE and SANDBOX_FORK: nobody named the new sandbox before.
LEMMA MakesHandlesInv == ASSUME HandlesInv, NEW c \in BoxClients, Makes(c) PROVE HandlesInv'
<1>0. /\ HandlesTypeOK /\ CacheOK /\ ClientInv(c) /\ boxAnswer[c] = "none"
      /\ boxCall[c].op \in {"create", "fork"} /\ boxCall[c] \in BoxCalls
      /\ UNCHANGED <<offers, hostHandles, shown, boxAnswer>>
    BY DEF HandlesInv, Makes, ClientInv, Placed, HandlesTypeOK, NoCall
<1>1. PICK s \in Boxes :
         /\ boxState[s] = "none"
         /\ boxState' = [boxState EXCEPT ![s] = "up"]
         /\ boxCall' = [boxCall EXCEPT ![c].id = s]
         /\ wasUp' = [wasUp EXCEPT ![c] = TRUE] /\ wasGone' = [wasGone EXCEPT ![c] = FALSE]
         /\ Remembers(s)
    BY DEF Makes
<1>2. boxAt' = [boxAt EXCEPT ![c] = "describing"]
    BY DEF Makes, Moves
<1>3. CacheOK'
    BY <1>0, <1>1, RemembersCacheOK
<1>4. /\ boxCall'[c] = [boxCall[c] EXCEPT !.id = s] /\ boxCall'[c] \in BoxCalls
      /\ boxCall'[c].id = s /\ boxCall'[c].op = boxCall[c].op
      /\ boxCall' \in [BoxClients -> BoxCalls \cup {NoCall}]
      /\ \A d \in BoxClients : d # c => boxCall'[d] = boxCall[d]
    BY <1>0, <1>1 DEF HandlesTypeOK, BoxCalls
<1>5. /\ boxAt'[c] = "describing" /\ boxAnswer'[c] = "none" /\ boxState'[s] = "up" /\ wasUp'[c]
      /\ boxState' \in [Boxes -> {"none", "up", "gone"}]
    BY <1>0, <1>1, <1>2 DEF HandlesTypeOK
<1>6. HandlesTypeOK'
  <2>1. wasUp' \in [BoxClients -> BOOLEAN] /\ wasGone' \in [BoxClients -> BOOLEAN]
    BY <1>0, <1>1 DEF HandlesTypeOK
  <2> QED
    BY <1>0, <1>2, <1>3, <1>4, <1>5, <2>1 DEF HandlesTypeOK, CacheOK
<1>7. ClientInv(c)'
  <2>1. Watched(c)'
    BY <1>4, <1>5 DEF Watched
  <2>2. Placed(c)'
    BY <1>0, <1>4, <1>5, NoBoxAssumption DEF Placed, Openers
  <2>3. Offered(c)' /\ Fits(c)'
    BY <1>0, <1>4, <1>5 DEF Offered, Fits, ServiceCalls
  <2> QED
    BY <2>1, <2>2, <2>3 DEF ClientInv
<1>8. ASSUME NEW d \in BoxClients, d # c PROVE ClientInv(d)'
  <2>1. /\ boxCall'[d] = boxCall[d] /\ boxAt'[d] = boxAt[d] /\ boxAnswer'[d] = boxAnswer[d]
        /\ wasUp'[d] = wasUp[d] /\ wasGone'[d] = wasGone[d] /\ ClientInv(d)
    BY <1>0, <1>1, <1>2, <1>4, <1>8 DEF HandlesTypeOK, HandlesInv
  <2>2. boxCall[d].id # NoBox => boxCall[d].id # s /\ boxCall[d].id \in Boxes
    BY <1>0, <1>1, <2>1 DEF ClientInv, Watched, HandlesTypeOK, BoxCalls, NoCall
  <2>3. Watched(d)'
    BY <1>0, <1>1, <2>1, <2>2 DEF ClientInv, Watched, HandlesTypeOK
  <2> QED
    BY <1>0, <2>1, <2>3, OtherClient
<1>9. (\A b \in hostHandles : boxState[b] # "none")'
    BY <1>0, <1>1 DEF HandlesInv, HandlesTypeOK
<1> QED
    BY <1>3, <1>6, <1>7, <1>8, <1>9 DEF HandlesInv

\* Every step keeps the invariant of handles.
LEMMA NextHandlesInv == HandlesInv /\ HandlesNext => HandlesInv'
    BY AsksHandlesInv, TakesHandlesInv, FindsHandlesInv, ServedHandlesInv, UndeleteHandlesInv,
       DeleteHandlesInv, ElsewhereHandlesInv, MakesHandlesInv
       DEF HandlesNext, PluginServes

\* A step that leaves the handles alone preserves their invariant.
LEMMA HandlesInvStays == HandlesInv /\ UNCHANGED handleCacheVars => HandlesInv'
    BY DEF HandlesInv, HandlesTypeOK, CacheOK, ClientInv, Watched, Placed, Offered, Fits, handleCacheVars

-----------------------------------------------------------------------------
(* The composition.                                                        *)

\* Each component's invariant holds while it is the part.
StreamsInv ==
    /\ part \in {"race", "control", "files", "events", "handles"}
    /\ IInv
    /\ part = "control" => ControlInv
    /\ part = "files" => FilesInv
    /\ part = "events" => EventsInv
    /\ part = "handles" => HandlesInv

\* The initial state satisfies the invariant.
LEMMA InitStreamsInv == MCInit => StreamsInv
    BY InitIInv, InitControlInv, InitFilesInv, InitEventsInv, InitHandlesInv DEF MCInit, StreamsInv

\* A step that leaves a component alone preserves its invariant.
LEMMA StreamsStutter ==
    ASSUME StreamsInv, UNCHANGED mcVars
    PROVE  StreamsInv'
<1>1. IInv'
    BY NextIInv DEF StreamsInv, mcVars
<1>2. part = "control" => ControlInv'
    BY ControlInvStays DEF StreamsInv, mcVars
<1>3. part = "files" => FilesInv'
    BY FilesInvStays DEF StreamsInv, mcVars
<1>4. part = "events" => EventsInv'
    BY EventsInvStays DEF StreamsInv, mcVars
<1>5. part = "handles" => HandlesInv'
    BY HandlesInvStays DEF StreamsInv, mcVars
<1> QED
    BY <1>1, <1>2, <1>3, <1>4, <1>5 DEF StreamsInv, mcVars

\* Every step preserves the invariant of the part it belongs to.
LEMMA NextStreamsInv == StreamsInv /\ [MCNext]_mcVars => StreamsInv'
<1> SUFFICES ASSUME StreamsInv, [MCNext]_mcVars PROVE StreamsInv'
    OBVIOUS
<1>1. CASE OfRace(Next)
    BY <1>1, NextIInv DEF OfRace, StreamsInv
<1>2. CASE OfControl(ControlNext)
    BY <1>2, NextIInv, NextControlInv DEF OfControl, OfPlugin, StreamsInv
<1>3. CASE OfPlugin("files", FilesNext, <<controlVars, eventVars, handleCacheVars>>)
    BY <1>3, NextIInv, NextFilesInv DEF OfPlugin, StreamsInv
<1>4. CASE OfPlugin("events", EventsNext, <<controlVars, fileVars, handleCacheVars>>)
    BY <1>4, NextIInv, NextEventsInv DEF OfPlugin, StreamsInv
<1>5. CASE OfPlugin("handles", HandlesNext, <<controlVars, fileVars, eventVars>>)
    BY <1>5, NextIInv, NextHandlesInv DEF OfPlugin, StreamsInv
<1>6. CASE UNCHANGED mcVars
    BY <1>6, StreamsStutter
<1> QED
    BY <1>1, <1>2, <1>3, <1>4, <1>5, <1>6 DEF MCNext

\* The invariant of every component is kept by every behaviour.
THEOREM StreamsInvariance == MCSpec => []StreamsInv
<1>1. MCSpec => MCInit /\ [][MCNext]_mcVars
    BY PTL DEF MCSpec
<1> QED
    BY <1>1, InitStreamsInv, NextStreamsInv, PTL

\* An answer of the plugin means what it says (client/mod.rs, server/mod.rs, channel.rs): a
\* request answered Overloaded never ran, so cleanup_call and send_stop repeat no effect; a
\* transfer that reports success moved the whole file; and an answer about a sandbox fits it.
THEOREM AnswersHold == MCSpec => []AnswersMeanWhatTheySay
<1>1. StreamsInv => AnswersMeanWhatTheySay
  <2> SUFFICES ASSUME StreamsInv PROVE AnswersMeanWhatTheySay
    OBVIOUS
  <2>1. TypeOK
    BY DEF StreamsInv, IInv
  <2>2. part = "control" => ControlTypeOK /\ OverloadedNeverRan
    BY ControlInvSuffices DEF StreamsInv
  <2>3. part = "files" => FilesTypeOK /\ OkTransferIsWhole
    BY FilesInvSuffices DEF StreamsInv
  <2>4. part = "handles" => HandlesTypeOK /\ AnswersFitTheSandbox
    BY HandlesInvSuffices DEF StreamsInv
  <2> QED
    BY <2>1, <2>2, <2>3, <2>4 DEF StreamsInv, AnswersMeanWhatTheySay
<1> QED
    BY <1>1, StreamsInvariance, PTL

\* The events of a plugin's operation reach its observer, or the observer is told that some
\* were dropped (client/events.rs), whatever the capacity of the event lane and of the
\* context cache.
THEOREM EventsHold == MCSpec => []EventsAreTold
<1>1. StreamsInv => EventsAreTold
    BY DEF StreamsInv, EventsInv, EventsAreTold
<1> QED
    BY <1>1, StreamsInvariance, PTL
=============================================================================
