----------------------------- MODULE StopLadder -----------------------------
(***************************************************************************)
(* run_with_stop_grace (sandbox-driver, grace.rs): the TERM, grace, KILL   *)
(* ladder between the caller's stop tokens and the raw tokens of the stop  *)
(* race a provider runs.  DrainStops and HostExec extend it, each with its *)
(* own race.  Without a grace the race has the caller's tokens and the     *)
(* timeout itself.                                                         *)
(***************************************************************************)

VARIABLES
    spec,     \* ExecSpec: whether it has a timeout, whether a stop_grace
    caller,   \* the ExecControls tokens the caller has fired
    elapsed,  \* the timers of this call that have run out
    ladder,   \* where `drive` stands
    cause,    \* Cause, "none" until the ladder starts
    inner     \* the raw tokens the ladder has fired

ladderVars == <<spec, caller, elapsed, ladder, cause, inner>>

Tokens == {"term", "kill"}

LadderTypeOK ==
    /\ spec \in [timeout : BOOLEAN, grace : BOOLEAN]
    /\ caller \subseteq Tokens
    /\ elapsed \subseteq {"timeout", "grace"}
    /\ ladder \in {"watching", "termed", "spent"}
    /\ cause \in {"none", "TimedOut", "Stopped"}
    /\ inner \subseteq Tokens

LadderInit ==
    /\ spec \in [timeout : BOOLEAN, grace : BOOLEAN]
    /\ caller = {}
    /\ elapsed = {}
    /\ ladder = "watching"
    /\ cause = "none"
    /\ inner = {}

(* The caller and the clock.                                                *)

FireToken(t) ==
    /\ t \notin caller
    /\ caller' = caller \cup {t}
    /\ UNCHANGED <<spec, elapsed, ladder, cause, inner>>

TimeoutElapses ==
    /\ spec.timeout
    /\ "timeout" \notin elapsed
    /\ elapsed' = elapsed \cup {"timeout"}
    /\ UNCHANGED <<spec, caller, ladder, cause, inner>>

\* The grace is counted from the TERM.
GraceElapses ==
    /\ ladder = "termed"
    /\ "grace" \notin elapsed
    /\ elapsed' = elapsed \cup {"grace"}
    /\ UNCHANGED <<spec, caller, ladder, cause, inner>>

(* Mutated forms of the ladder's steps, for the sensitivity runs.           *)

\* The cause recorded when the ladder finishes rather than when it starts.
LadderTermSilent(why) ==
    /\ spec.grace
    /\ ladder = "watching"
    /\ \/ why = "TimedOut" /\ "timeout" \in elapsed
       \/ why = "Stopped" /\ "term" \in caller
    /\ inner' = inner \cup {"term"}
    /\ ladder' = "termed"
    /\ UNCHANGED <<spec, caller, elapsed, cause>>

\* A ladder whose second wait is only for the caller.
LadderEscalateOnKill ==
    /\ ladder = "termed"
    /\ "kill" \in caller
    /\ inner' = inner \cup {"kill"}
    /\ ladder' = "spent"
    /\ UNCHANGED <<spec, caller, elapsed, cause>>

(* The ladder.                                                              *)

\* The first select of `drive`, unbiased: of the events that are ready any
\* one may win.
LadderTerm(why) ==
    /\ spec.grace
    /\ ladder = "watching"
    /\ \/ why = "TimedOut" /\ "timeout" \in elapsed
       \/ why = "Stopped" /\ "term" \in caller
    /\ cause' = why
    /\ inner' = inner \cup {"term"}
    /\ ladder' = "termed"
    /\ UNCHANGED <<spec, caller, elapsed>>

LadderKillAtOnce ==
    /\ spec.grace
    /\ ladder = "watching"
    /\ "kill" \in caller
    /\ cause' = "Stopped"
    /\ inner' = inner \cup {"kill"}
    /\ ladder' = "spent"
    /\ UNCHANGED <<spec, caller, elapsed>>

LadderEscalate ==
    /\ ladder = "termed"
    /\ "grace" \in elapsed \/ "kill" \in caller
    /\ inner' = inner \cup {"kill"}
    /\ ladder' = "spent"
    /\ UNCHANGED <<spec, caller, elapsed, cause>>

LadderStep ==
    \/ \E why \in {"TimedOut", "Stopped"} : LadderTerm(why)
    \/ LadderKillAtOnce
    \/ LadderEscalate

(* What the race under the ladder sees, and what is made of its result.     *)

RawTerm == "term" \in IF spec.grace THEN inner ELSE caller
RawKill == "kill" \in IF spec.grace THEN inner ELSE caller
RawTimeout == ~ spec.grace /\ "timeout" \in elapsed

\* Mutated: the ladder's cause reported as it stands.
ReportedCause(termination) ==
    IF spec.grace /\ cause # "none" /\ termination \in {"Cancelled", "Killed"}
    THEN cause
    ELSE termination

Reported(termination) ==
    IF spec.grace /\ cause = "TimedOut" /\ termination \in {"Cancelled", "Killed"}
    THEN "TimedOut"
    ELSE termination

\* The ladder moves only for a reason, and remembers which: what the races
\* rest on when they report why they stopped.
LadderKnowsWhy ==
    /\ inner # {} => cause # "none"
    /\ cause # "none" => spec.grace
    /\ cause = "TimedOut" => "timeout" \in elapsed
    /\ cause = "Stopped" => caller # {}
    /\ cause = "Stopped" /\ "term" \in inner => "term" \in caller
    /\ ladder = "watching" => cause = "none"
    /\ ladder = "termed" => cause # "none"
=============================================================================
