------------------------------ MODULE GitRetry ------------------------------
(***************************************************************************)
(* retry_git (sandbox-driver/src/git_retry.rs): a git operation attempted  *)
(* again while its failure is worth another try, its budget of attempts    *)
(* lasts and its deadline leaves room for the wait.  The operation runs in *)
(* this process, or in a plugin, possibly of another version, from which   *)
(* its failure crosses the wire (WireErrors).                              *)
(*                                                                         *)
(* Time is counted in ticks.  The operation is told how long it may take   *)
(* and ends its command then, a tick late at most; a sleep may overshoot   *)
(* by a tick.                                                              *)
(***************************************************************************)
EXTENDS WireErrors, Integers

CONSTANTS
    MaxAttempts,      \* largest max_attempts of a policy
    Horizon,          \* REPLICATION_HORIZON, in ticks
    DurationMax       \* the longest delay a Duration can hold

ASSUME RetryAssumption == /\ MaxAttempts \in Nat /\ Horizon \in Nat
                          /\ DurationMax \in Nat \ {0}

\* The delays' powers are natural numbers: a fact of arithmetic, named for the proofs that use it.
ASSUME PowersAssumption == \A f \in {1, 3}, n \in 0..MaxAttempts : f ^ n \in Nat

Absent == -1            \* an absent duration
Never == -2           \* credentials without a mint time, or no credentials

VARIABLES
    policy,     \* GitRetryPolicy: max_attempts, factor, max, max_elapsed, per_attempt_timeout
    minted,     \* when the credentials were minted, Never when static
    peer,       \* "local", "plugin", or "skewed": a plugin of another version
    now,        \* the clock, 0 at the start of the call
    stage,      \* where the loop is
    allowed,    \* the timeout the running attempt was given
    began,      \* when it began
    raised,     \* the failure of the last attempt where it happened
    wire,       \* and as the answer that carries it to the host
    attempts,   \* the report: one record per finished attempt
    wakes,      \* when the sleep before the next attempt is due
    failures,   \* ghost: the failures the caller of an attempt observed
    reported     \* what retry_git returned

retryVars == <<policy, minted, peer, now, stage, allowed, began, raised, wire,
               attempts, wakes, failures, reported>>

Elapses == {Absent, 0, 3}

RetryInit ==
    /\ policy \in [max_attempts : {0, 1, MaxAttempts}, factor : {1, 3}, max : {2},
                   max_elapsed : Elapses, per_attempt_timeout : {Absent, 1}]
    /\ minted \in {Never, -1, 2}
    /\ peer \in {"local", "plugin", "skewed"}
    /\ now = 0 /\ stage = "looping" /\ allowed = Absent /\ began = 0
    /\ raised = NoValue /\ wire = NoValue
    /\ attempts = <<>> /\ wakes = 0 /\ failures = <<>>
    /\ reported = [how |-> "none", error |-> NoValue]

----------------------------------------------------------------------------
(* The policy.                                                             *)

deadline == policy.max_elapsed
Remaining == IF now >= deadline THEN 0 ELSE deadline - now

\* The tighter of the attempt's own cap and what the deadline leaves.
attempt_timeout ==
    IF deadline = Absent THEN policy.per_attempt_timeout
    ELSE IF policy.per_attempt_timeout = Absent THEN Remaining
    ELSE MinOf(policy.per_attempt_timeout, Remaining)

\* initial is one tick.  The product is formed before the cap is applied, and
\* a product no Duration can hold panics.
RawDelay(attempt) == policy.factor ^ (attempt - 1)
delay_after(attempt) == MinOf(RawDelay(attempt), policy.max)

retry_delay(attempt) ==
    IF deadline # Absent /\ delay_after(attempt) >= Remaining THEN Absent
    ELSE delay_after(attempt)

CredentialAge ==
    IF minted = Never THEN "static"
    ELSE IF minted > now \/ now - minted < Horizon THEN "fresh" ELSE "mature"

decide(kind, age) ==
    CASE kind = "remote_unavailable" -> "transient_infra"
      [] kind = "auth_rejected" /\ age = "fresh" -> "token_replication"
      [] kind = "auth_rejected" /\ age = "mature" -> "transient_infra"
      [] OTHER -> "none"

\* Mutant: the class alone decides, however the command ended.
retry_reason_by_class(e) ==
    CASE e.kind = "git" -> decide(e.fields.git.kind, CredentialAge)
      [] e.kind \in {"rate_limited", "overloaded"} -> "transient_infra"
      [] OTHER -> "none"

\* A command that was stopped rather than ending by itself is never retried.
retry_reason(e) ==
    CASE e.kind = "git" ->
             LET output == e.fields.git.exec
             IN  IF output.present /\ output.value.termination # "exited"
                 THEN "none"
                 ELSE decide(e.fields.git.kind, CredentialAge)
      [] e.kind \in {"rate_limited", "overloaded"} -> "transient_infra"
      [] OTHER -> "none"
----------------------------------------------------------------------------
(* The failures an attempt meets where it runs.                            *)

\* A command's output names at most one hint here; from_message picks among more.
Said == {{}, {"remote_unavailable"}, {"auth_rejected"}, {"ref_not_found"},
         {"auth_rejected", "remote_unavailable"}}

CommandFailures ==
    {from_command(ExecFailure(t, IF t = "exited" THEN c ELSE Absent), stderr, {}) :
        t \in {"exited", "timed_out", "killed"}, c \in {1, 127}, stderr \in Said}

ProviderFailures ==
    {from_provider(ProviderError("code", r), message) :
        r \in BOOLEAN, message \in {{}, {"auth_rejected"}}}

OtherFailures ==
    {PlainError(k) : k \in {"rate_limited", "overloaded", "timeout", "io"}}
    \cup {Error("exec", [exec |-> ExecFailure("killed", Absent)], 0)}

Failures == CommandFailures \cup ProviderFailures \cup OtherFailures

\* The commands a timeout stopped: the only ones when the attempt ran into it.
StoppedFailures ==
    {e \in CommandFailures : e.fields.git.exec.value.termination = "timed_out"}

\* A plugin of another version may name what this host does not know, and may
\* not say whether an operation it turned away had started.
Skewed(w) ==
    LET data == w.data.value
    IN  {w}
        \cup (IF data.report.kind = "git"
              THEN {[w EXCEPT !.data.value.detail.git.kind = "future"]} ELSE {})
        \cup (IF data.report.kind = "overloaded"
              THEN {[w EXCEPT !.data.value.detail =
                         [limit |-> data.detail.limit, not_started |-> FALSE]]}
              ELSE {})
        \cup {[w EXCEPT !.data.value.report.kind = "future"]}

Crossings(e) ==
    LET w == into_wire([kind |-> "app", error |-> e])
    IN  IF peer = "skewed" THEN Skewed(w) ELSE {w}

Seen == IF peer = "local" THEN raised.value ELSE into_error(wire.value)
----------------------------------------------------------------------------
(* The loop.                                                               *)

max_attempts == IF policy.max_attempts = 0 THEN 1 ELSE policy.max_attempts
Attempt == Len(attempts) + 1

Finished(reason, failure) ==
    Append(attempts, [retry_reason |-> reason, failure |-> failure])

Returned(how, error) == [how |-> how, error |-> error]

\* The deadline left nothing: the loop ends before another attempt.
AttemptRefused ==
    /\ stage = "looping" /\ attempt_timeout = 0
    /\ stage' = "done" /\ reported' = Returned("error", Some(PlainError("timeout")))
    /\ UNCHANGED <<policy, minted, peer, now, allowed, began, raised, wire,
                   attempts, wakes, failures>>

AttemptBegins ==
    /\ stage = "looping" /\ attempt_timeout # 0
    /\ allowed' = attempt_timeout /\ began' = now /\ stage' = "running"
    /\ UNCHANGED <<policy, minted, peer, now, raised, wire, attempts, wakes,
                   failures, reported>>

AttemptSucceeds ==
    /\ stage = "running"
    /\ \E took \in 0..1 :
          /\ allowed # Absent => took <= allowed
          /\ now' = now + took
    /\ attempts' = Finished("none", NoValue)
    /\ stage' = "done" /\ reported' = Returned("ok", NoValue)
    /\ UNCHANGED <<policy, minted, peer, allowed, began, raised, wire, wakes,
                   failures>>

\* The attempt fails where it runs, by itself or because its time was up.
AttemptFails ==
    /\ stage = "running"
    /\ \/ \E took \in 0..1, e \in Failures :
             /\ allowed # Absent => took <= allowed
             /\ raised' = Some(e) /\ now' = now + took
       \/ /\ allowed # Absent
          /\ \E e \in StoppedFailures :
                raised' = Some(e) /\ now' = now + allowed + 1
    /\ IF peer = "local" THEN wire' = NoValue
       ELSE \E w \in Crossings(raised'.value) : wire' = Some(w)
    /\ stage' = "failed"
    /\ UNCHANGED <<policy, minted, peer, allowed, began, attempts, wakes,
                   failures, reported>>

Delay ==
    IF retry_reason(Seen) = "none" \/ Attempt >= max_attempts THEN Absent
    ELSE retry_delay(Attempt)

\* The delay is computed only for a failure that may be tried again.
DelayPanics ==
    /\ stage = "failed"
    /\ retry_reason(Seen) # "none" /\ Attempt < max_attempts
    /\ RawDelay(Attempt) > DurationMax
    /\ stage' = "done" /\ reported' = Returned("panic", NoValue)
    /\ failures' = Append(failures, Seen)
    /\ UNCHANGED <<policy, minted, peer, now, allowed, began, raised, wire,
                   attempts, wakes>>

GivesUp ==
    /\ stage = "failed" /\ Delay = Absent
    /\ attempts' = Finished(retry_reason(Seen), NoValue)
    /\ stage' = "done" /\ reported' = Returned("error", Some(Seen))
    /\ failures' = Append(failures, Seen)
    /\ UNCHANGED <<policy, minted, peer, now, allowed, began, raised, wire,
                   wakes>>

RetriesLater ==
    /\ stage = "failed" /\ Delay # Absent /\ RawDelay(Attempt) <= DurationMax
    /\ attempts' = Finished(retry_reason(Seen), Some(Seen))
    /\ wakes' = now + Delay /\ stage' = "sleeping"
    /\ failures' = Append(failures, Seen)
    /\ UNCHANGED <<policy, minted, peer, now, allowed, began, raised, wire,
                   reported>>

Wakes ==
    /\ stage = "sleeping"
    /\ \E late \in 0..1 : now' = wakes + late
    /\ stage' = "looping"
    /\ UNCHANGED <<policy, minted, peer, allowed, began, raised, wire,
                   attempts, wakes, failures, reported>>

RetryNext ==
    \/ AttemptRefused \/ AttemptBegins \/ AttemptSucceeds \/ AttemptFails
    \/ DelayPanics \/ GivesUp \/ RetriesLater \/ Wakes
----------------------------------------------------------------------------
RetryTypeOK ==
    /\ now \in Nat /\ wakes \in Nat /\ began \in 0..now
    /\ stage \in {"looping", "running", "failed", "sleeping", "done"}
    /\ \A i \in DOMAIN attempts :
          attempts[i].retry_reason \in {"none", "transient_infra", "token_replication"}

(***************************************************************************)
(* Another attempt is made only when the last one, where it really ran,    *)
(* failed for a reason worth it: its command ended by itself (or no        *)
(* command ran), nothing it might have half done was cut short, the budget *)
(* of attempts holds it and its time has not run out.  It holds whatever   *)
(* the failure went through on its way to the loop (git_retry.rs:199-230   *)
(* and 292-355, wire.rs:372-560).                                          *)
(***************************************************************************)
RetryIsSafe ==
    stage = "running" /\ attempts # <<>> =>
        /\ raised.value.kind \in {"git", "rate_limited", "overloaded"}
        /\ raised.value.kind = "git" =>
              /\ raised.value.fields.git.kind
                     \in {"remote_unavailable", "auth_rejected"}
              /\ \/ ~raised.value.fields.git.exec.present
                 \/ raised.value.fields.git.exec.value.termination = "exited"
        /\ Len(attempts) < max_attempts
        /\ deadline # Absent => began < deadline

(***************************************************************************)
(* The report tells every failure once and in order: the ones that were    *)
(* tried again in their attempts, the last one as the error returned       *)
(* (git_retry.rs:317-353).  A failure of a plugin of this version is       *)
(* judged as it would have been without the wire between.                  *)
(***************************************************************************)
ReportIsComplete ==
    /\ stage = "done" /\ reported.how # "panic" =>
          \A i \in DOMAIN failures :
             \/ /\ attempts[i].failure.present
                /\ attempts[i].failure.value = failures[i]
             \/ i = Len(failures) /\ reported.error = Some(failures[i])
    /\ stage = "failed" /\ peer = "plugin" =>
          retry_reason(Seen) = retry_reason(raised.value)
=============================================================================
