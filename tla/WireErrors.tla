----------------------------- MODULE WireErrors -----------------------------
(***************************************************************************)
(* The typed errors of the driver and the form they cross the plugin wire  *)
(* in: the error kinds (sandbox-driver/src/error.rs), the report an error  *)
(* is reduced to (sandbox-driver/src/event.rs), the per-kind detail that   *)
(* lets the host rebuild it (sandbox-driver-protocol/src/wire.rs), and the *)
(* answer a failed dispatch becomes (sandbox-driver-protocol/src/server).  *)
(*                                                                         *)
(* An error is its kind, the fields of that kind as a function from field  *)
(* names to values, and the length of its chain of causes.  Texts are left *)
(* out, except that a git message is the set of the hints it contains.     *)
(***************************************************************************)
EXTENDS Naturals, Sequences

\* MAX_CAUSES of event.rs is 8; the bound is what matters, not its value.
MaxCauses == 2

NoValue == [present |-> FALSE]
Some(v) == [present |-> TRUE, value |-> v]

(***************************************************************************)
(* The fields a kind needs before its typed error can be rebuilt: one row  *)
(* per detail struct.  rate_limited needs none.                            *)
(***************************************************************************)
NeededFields(kind) ==
    CASE kind = "incomplete"                  -> {"incomplete"}
      [] kind = "overloaded"                  -> {"limit"}
      [] kind = "limit_exceeded"              -> {"limit", "max_bytes"}
      [] kind = "unsupported"                 -> {"capability"}
      [] kind \in {"not_found", "not_owned"}  -> {"resource", "id"}
      [] kind = "read_only"                   -> {"resource", "id", "action"}
      [] kind = "invalid_spec"                -> {"field", "reason"}
      [] kind = "invalid_state"               -> {"current", "action"}
      [] kind = "timeout"                     -> {"operation", "elapsed"}
      [] kind = "io"                          -> {"io_context"}
      [] kind = "transport"                   -> {"transport_context"}
      [] kind \in {"auth", "provider", "exec", "git"} -> {kind}
      [] OTHER                                -> {}

ErrorKinds ==
    {"not_found", "not_owned", "read_only", "unsupported", "invalid_state",
     "invalid_spec", "timeout", "auth", "rate_limited", "overloaded",
     "limit_exceeded", "exec", "git", "provider", "transport", "incomplete",
     "io"}

Error(kind, fields, causes) ==
    [kind |-> kind, fields |-> fields, causes |-> causes]

\* An error of a kind whose fields are opaque here: each carries a value.
PlainError(kind) ==
    Error(kind, [f \in NeededFields(kind) |-> "value"],
          IF kind = "io" THEN 1 ELSE 0)

ExecFailure(termination, exit_code) ==
    [termination |-> termination, exit_code |-> exit_code]

ProviderError(code, retryable) == [code |-> code, retryable |-> retryable]

----------------------------------------------------------------------------
(* Git failures: what went wrong, read from what git or a provider said.   *)

GitFailureKinds ==
    {"auth_rejected", "remote_unavailable", "ref_not_found", "access_denied",
     "target_exists", "git_unavailable", "unclassified"}

\* The hint tables in the order from_message tries them.
HintOrder ==
    <<"remote_unavailable", "auth_rejected", "access_denied", "target_exists",
      "ref_not_found">>

\* A message is the set of the hints found in it.
from_message(hints) ==
    LET hit == {i \in 1..Len(HintOrder) : HintOrder[i] \in hints}
    IN  IF hit = {} THEN "unclassified"
        ELSE HintOrder[CHOOSE i \in hit : \A j \in hit : i <= j]

from_output(stderr, stdout) ==
    LET by_stderr == from_message(stderr)
    IN  IF by_stderr = "unclassified" THEN from_message(stdout) ELSE by_stderr

GitFailure(kind, output, provider) ==
    Error("git", [git |-> [kind |-> kind, exec |-> output,
                           provider |-> provider]], 0)

\* git_failure of derived/git/command.rs: a command that did not succeed.
from_command(output, stderr, stdout) ==
    GitFailure(IF output.exit_code \in {126, 127} THEN "git_unavailable"
               ELSE from_output(stderr, stdout), Some(output), NoValue)

from_provider(provider, message) ==
    LET kind == from_message(message)
    IN  GitFailure(IF kind = "unclassified" /\ provider.retryable
                   THEN "remote_unavailable" ELSE kind,
                   NoValue, Some(provider))

is_transient(kind) == kind = "remote_unavailable"
----------------------------------------------------------------------------
(* The report, and the two directions of the wire.                         *)

MinOf(a, b) == IF a <= b THEN a ELSE b

ErrorReport(e) ==
    [kind |-> e.kind,
     retryable |-> CASE e.kind \in {"timeout", "rate_limited", "transport"} -> TRUE
                     [] e.kind = "provider" -> e.fields.provider.retryable
                     [] e.kind = "git" -> is_transient(e.fields.git.kind)
                     [] OTHER -> FALSE,
     causes |-> MinOf(e.causes, MaxCauses)]

\* Output crosses as text that a reader decodes again.
exec_detail(failure) == [failure |-> failure, text |-> "encoded"]

exec_failure(detail) ==
    IF detail.text = "encoded" THEN Some(detail.failure) ELSE NoValue

\* Mutant: the detail of a git failure leaves the command's output behind.
detail_of_drops_output(e) ==
    CASE e.kind = "overloaded" ->
             [limit |-> e.fields.limit, not_started |-> TRUE]
      [] e.kind = "exec" -> [exec |-> exec_detail(e.fields.exec)]
      [] e.kind = "git" -> [git |-> [e.fields.git EXCEPT !.exec = NoValue]]
      [] OTHER -> e.fields

detail_of(e) ==
    CASE e.kind = "overloaded" ->
             [limit |-> e.fields.limit, not_started |-> TRUE]
      [] e.kind = "exec" -> [exec |-> exec_detail(e.fields.exec)]
      [] e.kind = "git" ->
             [git |-> [e.fields.git EXCEPT
                          !.exec = IF @.present THEN Some(exec_detail(@.value))
                                   ELSE NoValue]]
      [] OTHER -> e.fields

from_error(e) ==
    [code |-> "application",
     data |-> Some([report |-> ErrorReport(e), detail |-> detail_of(e)])]

\* remote_cause rebuilds the chain of causes for the kinds that hold one.
remote_cause(kind, causes) ==
    IF kind \in {"auth", "provider", "transport"} THEN causes
    ELSE IF kind = "io" THEN IF causes = 0 THEN 1 ELSE causes
    ELSE 0

typed_error(report, detail) ==
    LET kind == report.kind
        needed == NeededFields(kind)
        rebuilt == Error(kind, [f \in needed |-> detail[f]],
                         remote_cause(kind, report.causes))
    IN  IF kind \notin ErrorKinds \/ ~(needed \subseteq DOMAIN detail) THEN NoValue ELSE
        CASE kind = "overloaded" ->
                 IF "not_started" \in DOMAIN detail /\ detail["not_started"]
                 THEN Some(rebuilt) ELSE NoValue
          [] kind = "exec" ->
                 LET failure == exec_failure(detail.exec)
                 IN  IF failure.present
                     THEN Some(Error("exec", [exec |-> failure.value], 0))
                     ELSE NoValue
          [] kind = "git" ->
                 LET git == detail.git
                 IN  Some(GitFailure(IF git.kind \in GitFailureKinds
                                     THEN git.kind ELSE "unclassified",
                                     IF git.exec.present
                                     THEN exec_failure(git.exec.value)
                                     ELSE NoValue, git.provider))
          [] OTHER -> Some(rebuilt)

into_error(wire) ==
    IF ~wire.data.present
    THEN Error("provider", [provider |-> ProviderError(wire.code, FALSE)], 0)
    ELSE LET report == wire.data.value.report
             typed == typed_error(report, wire.data.value.detail)
         IN  IF typed.present THEN typed.value
             ELSE Error("provider",
                        [provider |-> ProviderError(report.kind,
                                                    report.retryable)], 0)

\* DispatchError::into_wire: the answer to a request the plugin could not serve.
into_wire(dispatch) ==
    IF dispatch.kind = "app" THEN from_error(dispatch.error)
    ELSE [code |-> CASE dispatch.kind = "unknown_method" -> "method_not_found"
                     [] dispatch.kind = "bad_params" -> "invalid_request"
                     [] OTHER -> "application",
          data |-> NoValue]

is_method_not_found(e) ==
    e.kind = "provider" /\ e.fields.provider.code = "method_not_found"
=============================================================================
