----------------------------- MODULE EventOrder -----------------------------
(***************************************************************************)
(* The events of one EventContext (sandbox-driver/src/event.rs).           *)
(* Operations of several tasks share the context: EventEmitter::run emits  *)
(* a start, the operation reports progress and may learn its real subject, *)
(* and a completed or failed event follows before run returns.             *)
(* EventContext::emit takes the context's lock, numbers the event and      *)
(* keeps the lock until the observer has taken it.  A task's future may be *)
(* dropped at any await, with the lock held or not.                        *)
(***************************************************************************)
EXTENDS Naturals, Sequences

CONSTANTS
    Runners,        \* tasks, each running one operation
    MaxReports,     \* bound on an operation's progress events
    MaxNotices      \* bound on events outside operations (notice, state_observed)

ASSUME OrderAssumption == MaxReports \in Nat /\ MaxNotices \in Nat

VARIABLES
    next_sequence,  \* EventContextInner.next_sequence
    holder,         \* who holds its lock: a set of at most one runner
    emitting,       \* each runner's event under way, or NoEvent
    running,        \* each runner: "idle", "started", "working", "ended", "returned" or "dropped"
    subject,        \* each operation's current subject: "name" or "id"
    reports,       \* progress events each operation made
    noticed,        \* notices made
    told            \* what the observer took, in order

orderVars == <<next_sequence, holder, emitting, running, subject, reports, noticed, told>>

EventBodies == {"started", "progress", "completed", "failed", "notice"}
NoEvent == [sequence |-> 0, op |-> {}, body |-> "none", subject |-> "name"]

\* EventBody::is_terminal.
is_terminal(body) == body \in {"completed", "failed"}

OrderTypeOK ==
    /\ next_sequence \in Nat /\ holder \subseteq Runners
    /\ running \in [Runners -> {"idle", "started", "working", "ended", "returned", "dropped"}]
    /\ subject \in [Runners -> {"name", "id"}]
    /\ reports \in [Runners -> 0..MaxReports] /\ noticed \in 0..MaxNotices
    /\ \A t \in Runners : emitting[t].body \in EventBodies \cup {"none"}
    /\ \A i \in DOMAIN told : told[i].body \in EventBodies

OrderInit ==
    /\ next_sequence = 0 /\ holder = {} /\ told = <<>>
    /\ emitting = [t \in Runners |-> NoEvent]
    /\ running = [t \in Runners |-> "idle"] /\ subject = [t \in Runners |-> "name"]
    /\ reports = [t \in Runners |-> 0] /\ noticed = 0

-----------------------------------------------------------------------------
\* EventEmitter::emit: an event of this runner waits for the context's lock.
Wants(t, body, op) ==
    emitting' = [emitting EXCEPT ![t] =
                   [sequence |-> 0, op |-> op, body |-> body, subject |-> subject[t]]]

Quiet(t) == emitting[t] = NoEvent

\* EventEmitter::run: the operation is announced before it begins.
run(t) ==
    /\ running[t] = "idle" /\ Quiet(t)
    /\ running' = [running EXCEPT ![t] = "started"]
    /\ Wants(t, "started", {t})
    /\ UNCHANGED <<next_sequence, holder, subject, reports, noticed, told>>

\* The operation's body begins when its start was taken.
OperationBegins(t) ==
    /\ running[t] = "started" /\ Quiet(t)
    /\ running' = [running EXCEPT ![t] = "working"]
    /\ UNCHANGED <<next_sequence, holder, emitting, subject, reports, noticed, told>>

\* OperationReporter::set_subject.
set_subject(t) ==
    /\ running[t] = "working" /\ subject[t] = "name" /\ Quiet(t)
    /\ subject' = [subject EXCEPT ![t] = "id"]
    /\ UNCHANGED <<next_sequence, holder, emitting, running, reports, noticed, told>>

\* OperationReporter::progress, awaited by the operation.
progress(t) ==
    /\ running[t] = "working" /\ Quiet(t) /\ reports[t] < MaxReports
    /\ reports' = [reports EXCEPT ![t] = @ + 1]
    /\ Wants(t, "progress", {t})
    /\ UNCHANGED <<next_sequence, holder, running, subject, noticed, told>>

\* EventEmitter::notice and state_observed belong to no operation.
notice(t) ==
    /\ running[t] = "working" /\ Quiet(t) /\ noticed < MaxNotices
    /\ noticed' = noticed + 1
    /\ Wants(t, "notice", {})
    /\ UNCHANGED <<next_sequence, holder, running, subject, reports, told>>

\* The operation's outcome is announced under the subject it has by then.
OperationEnds(t) ==
    /\ running[t] = "working" /\ Quiet(t)
    /\ running' = [running EXCEPT ![t] = "ended"]
    /\ \E body \in {"completed", "failed"} : Wants(t, body, {t})
    /\ UNCHANGED <<next_sequence, holder, subject, reports, noticed, told>>

OperationReturns(t) ==
    /\ running[t] = "ended" /\ Quiet(t)
    /\ running' = [running EXCEPT ![t] = "returned"]
    /\ UNCHANGED <<next_sequence, holder, emitting, subject, reports, noticed, told>>

\* The lock is given up before the observer is called.
emit_numbers_only(t) ==
    /\ emitting[t].body # "none" /\ emitting[t].sequence = 0 /\ holder = {}
    /\ next_sequence' = next_sequence + 1
    /\ emitting' = [emitting EXCEPT ![t].sequence = next_sequence + 1]
    /\ UNCHANGED holder
    /\ UNCHANGED <<running, subject, reports, noticed, told>>

\* EventContext::emit: the lock is taken and the event numbered,
emit(t) ==
    /\ emitting[t].body # "none" /\ emitting[t].sequence = 0 /\ holder = {}
    /\ next_sequence' = next_sequence + 1
    /\ emitting' = [emitting EXCEPT ![t].sequence = next_sequence + 1]
    /\ holder' = {t}
    /\ UNCHANGED <<running, subject, reports, noticed, told>>

\* and the lock is kept until the observer took it.
Observed(t) ==
    /\ emitting[t].sequence > 0
    /\ told' = Append(told, emitting[t])
    /\ emitting' = [emitting EXCEPT ![t] = NoEvent]
    /\ holder' = holder \ {t}
    /\ UNCHANGED <<next_sequence, running, subject, reports, noticed>>

\* The caller drops run's future: a waiting or a numbered event goes with it, and the lock.
RunDropped(t) ==
    /\ running[t] \in {"started", "working", "ended"}
    /\ running' = [running EXCEPT ![t] = "dropped"]
    /\ emitting' = [emitting EXCEPT ![t] = NoEvent]
    /\ holder' = holder \ {t}
    /\ UNCHANGED <<next_sequence, subject, reports, noticed, told>>

OrderNext ==
    \E t \in Runners :
      \/ run(t) \/ OperationBegins(t) \/ set_subject(t) \/ progress(t) \/ notice(t)
      \/ OperationEnds(t) \/ OperationReturns(t) \/ emit(t) \/ Observed(t) \/ RunDropped(t)

-----------------------------------------------------------------------------
Positions(t, bodies) == {i \in DOMAIN told : told[i].op = {t} /\ told[i].body \in bodies}
Terminal == {b \in EventBodies : is_terminal(b)}

\* An observer sees one context's events in the order of their numbers, whichever tasks
\* emitted them and however slow it is.  Of each operation it sees the start before anything
\* else and nothing after its end; run has returned only when exactly one end was seen, under
\* the subject the operation last had.
EventsInOrder ==
    /\ \A i \in 1..Len(told) - 1 : told[i].sequence < told[i + 1].sequence
    /\ \A t \in Runners : \A i \in Positions(t, EventBodies) :
         /\ \E j \in Positions(t, {"started"}) : j <= i
         /\ \A j \in Positions(t, Terminal) : i <= j
    /\ \A t \in Runners : running[t] = "returned" =>
         \E i \in Positions(t, Terminal) : /\ Positions(t, Terminal) = {i}
                                           /\ told[i].subject = subject[t]
=============================================================================
