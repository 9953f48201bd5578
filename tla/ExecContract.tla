---------------------------- MODULE ExecContract ----------------------------
(***************************************************************************)
(* What Exec::run_streaming promises about stops (sandbox-driver, exec.rs, *)
(* the trait's control contracts), whichever provider runs the command:    *)
(* which signals may reach the command and in which order, and what the    *)
(* reported Termination says of them.                                      *)
(***************************************************************************)

Causes == {"term", "kill", "timeout", "output"}
Terminations == {"Exited", "TimedOut", "Cancelled", "Killed"}

VARIABLES
    grace,      \* ExecSpec::stop_grace is set
    asked,      \* what has asked the command to stop: the caller's tokens,
                \* the timeout, output that cannot be delivered
    signalled,  \* the strongest signal the command was sent
    outcome     \* the Termination returned, "error", or "none" so far

vars == <<grace, asked, signalled, outcome>>

Init ==
    /\ grace \in BOOLEAN
    /\ asked = {}
    /\ signalled = "none"
    /\ outcome = "none"

\* A token fires, the timeout elapses or the output fails; several may at once.
Ask ==
    /\ outcome = "none"
    /\ asked' \in SUBSET Causes
    /\ asked \subseteq asked'
    /\ UNCHANGED <<grace, signalled, outcome>>

\* SIGTERM, once, and never behind a SIGKILL.  Without a grace only the
\* caller's term sends it; with one the timeout does too.
Term ==
    /\ outcome = "none"
    /\ signalled = "none"
    /\ "term" \in asked \/ (grace /\ "timeout" \in asked)
    /\ signalled' = "Term"
    /\ UNCHANGED <<grace, asked, outcome>>

\* SIGKILL, once.  A caller's term alone leads to it only through a grace.
Kill ==
    /\ outcome = "none"
    /\ signalled # "Kill"
    /\ asked \cap {"kill", "timeout", "output"} # {} \/ (grace /\ "term" \in asked)
    /\ signalled' = "Kill"
    /\ UNCHANGED <<grace, asked, outcome>>

\* What each Termination admits to.  Exited: nothing was sent to the command.
Justified(t) ==
    \/ t = "Exited" /\ signalled = "none"
    \/ t = "Cancelled" /\ signalled # "none" /\ asked \cap {"term", "output"} # {}
    \/ t = "Killed" /\ signalled = "Kill" /\ asked \cap {"term", "kill"} # {}
    \/ t = "TimedOut" /\ signalled # "none" /\ "timeout" \in asked

\* The call returns; a failure to reach the command is an error, never a
\* Termination.
Return ==
    /\ outcome = "none"
    /\ \/ \E t \in Terminations : Justified(t) /\ outcome' = t
       \/ outcome' = "error"
    /\ UNCHANGED <<grace, asked, signalled>>

Next == Ask \/ Term \/ Kill \/ Return

Spec == Init /\ [][Next]_vars
=============================================================================
