-------------------------- MODULE ProcessesProofs --------------------------
(***************************************************************************)
(* Proofs about the eight components MCProcesses puts side by side: the    *)
(* sessions of a plugin, the supervisor of its process, the runtimes of    *)
(* the catalog, the host's stdio process, a Docker command and its         *)
(* watcher, port forwards, the nested one-shot and a derived service.      *)
(* Each part has an inductive invariant of its own, a lemma per action (or *)
(* per group of like actions) that the action keeps it, and a lemma that   *)
(* it implies the part's promises.  The last section joins the parts: one  *)
(* of them acts at a time and leaves the variables of the others alone.    *)
(***************************************************************************)
EXTENDS MCProcesses, FiniteSetTheorems, TLAPS

-----------------------------------------------------------------------------
(***************************************************************************)
(* Part one: the sessions of a plugin (PluginSessions).                    *)
(***************************************************************************)
\* A session is opened once: until it starts, one request or one task stands for it.
OpenAt(s) ==
    /\ <<"open", s>> \in requests =>
         opening[s] = "none" /\ session[s] = "none" /\ plugin = "serving"
    /\ opening[s] \in {"admitted", "connected"} => session[s] = "none"
    /\ opening[s] = "following" => s \in Streams /\ session[s] = "live"
    /\ handle[s] = "idle" =>
         <<"open", s>> \notin requests /\ opening[s] = "none" /\ session[s] = "none"

\* What lives holds a permit while the plugin serves; a PTY that close_sessions could not close
\* has lost it; at the end only the registry, a failed close or the deadline accounts for it.
HeldAt(s) ==
    session[s] = "live" =>
      /\ plugin = "serving" => s \in Holders
      /\ plugin = "closing" => s \in Holders \cup closeFailed
      /\ plugin = "ended" => s \in registry \cup closeFailed \cup cutOff
      /\ s \in Streams /\ plugin # "ended" => opening[s] = "following"

\* What holds a permit, or lives.
Spent == Holders \cup {s \in Sessions : session[s] = "live"}

\* The open of a session is over, on both sides.
Opened(s) == handle[s] # "idle" /\ opening[s] = "none" /\ <<"open", s>> \notin requests

\* What is registered, or being closed, was opened; close_sessions takes no follow.
RegisteredAt(s) ==
    /\ s \in draining => s \notin Streams
    /\ s \in registry \cup ClosingPtys \cup draining /\ s \notin Streams => Opened(s)

OpenedAt(s) ==
    s \notin Streams =>
      /\ handle[s] \notin {"idle", "opening", "abandoned"} => Opened(s)
      /\ \A m \in Methods, ok \in BOOLEAN : <<m, s, ok>> \in answers => Opened(s)

\* The answers that tell the host a session is gone, or never was.
TellsEnd(m, s, ok) == IF m = "open" THEN ok = FALSE ELSE ok = TRUE /\ (m = "drop" => s \in Ptys)

LeftAlone(s) == session[s] = "live" => s \in closeFailed \cup ClosingPtys \cup draining \cup cutOff

SettledAt(s) ==
    s \notin Streams =>
      /\ handle[s] = "over" => LeftAlone(s)
      /\ \A m \in Methods, ok \in BOOLEAN :
           <<m, s, ok>> \in answers /\ TellsEnd(m, s, ok) => LeftAlone(s)

SessionInv(s) == OpenAt(s) /\ HeldAt(s) /\ RegisteredAt(s) /\ OpenedAt(s) /\ SettledAt(s)

SInv ==
    /\ SessionsTypeOK
    /\ Cardinality(Spent) <= ActiveIo
    /\ plugin = "serving" => draining = {}
    /\ \A s \in Sessions : SessionInv(s)

-----------------------------------------------------------------------------
\* The sessions that hold a permit or live are finitely many, so a release can be counted.
LEMMA SpentFinite == ASSUME SessionsTypeOK PROVE IsFiniteSet(Spent) /\ Spent \subseteq Sessions
<1>1. Spent \subseteq Sessions
    BY DEF SessionsTypeOK, Spent, Holders, ClosingPtys, Sessions
<1> QED
    BY <1>1, KindsAssumption, FS_Subset

\* Only an admission takes a permit.
LEMMA SpentShrinks ==
    ASSUME SInv, Spent' \subseteq Spent
    PROVE  Cardinality(Spent') <= ActiveIo
<1>1. IsFiniteSet(Spent) /\ Cardinality(Spent) <= ActiveIo
    BY SpentFinite DEF SInv
<1>2. /\ IsFiniteSet(Spent') /\ Cardinality(Spent') <= Cardinality(Spent)
    BY <1>1, FS_Subset
<1> QED
    BY <1>1, <1>2, FS_CardinalityType, SessionsAssumption

\* What a step that is about another session leaves of this one.
Untouched(r) ==
    /\ handle'[r] = handle[r] /\ opening'[r] = opening[r] /\ session'[r] = session[r]
    /\ r \in registry' <=> r \in registry
    /\ r \in ClosingPtys' <=> r \in ClosingPtys
    /\ r \in draining' <=> r \in draining
    /\ r \in closeFailed' <=> r \in closeFailed
    /\ r \in cutOff' <=> r \in cutOff
    /\ <<"open", r>> \in requests' <=> <<"open", r>> \in requests
    /\ \A m \in Methods, ok \in BOOLEAN : <<m, r, ok>> \in answers' => <<m, r, ok>> \in answers

\* A step that leaves a session alone keeps that session's invariant.
LEMMA UntouchedInv ==
    ASSUME NEW r \in Sessions, SessionInv(r), Untouched(r), plugin' = plugin
    PROVE  SessionInv(r)'
<1> USE DEF SessionInv, Untouched
<1>1. OpenAt(r)'
    BY DEF OpenAt
<1>2. HeldAt(r)'
    BY DEF HeldAt, Holders
<1>3. OpenedAt(r)'
    BY DEF OpenedAt, Opened
<1>4. SettledAt(r)'
    BY DEF SettledAt, LeftAlone, TellsEnd
<1>5. RegisteredAt(r)'
    BY DEF RegisteredAt, Opened
<1> QED
    BY <1>1, <1>2, <1>3, <1>4, <1>5

\* A step of one session, that takes no new permit.
LEMMA OneSession ==
    ASSUME SInv, SessionsTypeOK', NEW s \in Sessions, SessionInv(s)',
           \A r \in Sessions : r # s => Untouched(r),
           plugin' = plugin, draining' \subseteq draining, Cardinality(Spent') <= ActiveIo
    PROVE  SInv'
<1>1. \A r \in Sessions : r # s => SessionInv(r)'
    BY UntouchedInv DEF SInv
<1> QED
    BY <1>1 DEF SInv

\* The parts of a step: a question, an answer and the taking of answers.
LEMMA AsksFacts ==
    ASSUME SessionsTypeOK, NEW m \in Methods, NEW s \in Sessions, Asks(m, s)
    PROVE  /\ requests' \subseteq Methods \X Sessions
           /\ \A r : r # s \/ m # "open" => (<<"open", r>> \in requests' <=> <<"open", r>> \in requests)
           /\ \A r : <<"open", r>> \in requests' =>
                       <<"open", r>> \in requests \/ (r = s /\ plugin = "serving")
    BY DEF SessionsTypeOK, Asks

\* A caller that takes its answer leaves only answers of other sessions.
LEMMA TakesFacts ==
    ASSUME SessionsTypeOK, NEW s \in Sessions, Takes(s)
    PROVE  /\ answers' \subseteq Methods \X Sessions \X BOOLEAN
           /\ \A m, r, ok : <<m, r, ok>> \in answers' => r # s /\ <<m, r, ok>> \in answers
    BY DEF SessionsTypeOK, Takes, AnswersElsewhere

\* Only questions in M of session s are answered.
OnlyAnswers(M, s) ==
    /\ answers' \subseteq Methods \X Sessions \X BOOLEAN
    /\ \A k, r, o : <<k, r, o>> \in answers' =>
         \/ <<k, r, o>> \in answers
         \/ k \in M /\ r = s /\ o \in BOOLEAN /\ Answer(k, s, o) /\ Awaits(k, s)

\* A step that answers a question in M of a session answers nothing else.
LEMMA AnswerFacts ==
    ASSUME SessionsTypeOK, NEW s \in Sessions, NEW M, M \subseteq Methods,
           answers' = answers \/ \E k \in M, o \in BOOLEAN : Answer(k, s, o)
    PROVE  OnlyAnswers(M, s)
    BY DEF SessionsTypeOK, Answer, OnlyAnswers

\* Which shells pty/close has taken out.
LEMMA InClosing ==
    ASSUME NEW C, C \subseteq {"close", "drop"} \X Ptys, NEW r
    PROVE  r \in {c[2] : c \in C} <=> <<"close", r>> \in C \/ <<"drop", r>> \in C
    OBVIOUS

\* An answer that says whether a session is registered is positive only if it is.
LEMMA AnswerIsKnown ==
    ASSUME NEW m, NEW s, Answer(m, s, s \in registry)
    PROVE  \E o \in BOOLEAN : Answer(m, s, o) /\ (o = TRUE => s \in registry)
<1>1. CASE s \in registry
  <2>1. (s \in registry) = TRUE
    BY <1>1
  <2> QED
    BY <1>1, <2>1
<1>2. CASE s \notin registry
  <2>1. (s \in registry) = FALSE
    BY <1>2
  <2> QED
    BY <1>2, <2>1
<1> QED
    BY <1>1, <1>2

-----------------------------------------------------------------------------
\* A step of the host that only moves its handle: it asks for no open.
LEMMA HandleMoves ==
    ASSUME SInv, NEW s \in Sessions, NEW h, UNCHANGED pluginSessionVars, SessionsTypeOK',
           handle' = [handle EXCEPT ![s] = h], handle[s] # "idle", h # "idle",
           \A r : <<"open", r>> \in requests' <=> <<"open", r>> \in requests,
           \A m, r, ok : <<m, r, ok>> \in answers' => <<m, r, ok>> \in answers,
           s \notin Streams /\ h # "abandoned" => Opened(s),
           s \notin Streams /\ h = "over" => LeftAlone(s)
    PROVE  SInv'
<1> USE DEF pluginSessionVars
<1>1. ClosingPtys' = ClosingPtys /\ Holders' = Holders /\ Spent' = Spent
    BY DEF ClosingPtys, Holders, Spent
<1>2. \A r \in Sessions : r # s => Untouched(r)
    BY <1>1 DEF Untouched, SInv, SessionsTypeOK
<1>3. SessionInv(s)'
  <2> USE DEF SInv, SessionsTypeOK, SessionInv
  <2>1. OpenAt(s)'
    BY DEF OpenAt
  <2>2. HeldAt(s)'
    BY <1>1 DEF HeldAt
  <2>3. OpenedAt(s)'
    BY DEF OpenedAt, Opened
  <2>4. SettledAt(s)'
    BY <1>1 DEF SettledAt, LeftAlone, TellsEnd
  <2>5. RegisteredAt(s)'
    BY <1>1 DEF RegisteredAt, Opened
  <2> QED
    BY <2>1, <2>2, <2>3, <2>4, <2>5
<1> QED
    BY <1>1, <1>2, <1>3, OneSession DEF SInv

\* The host takes an answer, or gives its handle up.
LEMMA HostStepSInv ==
    ASSUME SInv, NEW s \in Sessions, HostSessionStep(s)
    PROVE  SInv'
<1> USE DEF HandleTo, Answered
<1>0. SessionsTypeOK /\ SessionInv(s) /\ Sessions = Stdios \cup Ptys \cup Streams
    BY DEF SInv, Sessions
<1>1. CASE OpenReturned(s)
  <2> USE <1>1 DEF OpenReturned, OpenTaken
  <2>1. PICK h \in {"open", "over"} : handle' = [handle EXCEPT ![s] = h]
    OBVIOUS
  <2>2. UNCHANGED pluginSessionVars /\ handle[s] # "idle"
    OBVIOUS
  <2>3. /\ answers' \subseteq Methods \X Sessions \X BOOLEAN
        /\ \A m, r, ok : <<m, r, ok>> \in answers' => <<m, r, ok>> \in answers
    BY <1>0, TakesFacts
  <2>4. /\ requests' \subseteq Methods \X Sessions
        /\ \A r : <<"open", r>> \in requests' <=> <<"open", r>> \in requests
    BY <1>0 DEF SessionsTypeOK
  <2>5. SessionsTypeOK'
    BY <1>0, <2>1, <2>2, <2>3, <2>4 DEF SessionsTypeOK, pluginSessionVars
  <2>6. s \notin Streams /\ h # "abandoned" => Opened(s)
    BY <1>0 DEF SessionInv, OpenedAt, Methods
  <2>7. s \notin Streams /\ h = "over" => LeftAlone(s)
    BY <1>0, <2>1 DEF SessionInv, SettledAt, TellsEnd, Methods, SessionsTypeOK
  <2> HIDE <1>1 DEF OpenReturned, OpenTaken
  <2> QED
    BY <2>1, <2>2, <2>3, <2>4, <2>5, <2>6, <2>7, HandleMoves
<1>2. CASE FollowReturned(s)
  <2> USE <1>2 DEF FollowReturned, OpenTaken
  <2>1. PICK h \in {"over"} : handle' = [handle EXCEPT ![s] = h]
    OBVIOUS
  <2>2. UNCHANGED pluginSessionVars /\ handle[s] # "idle"
    OBVIOUS
  <2>3. /\ answers' \subseteq Methods \X Sessions \X BOOLEAN
        /\ \A m, r, ok : <<m, r, ok>> \in answers' => <<m, r, ok>> \in answers
    BY <1>0, TakesFacts
  <2>4. /\ requests' \subseteq Methods \X Sessions
        /\ \A r : <<"open", r>> \in requests' <=> <<"open", r>> \in requests
    BY <1>0 DEF SessionsTypeOK
  <2>5. SessionsTypeOK'
    BY <1>0, <2>1, <2>2, <2>3, <2>4 DEF SessionsTypeOK, pluginSessionVars
  <2>6. s \notin Streams /\ h # "abandoned" => Opened(s)
    BY <1>0, <2>1 DEF SessionInv, OpenedAt, Methods
  <2>7. s \notin Streams /\ h = "over" => LeftAlone(s)
    BY <2>1
  <2> HIDE <1>2 DEF FollowReturned, OpenTaken
  <2> QED
    BY <2>1, <2>2, <2>3, <2>4, <2>5, <2>6, <2>7, HandleMoves
<1>3. CASE CloseReturned(s)
  <2> USE <1>3 DEF CloseReturned
  <2>1. PICK h \in {"over", "tried"} : handle' = [handle EXCEPT ![s] = h]
    OBVIOUS
  <2>2. UNCHANGED pluginSessionVars /\ handle[s] # "idle"
    OBVIOUS
  <2>3. /\ answers' \subseteq Methods \X Sessions \X BOOLEAN
        /\ \A m, r, ok : <<m, r, ok>> \in answers' => <<m, r, ok>> \in answers
    BY <1>0, TakesFacts
  <2>4. /\ requests' \subseteq Methods \X Sessions
        /\ \A r : <<"open", r>> \in requests' <=> <<"open", r>> \in requests
    BY <1>0 DEF SessionsTypeOK
  <2>5. SessionsTypeOK'
    BY <1>0, <2>1, <2>2, <2>3, <2>4 DEF SessionsTypeOK, pluginSessionVars
  <2>6. s \notin Streams /\ h # "abandoned" => Opened(s)
    BY <1>0, <2>1 DEF SessionInv, OpenedAt, Methods
  <2>7. s \notin Streams /\ h = "over" => LeftAlone(s)
    BY <1>0, <2>1 DEF SessionInv, SettledAt, TellsEnd, Methods, SessionsTypeOK
  <2> HIDE <1>3 DEF CloseReturned
  <2> QED
    BY <2>1, <2>2, <2>3, <2>4, <2>5, <2>6, <2>7, HandleMoves
<1>4. CASE WaitReturned(s)
  <2> USE <1>4 DEF WaitReturned
  <2>1. PICK h \in {"over", "tried"} : handle' = [handle EXCEPT ![s] = h]
    OBVIOUS
  <2>2. UNCHANGED pluginSessionVars /\ handle[s] # "idle"
    OBVIOUS
  <2>3. /\ answers' \subseteq Methods \X Sessions \X BOOLEAN
        /\ \A m, r, ok : <<m, r, ok>> \in answers' => <<m, r, ok>> \in answers
    BY <1>0, TakesFacts
  <2>4. /\ requests' \subseteq Methods \X Sessions
        /\ \A r : <<"open", r>> \in requests' <=> <<"open", r>> \in requests
    BY <1>0 DEF SessionsTypeOK
  <2>5. SessionsTypeOK'
    BY <1>0, <2>1, <2>2, <2>3, <2>4 DEF SessionsTypeOK, pluginSessionVars
  <2>6. s \notin Streams /\ h # "abandoned" => Opened(s)
    BY <1>0, <2>1 DEF SessionInv, OpenedAt, Methods
  <2>7. s \notin Streams /\ h = "over" => LeftAlone(s)
    BY <1>0, <2>1 DEF SessionInv, SettledAt, TellsEnd, Methods, SessionsTypeOK
  <2> HIDE <1>4 DEF WaitReturned
  <2> QED
    BY <2>1, <2>2, <2>3, <2>4, <2>5, <2>6, <2>7, HandleMoves
<1>5. CASE CleanupAnswered(s)
  <2> USE <1>5 DEF CleanupAnswered
  <2>1. PICK h \in {"failed", "reaping", "over"} : handle' = [handle EXCEPT ![s] = h]
    OBVIOUS
  <2>2. UNCHANGED pluginSessionVars /\ handle[s] # "idle"
    OBVIOUS
  <2>3. /\ answers' \subseteq Methods \X Sessions \X BOOLEAN
        /\ \A m, r, ok : <<m, r, ok>> \in answers' => <<m, r, ok>> \in answers
    BY <1>0, TakesFacts
  <2>4. /\ requests' \subseteq Methods \X Sessions
        /\ \A r : <<"open", r>> \in requests' <=> <<"open", r>> \in requests
    BY <1>0, AsksFacts DEF Methods, SessionsTypeOK
  <2>5. SessionsTypeOK'
    BY <1>0, <2>1, <2>2, <2>3, <2>4 DEF SessionsTypeOK, pluginSessionVars
  <2>6. s \notin Streams /\ h # "abandoned" => Opened(s)
    BY <1>0, <2>1 DEF SessionInv, OpenedAt, Methods
  <2>7. s \notin Streams /\ h = "over" => LeftAlone(s)
    BY <1>0, <2>1 DEF SessionInv, SettledAt, TellsEnd, Methods, SessionsTypeOK
  <2> HIDE <1>5 DEF CleanupAnswered
  <2> QED
    BY <2>1, <2>2, <2>3, <2>4, <2>5, <2>6, <2>7, HandleMoves
<1>6. CASE CleanupReaped(s)
  <2> USE <1>6 DEF CleanupReaped
  <2>1. PICK h \in {"over", "failed"} : handle' = [handle EXCEPT ![s] = h]
    OBVIOUS
  <2>2. UNCHANGED pluginSessionVars /\ handle[s] # "idle"
    OBVIOUS
  <2>3. /\ answers' \subseteq Methods \X Sessions \X BOOLEAN
        /\ \A m, r, ok : <<m, r, ok>> \in answers' => <<m, r, ok>> \in answers
    BY <1>0, TakesFacts
  <2>4. /\ requests' \subseteq Methods \X Sessions
        /\ \A r : <<"open", r>> \in requests' <=> <<"open", r>> \in requests
    BY <1>0 DEF SessionsTypeOK
  <2>5. SessionsTypeOK'
    BY <1>0, <2>1, <2>2, <2>3, <2>4 DEF SessionsTypeOK, pluginSessionVars
  <2>6. s \notin Streams /\ h # "abandoned" => Opened(s)
    BY <1>0, <2>1 DEF SessionInv, OpenedAt, Methods
  <2>7. s \notin Streams /\ h = "over" => LeftAlone(s)
    BY <1>0, <2>1 DEF SessionInv, SettledAt, TellsEnd, Methods, SessionsTypeOK
  <2> HIDE <1>6 DEF CleanupReaped
  <2> QED
    BY <2>1, <2>2, <2>3, <2>4, <2>5, <2>6, <2>7, HandleMoves
<1> QED
    BY <1>1, <1>2, <1>3, <1>4, <1>5, <1>6 DEF HostSessionStep

\* The host asks for a session.
LEMMA OpenCalledSInv ==
    ASSUME SInv, NEW s \in Sessions, OpenCalled(s)
    PROVE  SInv'
<1> USE DEF OpenCalled, HandleTo
<1>0. SessionsTypeOK /\ SessionInv(s)
    BY DEF SInv
<1>1. ClosingPtys' = ClosingPtys /\ Holders' = Holders /\ Spent' = Spent
    BY DEF ClosingPtys, Holders, Spent, pluginSessionVars
<1>2. /\ requests' \subseteq Methods \X Sessions
      /\ \A r : r # s => (<<"open", r>> \in requests' <=> <<"open", r>> \in requests)
      /\ <<"open", s>> \in requests' => plugin = "serving"
    BY <1>0, AsksFacts DEF Methods, SessionInv, OpenAt
<1>3. SessionsTypeOK'
    BY <1>0, <1>2 DEF SessionsTypeOK, pluginSessionVars
<1>4. \A r \in Sessions : r # s => Untouched(r)
    BY <1>0, <1>1, <1>2 DEF Untouched, SessionsTypeOK, pluginSessionVars
<1>5. SessionInv(s)'
  <2> USE <1>0 DEF SessionInv, SessionsTypeOK, pluginSessionVars
  <2>1. OpenAt(s)'
    BY <1>2 DEF OpenAt
  <2>2. HeldAt(s)'
    BY <1>1 DEF HeldAt
  <2>3. OpenedAt(s)'
    BY DEF OpenedAt, Opened
  <2>4. SettledAt(s)'
    BY <1>1 DEF SettledAt, LeftAlone, TellsEnd
  <2>5. RegisteredAt(s)'
    BY <1>1 DEF RegisteredAt, Opened
  <2> QED
    BY <2>1, <2>2, <2>3, <2>4, <2>5
<1> QED
    BY <1>1, <1>3, <1>4, <1>5, OneSession DEF SInv, pluginSessionVars

\* The host calls, closes, waits, drops or gives up.
LEMMA HostChoiceSInv ==
    ASSUME SInv, NEW s \in Sessions, HostSessionChoice(s)
    PROVE  SInv'
<1> USE DEF HandleTo, Answered
<1>0. SessionsTypeOK /\ SessionInv(s) /\ Sessions = Stdios \cup Ptys \cup Streams
    BY DEF SInv, Sessions
<1>1. CASE spawn_stdio(s) \/ pty_open(s) \/ logs_follow(s)
    BY <1>1, OpenCalledSInv DEF spawn_stdio, pty_open, logs_follow
<1>2. CASE OpenAbandoned(s)
  <2> USE <1>2 DEF OpenAbandoned
  <2>1. PICK h \in {"cleanup", "abandoned"} : handle' = [handle EXCEPT ![s] = h]
    OBVIOUS
  <2>2. UNCHANGED pluginSessionVars /\ handle[s] # "idle"
    OBVIOUS
  <2>3. /\ answers' \subseteq Methods \X Sessions \X BOOLEAN
        /\ \A m, r, ok : <<m, r, ok>> \in answers' => <<m, r, ok>> \in answers
    BY <1>0, TakesFacts
  <2>4. /\ requests' \subseteq Methods \X Sessions
        /\ \A r : <<"open", r>> \in requests' <=> <<"open", r>> \in requests
    BY <1>0, AsksFacts DEF Methods, SessionsTypeOK
  <2>5. SessionsTypeOK'
    BY <1>0, <2>1, <2>2, <2>3, <2>4 DEF SessionsTypeOK, pluginSessionVars
  <2>6. s \notin Streams /\ h # "abandoned" => Opened(s)
    BY <1>0, <2>1 DEF SessionInv, OpenedAt, Methods, SessionsTypeOK
  <2>7. s \notin Streams /\ h = "over" => LeftAlone(s)
    BY <2>1
  <2> HIDE <1>2 DEF OpenAbandoned
  <2> QED
    BY <2>1, <2>2, <2>3, <2>4, <2>5, <2>6, <2>7, HandleMoves
<1>3. CASE CloseCalled(s)
  <2> USE <1>3 DEF CloseCalled
  <2>1. PICK h \in {"closing"} : handle' = [handle EXCEPT ![s] = h]
    OBVIOUS
  <2>2. UNCHANGED pluginSessionVars /\ handle[s] # "idle"
    OBVIOUS
  <2>3. /\ answers' \subseteq Methods \X Sessions \X BOOLEAN
        /\ \A m, r, ok : <<m, r, ok>> \in answers' => <<m, r, ok>> \in answers
    BY <1>0 DEF SessionsTypeOK
  <2>4. /\ requests' \subseteq Methods \X Sessions
        /\ \A r : <<"open", r>> \in requests' <=> <<"open", r>> \in requests
    BY <1>0, AsksFacts DEF Methods, SessionsTypeOK
  <2>5. SessionsTypeOK'
    BY <1>0, <2>1, <2>2, <2>3, <2>4 DEF SessionsTypeOK, pluginSessionVars
  <2>6. s \notin Streams /\ h # "abandoned" => Opened(s)
    BY <1>0, <2>1 DEF SessionInv, OpenedAt, Methods
  <2>7. s \notin Streams /\ h = "over" => LeftAlone(s)
    BY <2>1
  <2> HIDE <1>3 DEF CloseCalled
  <2> QED
    BY <2>1, <2>2, <2>3, <2>4, <2>5, <2>6, <2>7, HandleMoves
<1>4. CASE WaitCalled(s)
  <2> USE <1>4 DEF WaitCalled
  <2>1. PICK h \in {"waiting"} : handle' = [handle EXCEPT ![s] = h]
    OBVIOUS
  <2>2. UNCHANGED pluginSessionVars /\ handle[s] # "idle"
    OBVIOUS
  <2>3. /\ answers' \subseteq Methods \X Sessions \X BOOLEAN
        /\ \A m, r, ok : <<m, r, ok>> \in answers' => <<m, r, ok>> \in answers
    BY <1>0 DEF SessionsTypeOK
  <2>4. /\ requests' \subseteq Methods \X Sessions
        /\ \A r : <<"open", r>> \in requests' <=> <<"open", r>> \in requests
    BY <1>0, AsksFacts DEF Methods, SessionsTypeOK
  <2>5. SessionsTypeOK'
    BY <1>0, <2>1, <2>2, <2>3, <2>4 DEF SessionsTypeOK, pluginSessionVars
  <2>6. s \notin Streams /\ h # "abandoned" => Opened(s)
    BY <1>0, <2>1 DEF SessionInv, OpenedAt, Methods
  <2>7. s \notin Streams /\ h = "over" => LeftAlone(s)
    BY <2>1
  <2> HIDE <1>4 DEF WaitCalled
  <2> QED
    BY <2>1, <2>2, <2>3, <2>4, <2>5, <2>6, <2>7, HandleMoves
<1>5. CASE StdioDropped(s)
  <2> USE <1>5 DEF StdioDropped, own_cleanup
  <2>1. PICK h \in {"cleanup"} : handle' = [handle EXCEPT ![s] = h]
    OBVIOUS
  <2>2. UNCHANGED pluginSessionVars /\ handle[s] # "idle"
    OBVIOUS
  <2>3. /\ answers' \subseteq Methods \X Sessions \X BOOLEAN
        /\ \A m, r, ok : <<m, r, ok>> \in answers' => <<m, r, ok>> \in answers
    BY <1>0, TakesFacts
  <2>4. /\ requests' \subseteq Methods \X Sessions
        /\ \A r : <<"open", r>> \in requests' <=> <<"open", r>> \in requests
    BY <1>0, AsksFacts DEF Methods, SessionsTypeOK
  <2>5. SessionsTypeOK'
    BY <1>0, <2>1, <2>2, <2>3, <2>4 DEF SessionsTypeOK, pluginSessionVars
  <2>6. s \notin Streams /\ h # "abandoned" => Opened(s)
    BY <1>0, <2>1 DEF SessionInv, OpenedAt, Methods
  <2>7. s \notin Streams /\ h = "over" => LeftAlone(s)
    BY <2>1
  <2> HIDE <1>5 DEF StdioDropped, own_cleanup
  <2> QED
    BY <2>1, <2>2, <2>3, <2>4, <2>5, <2>6, <2>7, HandleMoves
<1>6. CASE PtyDropped(s)
  <2> USE <1>6 DEF PtyDropped, own_cleanup
  <2>1. PICK h \in {"cleanup"} : handle' = [handle EXCEPT ![s] = h]
    OBVIOUS
  <2>2. UNCHANGED pluginSessionVars /\ handle[s] # "idle"
    OBVIOUS
  <2>3. /\ answers' \subseteq Methods \X Sessions \X BOOLEAN
        /\ \A m, r, ok : <<m, r, ok>> \in answers' => <<m, r, ok>> \in answers
    BY <1>0, TakesFacts
  <2>4. /\ requests' \subseteq Methods \X Sessions
        /\ \A r : <<"open", r>> \in requests' <=> <<"open", r>> \in requests
    BY <1>0, AsksFacts DEF Methods, SessionsTypeOK
  <2>5. SessionsTypeOK'
    BY <1>0, <2>1, <2>2, <2>3, <2>4 DEF SessionsTypeOK, pluginSessionVars
  <2>6. s \notin Streams /\ h # "abandoned" => Opened(s)
    BY <1>0, <2>1 DEF SessionInv, OpenedAt, Methods
  <2>7. s \notin Streams /\ h = "over" => LeftAlone(s)
    BY <2>1
  <2> HIDE <1>6 DEF PtyDropped, own_cleanup
  <2> QED
    BY <2>1, <2>2, <2>3, <2>4, <2>5, <2>6, <2>7, HandleMoves
<1>7. CASE CleanupTimesOut(s)
  <2> USE <1>7 DEF CleanupTimesOut
  <2>1. PICK h \in {"failed"} : handle' = [handle EXCEPT ![s] = h]
    OBVIOUS
  <2>2. UNCHANGED pluginSessionVars /\ handle[s] # "idle"
    OBVIOUS
  <2>3. /\ answers' \subseteq Methods \X Sessions \X BOOLEAN
        /\ \A m, r, ok : <<m, r, ok>> \in answers' => <<m, r, ok>> \in answers
    BY <1>0, TakesFacts
  <2>4. /\ requests' \subseteq Methods \X Sessions
        /\ \A r : <<"open", r>> \in requests' <=> <<"open", r>> \in requests
    BY <1>0 DEF SessionsTypeOK
  <2>5. SessionsTypeOK'
    BY <1>0, <2>1, <2>2, <2>3, <2>4 DEF SessionsTypeOK, pluginSessionVars
  <2>6. s \notin Streams /\ h # "abandoned" => Opened(s)
    BY <1>0, <2>1 DEF SessionInv, OpenedAt, Methods
  <2>7. s \notin Streams /\ h = "over" => LeftAlone(s)
    BY <2>1
  <2> HIDE <1>7 DEF CleanupTimesOut
  <2> QED
    BY <2>1, <2>2, <2>3, <2>4, <2>5, <2>6, <2>7, HandleMoves
<1> QED
    BY <1>1, <1>2, <1>3, <1>4, <1>5, <1>6, <1>7 DEF HostSessionChoice

\* A step of the plugin about one session: what it may do with the others, and with the
\* answers of its own.
LEMMA PluginMoves ==
    ASSUME SInv, NEW s \in Sessions, handle' = handle, SessionsTypeOK', plugin' = plugin,
           draining' \subseteq draining, Cardinality(Spent') <= ActiveIo,
           \A r \in Sessions : r # s => Untouched(r),
           OpenAt(s)', HeldAt(s)', RegisteredAt(s)',
           s \notin Streams /\ Opened(s) => Opened(s)',
           s \notin Streams /\ Opened(s) /\ LeftAlone(s) => LeftAlone(s)',
           s \notin Streams =>
             \A m \in Methods, ok \in BOOLEAN : <<m, s, ok>> \in answers' =>
               \/ <<m, s, ok>> \in answers
               \/ Opened(s)' /\ (TellsEnd(m, s, ok) => LeftAlone(s)')
    PROVE  SInv'
<1>1. SessionInv(s)
    BY DEF SInv
<1>2. OpenedAt(s)'
    BY <1>1 DEF SessionInv, OpenedAt, Opened
<1>3. SettledAt(s)'
  <2>1. CASE s \in Streams
    BY <2>1 DEF SettledAt
  <2>2. CASE s \notin Streams
    <3>1. handle[s] = "over" => LeftAlone(s)'
      BY <1>1, <2>2 DEF SessionInv, SettledAt, OpenedAt
    <3>2. ASSUME NEW m \in Methods, NEW ok \in BOOLEAN, <<m, s, ok>> \in answers',
                 TellsEnd(m, s, ok)
          PROVE  LeftAlone(s)'
      <4>1. CASE <<m, s, ok>> \in answers
        BY <1>1, <2>2, <3>2, <4>1 DEF SessionInv, SettledAt, OpenedAt
      <4> QED
        BY <2>2, <3>2, <4>1
    <3> QED
      BY <2>2, <3>1, <3>2 DEF SettledAt, TellsEnd
  <2> QED
    BY <2>1, <2>2
<1> QED
    BY <1>2, <1>3, OneSession DEF SessionInv

\* OpenAdmitted keeps the sessions' invariant.
LEMMA OpenAdmittedSInv ==
    ASSUME SInv, NEW s \in Sessions, OpenAdmitted(s)
    PROVE  SInv'
<1> USE SessionsAssumption, KindsAssumption DEF OpenAdmitted, Inserts
<1>0. SessionsTypeOK /\ SessionInv(s) /\ Sessions = Stdios \cup Ptys \cup Streams
    BY DEF SInv, Sessions
<1>a. answers' = answers \/ \E k \in {"open"}, o \in BOOLEAN : Answer(k, s, o) /\ opening' = opening
    BY <1>0 DEF SessionsTypeOK
<1>1. /\ answers' \subseteq Methods \X Sessions \X BOOLEAN
      /\ \A k, r, o : <<k, r, o>> \in answers' =>
           \/ <<k, r, o>> \in answers
           \/ k \in {"open"} /\ r = s /\ o \in BOOLEAN /\ Answer(k, s, o) /\ Awaits(k, s)
  <2>1. OnlyAnswers({"open"}, s)
    BY <1>0, <1>a, AnswerFacts DEF Methods
  <2> QED
    BY <2>1 DEF OnlyAnswers
<1>2. SessionsTypeOK'
  <2>1. CASE Cardinality(Holders) < ActiveIo
    BY <1>0, <1>1, <2>1 DEF SessionsTypeOK
  <2>2. CASE ~(Cardinality(Holders) < ActiveIo)
    BY <1>0, <1>1, <2>2 DEF SessionsTypeOK
  <2> QED
    BY <2>1, <2>2
<1>3. ClosingPtys' = ClosingPtys
    BY DEF ClosingPtys
<1>4. \A r \in Sessions : r # s => Untouched(r)
  <2>1. CASE Cardinality(Holders) < ActiveIo
    BY <1>0, <1>1, <1>3, <2>1 DEF Untouched, SessionsTypeOK
  <2>2. CASE ~(Cardinality(Holders) < ActiveIo)
    BY <1>0, <1>1, <1>3, <2>2 DEF Untouched, SessionsTypeOK
  <2> QED
    BY <2>1, <2>2
<1>5. Cardinality(Spent') <= ActiveIo
  <2>0. plugin = "serving" /\ Spent = Holders /\ session' = session
    BY DEF SInv, SessionInv, HeldAt, Spent
  <2>1. CASE Cardinality(Holders) < ActiveIo
    <3>1. Spent' = Spent \cup {s}
      BY <1>0, <1>3, <2>0, <2>1 DEF SessionsTypeOK, Spent, Holders
    <3>2. IsFiniteSet(Spent) /\ Cardinality(Spent) \in Nat
      BY <1>0, SpentFinite, FS_CardinalityType
    <3>3. Cardinality(Spent') <= Cardinality(Spent) + 1
      <4>1. Cardinality(Spent') \in {Cardinality(Spent), Cardinality(Spent) + 1}
        BY <3>1, <3>2, FS_AddElement
      <4> QED
        BY <3>2, <4>1
    <3>4. Cardinality(Spent') \in Nat
      BY <3>1, <3>2, FS_AddElement, FS_CardinalityType
    <3> QED
      BY <2>0, <2>1, <3>2, <3>3, <3>4
  <2>2. CASE ~(Cardinality(Holders) < ActiveIo)
    <3>1. Spent' = Spent
      BY <1>3, <2>0, <2>2 DEF Holders, Spent
    <3> QED
      BY <3>1 DEF SInv
  <2> QED
    BY <2>1, <2>2
<1>6. OpenAt(s)'
  <2>1. CASE Cardinality(Holders) < ActiveIo
    BY <1>0, <2>1 DEF SessionsTypeOK, SessionInv, OpenAt, RegisteredAt, Opened
  <2>2. CASE ~(Cardinality(Holders) < ActiveIo)
    BY <1>0, <2>2 DEF SessionsTypeOK, SessionInv, OpenAt, RegisteredAt, Opened
  <2> QED
    BY <2>1, <2>2
<1>7. HeldAt(s)'
  <2>1. CASE Cardinality(Holders) < ActiveIo
    BY <1>0, <1>2, <1>3, <2>1 DEF SessionsTypeOK, SessionInv, OpenAt, HeldAt, Holders
  <2>2. CASE ~(Cardinality(Holders) < ActiveIo)
    BY <1>0, <1>2, <1>3, <2>2 DEF SessionsTypeOK, SessionInv, OpenAt, HeldAt, Holders
  <2> QED
    BY <2>1, <2>2
<1>b. RegisteredAt(s)'
  <2>1. CASE Cardinality(Holders) < ActiveIo
    BY <1>0, <1>2, <1>3, <2>1 DEF SessionsTypeOK, SessionInv, OpenAt, RegisteredAt, Opened
  <2>2. CASE ~(Cardinality(Holders) < ActiveIo)
    BY <1>0, <1>2, <1>3, <2>2 DEF SessionsTypeOK, SessionInv, OpenAt, RegisteredAt, Opened
  <2> QED
    BY <2>1, <2>2
<1>8. s \notin Streams /\ Opened(s) => Opened(s)' /\ (LeftAlone(s) => LeftAlone(s)')
  <2>1. CASE Cardinality(Holders) < ActiveIo
    BY <1>0, <1>2, <1>3, <2>1 DEF SessionsTypeOK, SessionInv, OpenAt, HeldAt, Opened, LeftAlone
  <2>2. CASE ~(Cardinality(Holders) < ActiveIo)
    BY <1>0, <1>2, <1>3, <2>2 DEF SessionsTypeOK, SessionInv, OpenAt, HeldAt, Opened, LeftAlone
  <2> QED
    BY <2>1, <2>2
<1>9. ASSUME s \notin Streams, NEW k \in Methods, NEW o \in BOOLEAN, <<k, s, o>> \in answers',
             <<k, s, o>> \notin answers
      PROVE  Opened(s)' /\ (TellsEnd(k, s, o) => LeftAlone(s)')
  <2>1. Opened(s)'
    BY <1>0, <1>a, <1>1, <1>9 DEF SessionsTypeOK, SessionInv, OpenAt, Opened
  <2>2. TellsEnd(k, s, o) => LeftAlone(s)'
    BY <1>0, <1>1, <1>2, <1>3, <1>9, <1>a DEF SessionsTypeOK, SessionInv, OpenAt, HeldAt,
       RegisteredAt, OpenedAt, Opened, LeftAlone, TellsEnd, Holders, Answer
  <2> QED
    BY <2>1, <2>2
<1>10. plugin' = plugin /\ handle' = handle /\ draining' \subseteq draining
    OBVIOUS
<1> HIDE DEF OpenAdmitted, Inserts
<1> QED
    BY <1>2, <1>4, <1>5, <1>6, <1>7, <1>8, <1>9, <1>10, <1>b, PluginMoves

\* ChannelOpened keeps the sessions' invariant.
LEMMA ChannelOpenedSInv ==
    ASSUME SInv, NEW s \in Sessions, ChannelOpened(s)
    PROVE  SInv'
<1> USE SessionsAssumption, KindsAssumption DEF ChannelOpened, AtWork, OpenOver, Removes
<1>0. SessionsTypeOK /\ SessionInv(s) /\ Sessions = Stdios \cup Ptys \cup Streams
    BY DEF SInv, Sessions
<1>a. answers' = answers \/ \E k \in {"open"}, o \in BOOLEAN : Answer(k, s, o) /\ opening'[s] = "none"
    BY <1>0 DEF SessionsTypeOK
<1>1. /\ answers' \subseteq Methods \X Sessions \X BOOLEAN
      /\ \A k, r, o : <<k, r, o>> \in answers' =>
           \/ <<k, r, o>> \in answers
           \/ k \in {"open"} /\ r = s /\ o \in BOOLEAN /\ Answer(k, s, o) /\ Awaits(k, s)
  <2>1. OnlyAnswers({"open"}, s)
    BY <1>0, <1>a, AnswerFacts DEF Methods
  <2> QED
    BY <2>1 DEF OnlyAnswers
<1>2. SessionsTypeOK'
    BY <1>0, <1>1 DEF SessionsTypeOK
<1>3. ClosingPtys' = ClosingPtys
    BY DEF ClosingPtys
<1>4. \A r \in Sessions : r # s => Untouched(r)
    BY <1>0, <1>1, <1>3 DEF Untouched, SessionsTypeOK
<1>5. Cardinality(Spent') <= ActiveIo
  <2>1. \A r \in Sessions : r \in Spent' => r \in Spent
    BY <1>0, <1>2, <1>3, <1>4 DEF SessionsTypeOK, SessionInv, OpenAt, Spent, Holders, Untouched
  <2>2. Spent' \subseteq Sessions
    BY <1>2, <1>3 DEF SessionsTypeOK, Spent, Holders, ClosingPtys, Sessions
  <2> QED
    BY <2>1, <2>2, SpentShrinks
<1>6. OpenAt(s)'
    BY <1>0 DEF SessionsTypeOK, SessionInv, OpenAt, RegisteredAt, Opened
<1>7. HeldAt(s)'
    BY <1>0, <1>2, <1>3 DEF SessionsTypeOK, SessionInv, OpenAt, HeldAt, Holders
<1>b. RegisteredAt(s)'
    BY <1>0, <1>2, <1>3 DEF SessionsTypeOK, SessionInv, OpenAt, RegisteredAt, Opened
<1>8. s \notin Streams /\ Opened(s) => Opened(s)' /\ (LeftAlone(s) => LeftAlone(s)')
    BY <1>0, <1>2, <1>3 DEF SessionsTypeOK, SessionInv, OpenAt, HeldAt, Opened, LeftAlone
<1>9. ASSUME s \notin Streams, NEW k \in Methods, NEW o \in BOOLEAN, <<k, s, o>> \in answers',
             <<k, s, o>> \notin answers
      PROVE  Opened(s)' /\ (TellsEnd(k, s, o) => LeftAlone(s)')
  <2>1. Opened(s)'
    BY <1>0, <1>a, <1>1, <1>9 DEF SessionsTypeOK, SessionInv, OpenAt, Opened
  <2>2. TellsEnd(k, s, o) => LeftAlone(s)'
    BY <1>0, <1>1, <1>2, <1>3, <1>9, <1>a DEF SessionsTypeOK, SessionInv, OpenAt, HeldAt,
       RegisteredAt, OpenedAt, Opened, LeftAlone, TellsEnd, Holders, Answer
  <2> QED
    BY <2>1, <2>2
<1>10. plugin' = plugin /\ handle' = handle /\ draining' \subseteq draining
    OBVIOUS
<1> HIDE DEF ChannelOpened, AtWork, OpenOver, Removes
<1> QED
    BY <1>2, <1>4, <1>5, <1>6, <1>7, <1>8, <1>9, <1>10, <1>b, PluginMoves

\* SessionStarts keeps the sessions' invariant.
LEMMA SessionStartsSInv ==
    ASSUME SInv, NEW s \in Sessions, SessionStarts(s)
    PROVE  SInv'
<1> USE SessionsAssumption, KindsAssumption DEF SessionStarts, AtWork, OpenOver, Inserts
<1>0. SessionsTypeOK /\ SessionInv(s) /\ Sessions = Stdios \cup Ptys \cup Streams
    BY DEF SInv, Sessions
<1>a. answers' = answers \/ \E k \in {"open"}, o \in BOOLEAN : Answer(k, s, o) /\ o = TRUE
    BY <1>0 DEF SessionsTypeOK
<1>1. /\ answers' \subseteq Methods \X Sessions \X BOOLEAN
      /\ \A k, r, o : <<k, r, o>> \in answers' =>
           \/ <<k, r, o>> \in answers
           \/ k \in {"open"} /\ r = s /\ o \in BOOLEAN /\ Answer(k, s, o) /\ Awaits(k, s)
  <2>1. OnlyAnswers({"open"}, s)
    BY <1>0, <1>a, AnswerFacts DEF Methods
  <2> QED
    BY <2>1 DEF OnlyAnswers
<1>2. SessionsTypeOK'
  <2>1. CASE s \in Streams
    BY <1>0, <1>1, <2>1 DEF SessionsTypeOK
  <2>2. CASE s \notin Streams
    BY <1>0, <1>1, <2>2 DEF SessionsTypeOK
  <2> QED
    BY <2>1, <2>2
<1>3. ClosingPtys' = ClosingPtys
    BY DEF ClosingPtys
<1>4. \A r \in Sessions : r # s => Untouched(r)
  <2>1. CASE s \in Streams
    BY <1>0, <1>1, <1>3, <2>1 DEF Untouched, SessionsTypeOK
  <2>2. CASE s \notin Streams
    BY <1>0, <1>1, <1>3, <2>2 DEF Untouched, SessionsTypeOK
  <2> QED
    BY <2>1, <2>2
<1>5. Cardinality(Spent') <= ActiveIo
  <2>1. \A r \in Sessions : r \in Spent' => r \in Spent
    BY <1>0, <1>2, <1>3, <1>4 DEF SessionsTypeOK, SessionInv, OpenAt, Spent, Holders, Untouched
  <2>2. Spent' \subseteq Sessions
    BY <1>2, <1>3 DEF SessionsTypeOK, Spent, Holders, ClosingPtys, Sessions
  <2> QED
    BY <2>1, <2>2, SpentShrinks
<1>6. OpenAt(s)'
  <2>1. CASE s \in Streams
    BY <1>0, <2>1 DEF SessionsTypeOK, SessionInv, OpenAt, RegisteredAt, Opened
  <2>2. CASE s \notin Streams
    BY <1>0, <2>2 DEF SessionsTypeOK, SessionInv, OpenAt, RegisteredAt, Opened
  <2> QED
    BY <2>1, <2>2
<1>7. HeldAt(s)'
  <2>1. CASE s \in Streams
    BY <1>0, <1>2, <1>3, <2>1 DEF SessionsTypeOK, SessionInv, OpenAt, HeldAt, Holders
  <2>2. CASE s \notin Streams
    BY <1>0, <1>2, <1>3, <2>2 DEF SessionsTypeOK, SessionInv, OpenAt, HeldAt, Holders
  <2> QED
    BY <2>1, <2>2
<1>b. RegisteredAt(s)'
  <2>1. CASE s \in Streams
    BY <1>0, <1>2, <1>3, <2>1 DEF SessionsTypeOK, SessionInv, OpenAt, RegisteredAt, Opened
  <2>2. CASE s \notin Streams
    BY <1>0, <1>2, <1>3, <2>2 DEF SessionsTypeOK, SessionInv, OpenAt, RegisteredAt, Opened
  <2> QED
    BY <2>1, <2>2
<1>8. s \notin Streams /\ Opened(s) => Opened(s)' /\ (LeftAlone(s) => LeftAlone(s)')
  <2>1. CASE s \in Streams
    BY <1>0, <1>2, <1>3, <2>1 DEF SessionsTypeOK, SessionInv, OpenAt, HeldAt, Opened, LeftAlone
  <2>2. CASE s \notin Streams
    BY <1>0, <1>2, <1>3, <2>2 DEF SessionsTypeOK, SessionInv, OpenAt, HeldAt, Opened, LeftAlone
  <2> QED
    BY <2>1, <2>2
<1>9. ASSUME s \notin Streams, NEW k \in Methods, NEW o \in BOOLEAN, <<k, s, o>> \in answers',
             <<k, s, o>> \notin answers
      PROVE  Opened(s)' /\ (TellsEnd(k, s, o) => LeftAlone(s)')
  <2>1. Opened(s)'
    BY <1>0, <1>a, <1>1, <1>9 DEF SessionsTypeOK, SessionInv, OpenAt, Opened
  <2>2. TellsEnd(k, s, o) => LeftAlone(s)'
    BY <1>0, <1>1, <1>2, <1>3, <1>9, <1>a DEF SessionsTypeOK, SessionInv, OpenAt, HeldAt,
       RegisteredAt, OpenedAt, Opened, LeftAlone, TellsEnd, Holders, Answer
  <2> QED
    BY <2>1, <2>2
<1>10. plugin' = plugin /\ handle' = handle /\ draining' \subseteq draining
    OBVIOUS
<1> HIDE DEF SessionStarts, AtWork, OpenOver, Inserts
<1> QED
    BY <1>2, <1>4, <1>5, <1>6, <1>7, <1>8, <1>9, <1>10, <1>b, PluginMoves

\* SessionRefused keeps the sessions' invariant.
LEMMA SessionRefusedSInv ==
    ASSUME SInv, NEW s \in Sessions, SessionRefused(s)
    PROVE  SInv'
<1> USE SessionsAssumption, KindsAssumption DEF SessionRefused, AtWork, OpenOver, Removes
<1>0. SessionsTypeOK /\ SessionInv(s) /\ Sessions = Stdios \cup Ptys \cup Streams
    BY DEF SInv, Sessions
<1>a. answers' = answers \/ \E k \in {"open"}, o \in BOOLEAN : Answer(k, s, o)
    BY <1>0 DEF SessionsTypeOK
<1>1. /\ answers' \subseteq Methods \X Sessions \X BOOLEAN
      /\ \A k, r, o : <<k, r, o>> \in answers' =>
           \/ <<k, r, o>> \in answers
           \/ k \in {"open"} /\ r = s /\ o \in BOOLEAN /\ Answer(k, s, o) /\ Awaits(k, s)
  <2>1. OnlyAnswers({"open"}, s)
    BY <1>0, <1>a, AnswerFacts DEF Methods
  <2> QED
    BY <2>1 DEF OnlyAnswers
<1>2. SessionsTypeOK'
    BY <1>0, <1>1 DEF SessionsTypeOK
<1>3. ClosingPtys' = ClosingPtys
    BY DEF ClosingPtys
<1>4. \A r \in Sessions : r # s => Untouched(r)
    BY <1>0, <1>1, <1>3 DEF Untouched, SessionsTypeOK
<1>5. Cardinality(Spent') <= ActiveIo
  <2>1. \A r \in Sessions : r \in Spent' => r \in Spent
    BY <1>0, <1>2, <1>3, <1>4 DEF SessionsTypeOK, SessionInv, OpenAt, Spent, Holders, Untouched
  <2>2. Spent' \subseteq Sessions
    BY <1>2, <1>3 DEF SessionsTypeOK, Spent, Holders, ClosingPtys, Sessions
  <2> QED
    BY <2>1, <2>2, SpentShrinks
<1>6. OpenAt(s)'
    BY <1>0 DEF SessionsTypeOK, SessionInv, OpenAt, RegisteredAt, Opened
<1>7. HeldAt(s)'
    BY <1>0, <1>2, <1>3 DEF SessionsTypeOK, SessionInv, OpenAt, HeldAt, Holders
<1>b. RegisteredAt(s)'
    BY <1>0, <1>2, <1>3 DEF SessionsTypeOK, SessionInv, OpenAt, RegisteredAt, Opened
<1>8. s \notin Streams /\ Opened(s) => Opened(s)' /\ (LeftAlone(s) => LeftAlone(s)')
    BY <1>0, <1>2, <1>3 DEF SessionsTypeOK, SessionInv, OpenAt, HeldAt, Opened, LeftAlone
<1>9. ASSUME s \notin Streams, NEW k \in Methods, NEW o \in BOOLEAN, <<k, s, o>> \in answers',
             <<k, s, o>> \notin answers
      PROVE  Opened(s)' /\ (TellsEnd(k, s, o) => LeftAlone(s)')
  <2>1. Opened(s)'
    BY <1>0, <1>a, <1>1, <1>9 DEF SessionsTypeOK, SessionInv, OpenAt, Opened
  <2>2. TellsEnd(k, s, o) => LeftAlone(s)'
    BY <1>0, <1>1, <1>2, <1>3, <1>9 DEF SessionsTypeOK, SessionInv, OpenAt, HeldAt, RegisteredAt,
       OpenedAt, Opened, LeftAlone, TellsEnd, Holders
  <2> QED
    BY <2>1, <2>2
<1>10. plugin' = plugin /\ handle' = handle /\ draining' \subseteq draining
    OBVIOUS
<1> HIDE DEF SessionRefused, AtWork, OpenOver, Removes
<1> QED
    BY <1>2, <1>4, <1>5, <1>6, <1>7, <1>8, <1>9, <1>10, <1>b, PluginMoves

\* SessionExits keeps the sessions' invariant.
LEMMA SessionExitsSInv ==
    ASSUME SInv, NEW s \in Sessions, SessionExits(s)
    PROVE  SInv'
<1> USE SessionsAssumption, KindsAssumption DEF SessionExits, hostSessionVars
<1>0. SessionsTypeOK /\ SessionInv(s) /\ Sessions = Stdios \cup Ptys \cup Streams
    BY DEF SInv, Sessions
<1>1. answers' = answers /\ answers \subseteq Methods \X Sessions \X BOOLEAN
    BY <1>0 DEF SessionsTypeOK
<1>2. SessionsTypeOK'
    BY <1>0, <1>1 DEF SessionsTypeOK
<1>3. ClosingPtys' = ClosingPtys
    BY DEF ClosingPtys
<1>4. \A r \in Sessions : r # s => Untouched(r)
    BY <1>0, <1>1, <1>3 DEF Untouched, SessionsTypeOK
<1>5. Cardinality(Spent') <= ActiveIo
  <2>1. \A r \in Sessions : r \in Spent' => r \in Spent
    BY <1>0, <1>2, <1>3, <1>4 DEF SessionsTypeOK, SessionInv, OpenAt, Spent, Holders, Untouched
  <2>2. Spent' \subseteq Sessions
    BY <1>2, <1>3 DEF SessionsTypeOK, Spent, Holders, ClosingPtys, Sessions
  <2> QED
    BY <2>1, <2>2, SpentShrinks
<1>6. OpenAt(s)'
    BY <1>0 DEF SessionsTypeOK, SessionInv, OpenAt, RegisteredAt, Opened
<1>7. HeldAt(s)'
    BY <1>0, <1>2, <1>3 DEF SessionsTypeOK, SessionInv, OpenAt, HeldAt, Holders
<1>b. RegisteredAt(s)'
    BY <1>0, <1>2, <1>3 DEF SessionsTypeOK, SessionInv, OpenAt, RegisteredAt, Opened
<1>8. s \notin Streams /\ Opened(s) => Opened(s)' /\ (LeftAlone(s) => LeftAlone(s)')
    BY <1>0, <1>2, <1>3 DEF SessionsTypeOK, SessionInv, OpenAt, HeldAt, Opened, LeftAlone
<1>9. ASSUME s \notin Streams, NEW k \in Methods, NEW o \in BOOLEAN, <<k, s, o>> \in answers',
             <<k, s, o>> \notin answers
      PROVE  Opened(s)' /\ (TellsEnd(k, s, o) => LeftAlone(s)')
  <2>1. Opened(s)'
    BY <1>1, <1>9
  <2>2. TellsEnd(k, s, o) => LeftAlone(s)'
    BY <1>1, <1>9
  <2> QED
    BY <2>1, <2>2
<1>10. plugin' = plugin /\ handle' = handle /\ draining' \subseteq draining
    OBVIOUS
<1> HIDE DEF SessionExits, hostSessionVars
<1> QED
    BY <1>2, <1>4, <1>5, <1>6, <1>7, <1>8, <1>9, <1>10, <1>b, PluginMoves

\* FollowEnds keeps the sessions' invariant.
LEMMA FollowEndsSInv ==
    ASSUME SInv, NEW s \in Sessions, FollowEnds(s)
    PROVE  SInv'
<1> USE SessionsAssumption, KindsAssumption DEF FollowEnds, AtWork, OpenOver, Removes
<1>0. SessionsTypeOK /\ SessionInv(s) /\ Sessions = Stdios \cup Ptys \cup Streams
    BY DEF SInv, Sessions
<1>a. answers' = answers \/ \E k \in {"open"}, o \in BOOLEAN : Answer(k, s, o)
    BY <1>0 DEF SessionsTypeOK
<1>1. /\ answers' \subseteq Methods \X Sessions \X BOOLEAN
      /\ \A k, r, o : <<k, r, o>> \in answers' =>
           \/ <<k, r, o>> \in answers
           \/ k \in {"open"} /\ r = s /\ o \in BOOLEAN /\ Answer(k, s, o) /\ Awaits(k, s)
  <2>1. OnlyAnswers({"open"}, s)
    BY <1>0, <1>a, AnswerFacts DEF Methods
  <2> QED
    BY <2>1 DEF OnlyAnswers
<1>2. SessionsTypeOK'
    BY <1>0, <1>1 DEF SessionsTypeOK
<1>3. ClosingPtys' = ClosingPtys
    BY DEF ClosingPtys
<1>4. \A r \in Sessions : r # s => Untouched(r)
    BY <1>0, <1>1, <1>3 DEF Untouched, SessionsTypeOK
<1>5. Cardinality(Spent') <= ActiveIo
  <2>1. \A r \in Sessions : r \in Spent' => r \in Spent
    BY <1>0, <1>2, <1>3, <1>4 DEF SessionsTypeOK, SessionInv, OpenAt, Spent, Holders, Untouched
  <2>2. Spent' \subseteq Sessions
    BY <1>2, <1>3 DEF SessionsTypeOK, Spent, Holders, ClosingPtys, Sessions
  <2> QED
    BY <2>1, <2>2, SpentShrinks
<1>6. OpenAt(s)'
    BY <1>0 DEF SessionsTypeOK, SessionInv, OpenAt, RegisteredAt, Opened
<1>7. HeldAt(s)'
    BY <1>0, <1>2, <1>3 DEF SessionsTypeOK, SessionInv, OpenAt, HeldAt, Holders
<1>b. RegisteredAt(s)'
    BY <1>0, <1>2, <1>3 DEF SessionsTypeOK, SessionInv, OpenAt, RegisteredAt, Opened
<1>8. s \notin Streams /\ Opened(s) => Opened(s)' /\ (LeftAlone(s) => LeftAlone(s)')
    BY <1>0, <1>2, <1>3 DEF SessionsTypeOK, SessionInv, OpenAt, HeldAt, Opened, LeftAlone
<1>9. ASSUME s \notin Streams, NEW k \in Methods, NEW o \in BOOLEAN, <<k, s, o>> \in answers',
             <<k, s, o>> \notin answers
      PROVE  Opened(s)' /\ (TellsEnd(k, s, o) => LeftAlone(s)')
  <2>1. Opened(s)'
    BY <1>0, <1>a, <1>1, <1>9 DEF SessionsTypeOK, SessionInv, OpenAt, Opened
  <2>2. TellsEnd(k, s, o) => LeftAlone(s)'
    BY <1>0, <1>1, <1>2, <1>3, <1>9 DEF SessionsTypeOK, SessionInv, OpenAt, HeldAt, RegisteredAt,
       OpenedAt, Opened, LeftAlone, TellsEnd, Holders
  <2> QED
    BY <2>1, <2>2
<1>10. plugin' = plugin /\ handle' = handle /\ draining' \subseteq draining
    OBVIOUS
<1> HIDE DEF FollowEnds, AtWork, OpenOver, Removes
<1> QED
    BY <1>2, <1>4, <1>5, <1>6, <1>7, <1>8, <1>9, <1>10, <1>b, PluginMoves

\* TerminateHandled keeps the sessions' invariant.
LEMMA TerminateHandledSInv ==
    ASSUME SInv, NEW s \in Sessions, TerminateHandled(s)
    PROVE  SInv'
<1> USE SessionsAssumption, KindsAssumption DEF TerminateHandled, AtWork
<1>0. SessionsTypeOK /\ SessionInv(s) /\ Sessions = Stdios \cup Ptys \cup Streams
    BY DEF SInv, Sessions
<1>a. answers' = answers \/ \E k \in {"drop"}, o \in BOOLEAN : Answer(k, s, o)
    BY AnswerIsKnown
<1>1. /\ answers' \subseteq Methods \X Sessions \X BOOLEAN
      /\ \A k, r, o : <<k, r, o>> \in answers' =>
           \/ <<k, r, o>> \in answers
           \/ k \in {"drop"} /\ r = s /\ o \in BOOLEAN /\ Answer(k, s, o) /\ Awaits(k, s)
  <2>1. OnlyAnswers({"drop"}, s)
    BY <1>0, <1>a, AnswerFacts DEF Methods
  <2> QED
    BY <2>1 DEF OnlyAnswers
<1>2. SessionsTypeOK'
    BY <1>0, <1>1 DEF SessionsTypeOK
<1>3. ClosingPtys' = ClosingPtys
    BY DEF ClosingPtys
<1>4. \A r \in Sessions : r # s => Untouched(r)
    BY <1>0, <1>1, <1>3 DEF Untouched, SessionsTypeOK
<1>5. Cardinality(Spent') <= ActiveIo
  <2>1. \A r \in Sessions : r \in Spent' => r \in Spent
    BY <1>0, <1>2, <1>3, <1>4 DEF SessionsTypeOK, SessionInv, OpenAt, Spent, Holders, Untouched
  <2>2. Spent' \subseteq Sessions
    BY <1>2, <1>3 DEF SessionsTypeOK, Spent, Holders, ClosingPtys, Sessions
  <2> QED
    BY <2>1, <2>2, SpentShrinks
<1>6. OpenAt(s)'
    BY <1>0 DEF SessionsTypeOK, SessionInv, OpenAt, RegisteredAt, Opened
<1>7. HeldAt(s)'
    BY <1>0, <1>2, <1>3 DEF SessionsTypeOK, SessionInv, OpenAt, HeldAt, Holders
<1>b. RegisteredAt(s)'
    BY <1>0, <1>2, <1>3 DEF SessionsTypeOK, SessionInv, OpenAt, RegisteredAt, Opened
<1>8. s \notin Streams /\ Opened(s) => Opened(s)' /\ (LeftAlone(s) => LeftAlone(s)')
    BY <1>0, <1>2, <1>3 DEF SessionsTypeOK, SessionInv, OpenAt, HeldAt, Opened, LeftAlone
<1>9. ASSUME s \notin Streams, NEW k \in Methods, NEW o \in BOOLEAN, <<k, s, o>> \in answers',
             <<k, s, o>> \notin answers
      PROVE  Opened(s)' /\ (TellsEnd(k, s, o) => LeftAlone(s)')
  <2>1. Opened(s)'
    BY <1>0, <1>1, <1>8, <1>9 DEF SessionInv, OpenedAt, Awaits
  <2>2. TellsEnd(k, s, o) => LeftAlone(s)'
    BY <1>0, <1>1, <1>2, <1>3, <1>9 DEF SessionsTypeOK, SessionInv, OpenAt, HeldAt, RegisteredAt,
       OpenedAt, Opened, LeftAlone, TellsEnd, Holders
  <2> QED
    BY <2>1, <2>2
<1>10. plugin' = plugin /\ handle' = handle /\ draining' \subseteq draining
    OBVIOUS
<1> HIDE DEF TerminateHandled, AtWork
<1> QED
    BY <1>2, <1>4, <1>5, <1>6, <1>7, <1>8, <1>9, <1>10, <1>b, PluginMoves

\* WaitHandled keeps the sessions' invariant.
LEMMA WaitHandledSInv ==
    ASSUME SInv, NEW s \in Sessions, WaitHandled(s)
    PROVE  SInv'
<1> USE SessionsAssumption, KindsAssumption DEF WaitHandled, AtWork, Removes
<1>0. SessionsTypeOK /\ SessionInv(s) /\ Sessions = Stdios \cup Ptys \cup Streams
    BY DEF SInv, Sessions
<1>a. answers' = answers \/ \E k \in {"wait", "reap"}, o \in BOOLEAN : Answer(k, s, o) /\ (o = TRUE => s \in registry)
    BY AnswerIsKnown
<1>1. /\ answers' \subseteq Methods \X Sessions \X BOOLEAN
      /\ \A k, r, o : <<k, r, o>> \in answers' =>
           \/ <<k, r, o>> \in answers
           \/ k \in {"wait", "reap"} /\ r = s /\ o \in BOOLEAN /\ Answer(k, s, o) /\ Awaits(k, s)
  <2>1. OnlyAnswers({"wait", "reap"}, s)
    BY <1>0, <1>a, AnswerFacts DEF Methods
  <2> QED
    BY <2>1 DEF OnlyAnswers
<1>2. SessionsTypeOK'
    BY <1>0, <1>1 DEF SessionsTypeOK
<1>3. ClosingPtys' = ClosingPtys
    BY DEF ClosingPtys
<1>4. \A r \in Sessions : r # s => Untouched(r)
    BY <1>0, <1>1, <1>3 DEF Untouched, SessionsTypeOK
<1>5. Cardinality(Spent') <= ActiveIo
  <2>1. \A r \in Sessions : r \in Spent' => r \in Spent
    BY <1>0, <1>2, <1>3, <1>4 DEF SessionsTypeOK, SessionInv, OpenAt, Spent, Holders, Untouched
  <2>2. Spent' \subseteq Sessions
    BY <1>2, <1>3 DEF SessionsTypeOK, Spent, Holders, ClosingPtys, Sessions
  <2> QED
    BY <2>1, <2>2, SpentShrinks
<1>6. OpenAt(s)'
    BY <1>0 DEF SessionsTypeOK, SessionInv, OpenAt, RegisteredAt, Opened
<1>7. HeldAt(s)'
    BY <1>0, <1>2, <1>3 DEF SessionsTypeOK, SessionInv, OpenAt, HeldAt, Holders
<1>b. RegisteredAt(s)'
    BY <1>0, <1>2, <1>3 DEF SessionsTypeOK, SessionInv, OpenAt, RegisteredAt, Opened
<1>8. s \notin Streams /\ Opened(s) => Opened(s)' /\ (LeftAlone(s) => LeftAlone(s)')
    BY <1>0, <1>2, <1>3 DEF SessionsTypeOK, SessionInv, OpenAt, HeldAt, Opened, LeftAlone
<1>9. ASSUME s \notin Streams, NEW k \in Methods, NEW o \in BOOLEAN, <<k, s, o>> \in answers',
             <<k, s, o>> \notin answers
      PROVE  Opened(s)' /\ (TellsEnd(k, s, o) => LeftAlone(s)')
  <2>1. Opened(s)'
    BY <1>0, <1>1, <1>8, <1>9 DEF SessionInv, OpenedAt, Awaits
  <2>2. TellsEnd(k, s, o) => LeftAlone(s)'
    BY <1>0, <1>1, <1>2, <1>3, <1>9, <1>a DEF SessionsTypeOK, SessionInv, OpenAt, HeldAt,
       RegisteredAt, OpenedAt, Opened, LeftAlone, TellsEnd, Holders, Answer
  <2> QED
    BY <2>1, <2>2
<1>10. plugin' = plugin /\ handle' = handle /\ draining' \subseteq draining
    OBVIOUS
<1> HIDE DEF WaitHandled, AtWork, Removes
<1> QED
    BY <1>2, <1>4, <1>5, <1>6, <1>7, <1>8, <1>9, <1>10, <1>b, PluginMoves

\* CancelHandled keeps the sessions' invariant.
LEMMA CancelHandledSInv ==
    ASSUME SInv, NEW s \in Sessions, CancelHandled(s)
    PROVE  SInv'
<1> USE SessionsAssumption, KindsAssumption DEF CancelHandled, AtWork
<1>0. SessionsTypeOK /\ SessionInv(s) /\ Sessions = Stdios \cup Ptys \cup Streams
    BY DEF SInv, Sessions
<1>a. answers' = answers \/ \E k \in {"drop"}, o \in BOOLEAN : Answer(k, s, o)
    BY <1>0 DEF SessionsTypeOK
<1>1. /\ answers' \subseteq Methods \X Sessions \X BOOLEAN
      /\ \A k, r, o : <<k, r, o>> \in answers' =>
           \/ <<k, r, o>> \in answers
           \/ k \in {"drop"} /\ r = s /\ o \in BOOLEAN /\ Answer(k, s, o) /\ Awaits(k, s)
  <2>1. OnlyAnswers({"drop"}, s)
    BY <1>0, <1>a, AnswerFacts DEF Methods
  <2> QED
    BY <2>1 DEF OnlyAnswers
<1>2. SessionsTypeOK'
    BY <1>0, <1>1 DEF SessionsTypeOK
<1>3. ClosingPtys' = ClosingPtys
    BY DEF ClosingPtys
<1>4. \A r \in Sessions : r # s => Untouched(r)
    BY <1>0, <1>1, <1>3 DEF Untouched, SessionsTypeOK
<1>5. Cardinality(Spent') <= ActiveIo
  <2>1. \A r \in Sessions : r \in Spent' => r \in Spent
    BY <1>0, <1>2, <1>3, <1>4 DEF SessionsTypeOK, SessionInv, OpenAt, Spent, Holders, Untouched
  <2>2. Spent' \subseteq Sessions
    BY <1>2, <1>3 DEF SessionsTypeOK, Spent, Holders, ClosingPtys, Sessions
  <2> QED
    BY <2>1, <2>2, SpentShrinks
<1>6. OpenAt(s)'
    BY <1>0 DEF SessionsTypeOK, SessionInv, OpenAt, RegisteredAt, Opened
<1>7. HeldAt(s)'
    BY <1>0, <1>2, <1>3 DEF SessionsTypeOK, SessionInv, OpenAt, HeldAt, Holders
<1>b. RegisteredAt(s)'
    BY <1>0, <1>2, <1>3 DEF SessionsTypeOK, SessionInv, OpenAt, RegisteredAt, Opened
<1>8. s \notin Streams /\ Opened(s) => Opened(s)' /\ (LeftAlone(s) => LeftAlone(s)')
    BY <1>0, <1>2, <1>3 DEF SessionsTypeOK, SessionInv, OpenAt, HeldAt, Opened, LeftAlone
<1>9. ASSUME s \notin Streams, NEW k \in Methods, NEW o \in BOOLEAN, <<k, s, o>> \in answers',
             <<k, s, o>> \notin answers
      PROVE  Opened(s)' /\ (TellsEnd(k, s, o) => LeftAlone(s)')
  <2>1. Opened(s)'
    BY <1>0, <1>1, <1>8, <1>9 DEF SessionInv, OpenedAt, Awaits
  <2>2. TellsEnd(k, s, o) => LeftAlone(s)'
    BY <1>0, <1>1, <1>2, <1>3, <1>9 DEF SessionsTypeOK, SessionInv, OpenAt, HeldAt, RegisteredAt,
       OpenedAt, Opened, LeftAlone, TellsEnd, Holders
  <2> QED
    BY <2>1, <2>2
<1>10. plugin' = plugin /\ handle' = handle /\ draining' \subseteq draining
    OBVIOUS
<1> HIDE DEF CancelHandled, AtWork
<1> QED
    BY <1>2, <1>4, <1>5, <1>6, <1>7, <1>8, <1>9, <1>10, <1>b, PluginMoves

\* PtyCloseHandled keeps the sessions' invariant.
LEMMA PtyCloseHandledSInv ==
    ASSUME SInv, NEW s \in Sessions, PtyCloseHandled(s)
    PROVE  SInv'
<1> USE SessionsAssumption, KindsAssumption DEF PtyCloseHandled, AtWork, Removes
<1>0. SessionsTypeOK /\ SessionInv(s) /\ Sessions = Stdios \cup Ptys \cup Streams
    BY DEF SInv, Sessions
<1>a. answers' = answers \/ \E k \in {"close", "drop"}, o \in BOOLEAN : Answer(k, s, o) /\ s \notin registry
    BY <1>0 DEF SessionsTypeOK
<1>1. /\ answers' \subseteq Methods \X Sessions \X BOOLEAN
      /\ \A k, r, o : <<k, r, o>> \in answers' =>
           \/ <<k, r, o>> \in answers
           \/ k \in {"close", "drop"} /\ r = s /\ o \in BOOLEAN /\ Answer(k, s, o) /\ Awaits(k, s)
  <2>1. OnlyAnswers({"close", "drop"}, s)
    BY <1>0, <1>a, AnswerFacts DEF Methods
  <2> QED
    BY <2>1 DEF OnlyAnswers
<1>2. SessionsTypeOK'
  <2>1. CASE s \in registry
    BY <1>0, <1>1, <2>1 DEF SessionsTypeOK
  <2>2. CASE s \notin registry
    BY <1>0, <1>1, <2>2 DEF SessionsTypeOK
  <2> QED
    BY <2>1, <2>2
<1>3. \A r : r # s => (r \in ClosingPtys' <=> r \in ClosingPtys)
  <2>1. CASE s \in registry
    BY <1>0, <1>2, InClosing, <2>1 DEF SessionsTypeOK, ClosingPtys
  <2>2. CASE s \notin registry
    BY <1>0, <1>2, InClosing, <2>2 DEF SessionsTypeOK, ClosingPtys
  <2> QED
    BY <2>1, <2>2
<1>4. \A r \in Sessions : r # s => Untouched(r)
  <2>1. CASE s \in registry
    BY <1>0, <1>1, <1>3, <2>1 DEF Untouched, SessionsTypeOK
  <2>2. CASE s \notin registry
    BY <1>0, <1>1, <1>3, <2>2 DEF Untouched, SessionsTypeOK
  <2> QED
    BY <2>1, <2>2
<1>5. Cardinality(Spent') <= ActiveIo
  <2>1. \A r \in Sessions : r \in Spent' => r \in Spent
    <3>1. CASE s \in registry
      BY <1>0, <1>2, <1>3, <1>4, InClosing, <3>1 DEF SessionsTypeOK, SessionInv, OpenAt, Spent, Holders, Untouched, ClosingPtys
    <3>2. CASE s \notin registry
      BY <1>0, <1>2, <1>3, <1>4, InClosing, <3>2 DEF SessionsTypeOK, SessionInv, OpenAt, Spent, Holders, Untouched, ClosingPtys
    <3> QED
      BY <3>1, <3>2
  <2>2. Spent' \subseteq Sessions
    BY <1>2, <1>3 DEF SessionsTypeOK, Spent, Holders, ClosingPtys, Sessions
  <2> QED
    BY <2>1, <2>2, SpentShrinks
<1>6. OpenAt(s)'
  <2>1. CASE s \in registry
    BY <1>0, InClosing, <2>1 DEF SessionsTypeOK, SessionInv, OpenAt, RegisteredAt, Opened,
       ClosingPtys
  <2>2. CASE s \notin registry
    BY <1>0, InClosing, <2>2 DEF SessionsTypeOK, SessionInv, OpenAt, RegisteredAt, Opened,
       ClosingPtys
  <2> QED
    BY <2>1, <2>2
<1>7. HeldAt(s)'
  <2>1. CASE s \in registry
    BY <1>0, <1>2, <1>3, InClosing, <2>1 DEF SessionsTypeOK, SessionInv, OpenAt, HeldAt, Holders,
       ClosingPtys
  <2>2. CASE s \notin registry
    BY <1>0, <1>2, <1>3, InClosing, <2>2 DEF SessionsTypeOK, SessionInv, OpenAt, HeldAt, Holders,
       ClosingPtys
  <2> QED
    BY <2>1, <2>2
<1>b. RegisteredAt(s)'
  <2>1. CASE s \in registry
    BY <1>0, <1>2, <1>3, InClosing, <2>1 DEF SessionsTypeOK, SessionInv, OpenAt, RegisteredAt,
       Opened, ClosingPtys
  <2>2. CASE s \notin registry
    BY <1>0, <1>2, <1>3, InClosing, <2>2 DEF SessionsTypeOK, SessionInv, OpenAt, RegisteredAt,
       Opened, ClosingPtys
  <2> QED
    BY <2>1, <2>2
<1>8. s \notin Streams /\ Opened(s) => Opened(s)' /\ (LeftAlone(s) => LeftAlone(s)')
  <2>1. CASE s \in registry
    BY <1>0, <1>2, <1>3, InClosing, <2>1 DEF SessionsTypeOK, SessionInv, OpenAt, HeldAt, Opened,
       LeftAlone, ClosingPtys
  <2>2. CASE s \notin registry
    BY <1>0, <1>2, <1>3, InClosing, <2>2 DEF SessionsTypeOK, SessionInv, OpenAt, HeldAt, Opened,
       LeftAlone, ClosingPtys
  <2> QED
    BY <2>1, <2>2
<1>9. ASSUME s \notin Streams, NEW k \in Methods, NEW o \in BOOLEAN, <<k, s, o>> \in answers',
             <<k, s, o>> \notin answers
      PROVE  Opened(s)' /\ (TellsEnd(k, s, o) => LeftAlone(s)')
  <2>1. Opened(s)'
    BY <1>0, <1>1, <1>8, <1>9 DEF SessionInv, OpenedAt, Awaits
  <2>2. s \notin registry /\ plugin \in {"serving", "closing"}
    BY <1>0, <1>a, <1>9 DEF SessionsTypeOK
  <2>3. UNCHANGED <<session, closeFailed, cutOff, draining, closingPty, opening>>
    BY <2>2
  <2>4. opening[s] = "none"
    BY <2>1, <2>3 DEF Opened
  <2>5. session[s] = "live" => s \in closeFailed \cup ClosingPtys \cup draining
    BY <1>0, <2>2, <2>4 DEF SessionInv, HeldAt, Holders
  <2>6. LeftAlone(s)'
    BY <2>3, <2>5 DEF LeftAlone, ClosingPtys
  <2> QED
    BY <2>1, <2>6
<1>10. plugin' = plugin /\ handle' = handle /\ draining' \subseteq draining
    OBVIOUS
<1> HIDE DEF PtyCloseHandled, AtWork, Removes
<1> QED
    BY <1>2, <1>4, <1>5, <1>6, <1>7, <1>8, <1>9, <1>10, <1>b, PluginMoves

\* PtyClosed keeps the sessions' invariant.
LEMMA PtyClosedSInv ==
    ASSUME SInv, NEW s \in Sessions, PtyClosed(s)
    PROVE  SInv'
<1> USE SessionsAssumption, KindsAssumption DEF PtyClosed, AtWork
<1>0. SessionsTypeOK /\ SessionInv(s) /\ Sessions = Stdios \cup Ptys \cup Streams
    BY DEF SInv, Sessions
<1>a. answers' = answers \/ \E k \in {"close", "drop"}, o \in BOOLEAN : Answer(k, s, o)
    BY <1>0 DEF SessionsTypeOK
<1>1. /\ answers' \subseteq Methods \X Sessions \X BOOLEAN
      /\ \A k, r, o : <<k, r, o>> \in answers' =>
           \/ <<k, r, o>> \in answers
           \/ k \in {"close", "drop"} /\ r = s /\ o \in BOOLEAN /\ Answer(k, s, o) /\ Awaits(k, s)
  <2>1. OnlyAnswers({"close", "drop"}, s)
    BY <1>0, <1>a, AnswerFacts DEF Methods
  <2> QED
    BY <2>1 DEF OnlyAnswers
<1>2. SessionsTypeOK'
    BY <1>0, <1>1 DEF SessionsTypeOK
<1>3. \A r : r # s => (r \in ClosingPtys' <=> r \in ClosingPtys)
    BY <1>0, <1>2, InClosing DEF SessionsTypeOK, ClosingPtys
<1>4. \A r \in Sessions : r # s => Untouched(r)
    BY <1>0, <1>1, <1>3 DEF Untouched, SessionsTypeOK
<1>5. Cardinality(Spent') <= ActiveIo
  <2>1. \A r \in Sessions : r \in Spent' => r \in Spent
    BY <1>0, <1>2, <1>3, <1>4, InClosing DEF SessionsTypeOK, SessionInv, OpenAt, Spent, Holders, Untouched, ClosingPtys
  <2>2. Spent' \subseteq Sessions
    BY <1>2, <1>3 DEF SessionsTypeOK, Spent, Holders, ClosingPtys, Sessions
  <2> QED
    BY <2>1, <2>2, SpentShrinks
<1>6. OpenAt(s)'
    BY <1>0, InClosing DEF SessionsTypeOK, SessionInv, OpenAt, RegisteredAt, Opened, ClosingPtys
<1>7. HeldAt(s)'
    BY <1>0, <1>2, <1>3, InClosing DEF SessionsTypeOK, SessionInv, OpenAt, HeldAt, Holders,
       ClosingPtys
<1>b. RegisteredAt(s)'
    BY <1>0, <1>2, <1>3, InClosing DEF SessionsTypeOK, SessionInv, OpenAt, RegisteredAt, Opened,
       ClosingPtys
<1>8. s \notin Streams /\ Opened(s) => Opened(s)' /\ (LeftAlone(s) => LeftAlone(s)')
    BY <1>0, <1>2, <1>3, InClosing DEF SessionsTypeOK, SessionInv, OpenAt, HeldAt, Opened,
       LeftAlone, ClosingPtys
<1>9. ASSUME s \notin Streams, NEW k \in Methods, NEW o \in BOOLEAN, <<k, s, o>> \in answers',
             <<k, s, o>> \notin answers
      PROVE  Opened(s)' /\ (TellsEnd(k, s, o) => LeftAlone(s)')
  <2>1. Opened(s)'
    BY <1>0, <1>1, <1>8, <1>9 DEF SessionInv, OpenedAt, Awaits
  <2>2. TellsEnd(k, s, o) => LeftAlone(s)'
    BY <1>0, <1>1, <1>2, <1>3, <1>9, InClosing DEF SessionsTypeOK, SessionInv, OpenAt, HeldAt,
       RegisteredAt, OpenedAt, Opened, LeftAlone, TellsEnd, Holders, ClosingPtys
  <2> QED
    BY <2>1, <2>2
<1>10. plugin' = plugin /\ handle' = handle /\ draining' \subseteq draining
    OBVIOUS
<1> HIDE DEF PtyClosed, AtWork
<1> QED
    BY <1>2, <1>4, <1>5, <1>6, <1>7, <1>8, <1>9, <1>10, <1>b, PluginMoves

\* PtyCloseFails keeps the sessions' invariant.
LEMMA PtyCloseFailsSInv ==
    ASSUME SInv, NEW s \in Sessions, PtyCloseFails(s)
    PROVE  SInv'
<1> USE SessionsAssumption, KindsAssumption DEF PtyCloseFails, AtWork, Inserts
<1>0. SessionsTypeOK /\ SessionInv(s) /\ Sessions = Stdios \cup Ptys \cup Streams
    BY DEF SInv, Sessions
<1>a. answers' = answers \/ \E k \in {"close", "drop"}, o \in BOOLEAN : Answer(k, s, o)
    BY <1>0 DEF SessionsTypeOK
<1>1. /\ answers' \subseteq Methods \X Sessions \X BOOLEAN
      /\ \A k, r, o : <<k, r, o>> \in answers' =>
           \/ <<k, r, o>> \in answers
           \/ k \in {"close", "drop"} /\ r = s /\ o \in BOOLEAN /\ Answer(k, s, o) /\ Awaits(k, s)
  <2>1. OnlyAnswers({"close", "drop"}, s)
    BY <1>0, <1>a, AnswerFacts DEF Methods
  <2> QED
    BY <2>1 DEF OnlyAnswers
<1>2. SessionsTypeOK'
    BY <1>0, <1>1 DEF SessionsTypeOK
<1>3. \A r : r # s => (r \in ClosingPtys' <=> r \in ClosingPtys)
    BY <1>0, <1>2, InClosing DEF SessionsTypeOK, ClosingPtys
<1>4. \A r \in Sessions : r # s => Untouched(r)
    BY <1>0, <1>1, <1>3 DEF Untouched, SessionsTypeOK
<1>5. Cardinality(Spent') <= ActiveIo
  <2>1. \A r \in Sessions : r \in Spent' => r \in Spent
    BY <1>0, <1>2, <1>3, <1>4, InClosing DEF SessionsTypeOK, SessionInv, OpenAt, Spent, Holders, Untouched, ClosingPtys
  <2>2. Spent' \subseteq Sessions
    BY <1>2, <1>3 DEF SessionsTypeOK, Spent, Holders, ClosingPtys, Sessions
  <2> QED
    BY <2>1, <2>2, SpentShrinks
<1>6. OpenAt(s)'
    BY <1>0, InClosing DEF SessionsTypeOK, SessionInv, OpenAt, RegisteredAt, Opened, ClosingPtys
<1>7. HeldAt(s)'
    BY <1>0, <1>2, <1>3, InClosing DEF SessionsTypeOK, SessionInv, OpenAt, HeldAt, Holders,
       ClosingPtys
<1>b. RegisteredAt(s)'
    BY <1>0, <1>2, <1>3, InClosing DEF SessionsTypeOK, SessionInv, OpenAt, RegisteredAt, Opened,
       ClosingPtys
<1>8. s \notin Streams /\ Opened(s) => Opened(s)' /\ (LeftAlone(s) => LeftAlone(s)')
    BY <1>0, <1>2, <1>3, InClosing DEF SessionsTypeOK, SessionInv, OpenAt, HeldAt, Opened,
       LeftAlone, ClosingPtys
<1>9. ASSUME s \notin Streams, NEW k \in Methods, NEW o \in BOOLEAN, <<k, s, o>> \in answers',
             <<k, s, o>> \notin answers
      PROVE  Opened(s)' /\ (TellsEnd(k, s, o) => LeftAlone(s)')
  <2>1. Opened(s)'
    BY <1>0, <1>1, <1>8, <1>9 DEF SessionInv, OpenedAt, Awaits
  <2>2. TellsEnd(k, s, o) => LeftAlone(s)'
    BY <1>0, <1>1, <1>2, <1>3, <1>9, InClosing DEF SessionsTypeOK, SessionInv, OpenAt, HeldAt,
       RegisteredAt, OpenedAt, Opened, LeftAlone, TellsEnd, Holders, ClosingPtys
  <2> QED
    BY <2>1, <2>2
<1>10. plugin' = plugin /\ handle' = handle /\ draining' \subseteq draining
    OBVIOUS
<1> HIDE DEF PtyCloseFails, AtWork, Inserts
<1> QED
    BY <1>2, <1>4, <1>5, <1>6, <1>7, <1>8, <1>9, <1>10, <1>b, PluginMoves

\* DrainEnds keeps the sessions' invariant.
LEMMA DrainEndsSInv ==
    ASSUME SInv, NEW s \in Sessions, DrainEnds(s)
    PROVE  SInv'
<1> USE SessionsAssumption, KindsAssumption DEF DrainEnds, hostSessionVars
<1>0. SessionsTypeOK /\ SessionInv(s) /\ Sessions = Stdios \cup Ptys \cup Streams
    BY DEF SInv, Sessions
<1>1. answers' = answers /\ answers \subseteq Methods \X Sessions \X BOOLEAN
    BY <1>0 DEF SessionsTypeOK
<1>2. SessionsTypeOK'
    BY <1>0, <1>1 DEF SessionsTypeOK
<1>3. ClosingPtys' = ClosingPtys
    BY DEF ClosingPtys
<1>4. \A r \in Sessions : r # s => Untouched(r)
    BY <1>0, <1>1, <1>3 DEF Untouched, SessionsTypeOK
<1>5. Cardinality(Spent') <= ActiveIo
  <2>1. \A r \in Sessions : r \in Spent' => r \in Spent
    BY <1>0, <1>2, <1>3, <1>4 DEF SessionsTypeOK, SessionInv, OpenAt, Spent, Holders, Untouched
  <2>2. Spent' \subseteq Sessions
    BY <1>2, <1>3 DEF SessionsTypeOK, Spent, Holders, ClosingPtys, Sessions
  <2> QED
    BY <2>1, <2>2, SpentShrinks
<1>6. OpenAt(s)'
    BY <1>0 DEF SessionsTypeOK, SessionInv, OpenAt, RegisteredAt, Opened
<1>7. HeldAt(s)'
    BY <1>0, <1>2, <1>3 DEF SessionsTypeOK, SessionInv, OpenAt, HeldAt, Holders
<1>b. RegisteredAt(s)'
    BY <1>0, <1>2, <1>3 DEF SessionsTypeOK, SessionInv, OpenAt, RegisteredAt, Opened
<1>8. s \notin Streams /\ Opened(s) => Opened(s)' /\ (LeftAlone(s) => LeftAlone(s)')
    BY <1>0, <1>2, <1>3 DEF SessionsTypeOK, SessionInv, OpenAt, HeldAt, Opened, LeftAlone
<1>9. ASSUME s \notin Streams, NEW k \in Methods, NEW o \in BOOLEAN, <<k, s, o>> \in answers',
             <<k, s, o>> \notin answers
      PROVE  Opened(s)' /\ (TellsEnd(k, s, o) => LeftAlone(s)')
  <2>1. Opened(s)'
    BY <1>1, <1>9
  <2>2. TellsEnd(k, s, o) => LeftAlone(s)'
    BY <1>1, <1>9
  <2> QED
    BY <2>1, <2>2
<1>10. plugin' = plugin /\ handle' = handle /\ draining' \subseteq draining
    OBVIOUS
<1> HIDE DEF DrainEnds, hostSessionVars
<1> QED
    BY <1>2, <1>4, <1>5, <1>6, <1>7, <1>8, <1>9, <1>10, <1>b, PluginMoves

\* The connection ends, and the shutdown after it.
LEMMA ClosesSInv ==
    ASSUME SInv, ConnectionCloses \/ ServeReturns \/ ServeGivesUp
    PROVE  SInv'
<1> USE KindsAssumption DEF hostSessionVars
<1>0. SessionsTypeOK /\ \A s \in Sessions : SessionInv(s)
    BY DEF SInv
<1>1. CASE ConnectionCloses
  <2> USE <1>1 DEF ConnectionCloses
  <2>1. SessionsTypeOK'
    BY <1>0 DEF SessionsTypeOK
  <2>2. ClosingPtys' = ClosingPtys /\ Spent' \subseteq Spent /\ draining = {}
    BY DEF Spent, Holders, ClosingPtys, SInv
  <2>3. Cardinality(Spent') <= ActiveIo
    BY <2>2, SpentShrinks
  <2>4. ASSUME NEW s \in Sessions
        PROVE  SessionInv(s)'
    <3> USE <1>0, <2>2 DEF SessionInv
    <3>1. OpenAt(s)'
      BY DEF OpenAt
    <3>2. HeldAt(s)'
      BY DEF HeldAt, Holders
    <3>3. RegisteredAt(s)' /\ OpenedAt(s)'
      BY DEF RegisteredAt, OpenedAt, Opened
    <3>4. SettledAt(s)'
      BY DEF SettledAt, LeftAlone, TellsEnd
    <3> QED
      BY <3>1, <3>2, <3>3, <3>4
  <2> QED
    BY <2>1, <2>3, <2>4 DEF SInv
<1>2. CASE ServeReturns
  <2> USE <1>2 DEF ServeReturns
  <2>1. SessionsTypeOK'
    BY <1>0 DEF SessionsTypeOK
  <2>2. ClosingPtys' = ClosingPtys /\ ClosingPtys = {} /\ Spent' = Spent
    BY DEF Spent, Holders, ClosingPtys
  <2>4. ASSUME NEW s \in Sessions
        PROVE  SessionInv(s)'
    <3> USE <1>0, <2>2 DEF SessionInv
    <3>1. OpenAt(s)'
      BY DEF OpenAt
    <3>2. HeldAt(s)'
      BY DEF HeldAt, Holders
    <3>3. RegisteredAt(s)' /\ OpenedAt(s)'
      BY DEF RegisteredAt, OpenedAt, Opened
    <3>4. SettledAt(s)'
      BY DEF SettledAt, LeftAlone, TellsEnd
    <3> QED
      BY <3>1, <3>2, <3>3, <3>4
  <2> QED
    BY <2>1, <2>2, <2>4 DEF SInv
<1>3. CASE ServeGivesUp
  <2> USE <1>3 DEF ServeGivesUp
  <2>1. ClosingPtys' = {} /\ ClosingPtys \subseteq Sessions
    BY <1>0 DEF SessionsTypeOK, ClosingPtys, Sessions
  <2>2. SessionsTypeOK'
    BY <1>0, <2>1 DEF SessionsTypeOK, Sessions
  <2>3. Spent' \subseteq Spent
    BY <2>1 DEF Spent, Holders
  <2>4. Cardinality(Spent') <= ActiveIo
    BY <2>3, SpentShrinks
  <2>5. ASSUME NEW s \in Sessions
        PROVE  SessionInv(s)'
    <3> USE <1>0, <2>1 DEF SessionInv
    <3>1. OpenAt(s)'
      BY DEF OpenAt
    <3>2. HeldAt(s)'
      BY DEF HeldAt, Holders, OpenAt, SessionsTypeOK
    <3>3. RegisteredAt(s)' /\ OpenedAt(s)'
      BY DEF RegisteredAt, OpenedAt, Opened
    <3>4. SettledAt(s)'
      BY DEF SettledAt, LeftAlone, TellsEnd
    <3> QED
      BY <3>1, <3>2, <3>3, <3>4
  <2> QED
    BY <2>2, <2>4, <2>5 DEF SInv
<1> QED
    BY <1>1, <1>2, <1>3

\* The initial state satisfies the sessions' invariant.
LEMMA InitSInv == SessionsInit => SInv
<1> SUFFICES ASSUME SessionsInit PROVE SInv
    OBVIOUS
<1> USE SessionsAssumption DEF SessionsInit
<1>1. SessionsTypeOK
    BY DEF SessionsTypeOK
<1>2. Spent = {} /\ ClosingPtys = {}
    BY DEF Spent, Holders, ClosingPtys
<1>3. Cardinality(Spent) <= ActiveIo
    BY <1>2, FS_EmptySet
<1>4. \A s \in Sessions : SessionInv(s)
    BY <1>2 DEF SessionInv, OpenAt, HeldAt, RegisteredAt, OpenedAt, Opened, SettledAt
<1> QED
    BY <1>1, <1>3, <1>4 DEF SInv

\* Every step keeps the sessions' invariant.
LEMMA NextSInv == ASSUME SInv, SessionsNext PROVE SInv'
<1>1. ASSUME NEW s \in Sessions, PluginSessionStep(s) \/ SessionExits(s) \/ FollowEnds(s)
      PROVE  SInv'
    BY <1>1, OpenAdmittedSInv, ChannelOpenedSInv, SessionStartsSInv, SessionRefusedSInv,
       TerminateHandledSInv, WaitHandledSInv, CancelHandledSInv, PtyCloseHandledSInv,
       PtyClosedSInv, PtyCloseFailsSInv, DrainEndsSInv, SessionExitsSInv, FollowEndsSInv
    DEF PluginSessionStep
<1> QED
    BY <1>1, HostStepSInv, HostChoiceSInv, ClosesSInv DEF SessionsNext

\* The promises the run checks of this part follow from the sessions' invariant.
LEMMA SInvSuffices == SInv => SessionsWithinBudget /\ ShutdownEndsSessions /\ OverIsOver
<1> SUFFICES ASSUME SInv PROVE SessionsWithinBudget /\ ShutdownEndsSessions /\ OverIsOver
    OBVIOUS
<1>1. SessionsWithinBudget
  <2> DEFINE LiveOnes == {s \in Sessions : session[s] = "live"}
  <2>1. LiveOnes \subseteq Spent
    BY DEF Spent
  <2>2. IsFiniteSet(Spent) /\ Cardinality(Spent) <= ActiveIo
    BY SpentFinite DEF SInv
  <2>3. IsFiniteSet(LiveOnes) /\ Cardinality(LiveOnes) <= Cardinality(Spent)
    BY <2>1, <2>2, FS_Subset
  <2>4. Cardinality(LiveOnes) \in Nat /\ Cardinality(Spent) \in Nat /\ ActiveIo \in Nat
    BY <2>2, <2>3, FS_CardinalityType, SessionsAssumption
  <2>5. Cardinality(LiveOnes) <= ActiveIo
    BY <2>2, <2>3, <2>4
  <2> QED
    BY <2>5 DEF SessionsWithinBudget
<1>2. ShutdownEndsSessions
    BY DEF SInv, SessionInv, HeldAt, ShutdownEndsSessions
<1>3. OverIsOver
    BY KindsAssumption DEF SInv, SessionInv, SettledAt, LeftAlone, OverIsOver, Sessions
<1> QED
    BY <1>1, <1>2, <1>3

-----------------------------------------------------------------------------
(***************************************************************************)
(* Part two: the supervisor of a plugin's process (PluginSupervisor).      *)
(***************************************************************************)
\* The lock is held from the moment a dead generation is taken until its replacement is
\* installed or given up; what its holder has in hand is the only process besides the live
\* generation's.
LockInv ==
    /\ \A t \in SupTasks :
         /\ supAt[t] \in {"retiring", "launching", "connecting", "closing"} => supLock = t
         /\ hand[t] # 0 <=> supAt[t] \in {"retiring", "connecting", "closing"}
    /\ supLock # NoTask => liveGen = 0
    /\ \A i \in Launches : proc[i] = "up" => i = liveGen \/ \E t \in SupTasks : hand[t] = i

\* Launches are made in order and numbered no higher than their order.
NumberInv ==
    /\ \A i, j \in Launches : i < j /\ proc[i] = "none" => proc[j] = "none"
    /\ \A i \in Launches : proc[i] = "none" => servedGen < i
    /\ \A i \in Launches : proc[i] # "none" => genInfo[i].number <= i
    /\ \A t \in SupTasks :
         /\ hand[t] # 0 => proc[hand[t]] # "none"
         /\ supAt[t] = "connecting" => genInfo[hand[t]].number = servedGen + 1

\* A generation that is live or was handed to a caller.
Served(i) == i = liveGen \/ \E t \in SupTasks : i = got[t]

ServedInv ==
    /\ \A i \in Launches : Served(i) =>
         /\ proc[i] # "none" /\ genInfo[i].number <= servedGen
         /\ supIdentity # "none" /\ genInfo[i].account = supIdentity
    /\ \A i, j \in Launches :
         Served(i) /\ Served(j) /\ genInfo[i].number = genInfo[j].number => i = j

\* An operation is sent once, to the generation the caller was given.
SentInv ==
    \A t \in SupTasks :
      /\ supAt[t] \in {"calling", "awaiting"} => got[t] # 0
      /\ supAt[t] \notin {"awaiting", "returned"} => ranOn[t] = {}
      /\ \A i \in ranOn[t] : i = got[t] /\ (t \in ServiceUsers => genInfo[i].services = TRUE)

PInv == SupTypeOK /\ LockInv /\ NumberInv /\ ServedInv /\ SentInv

-----------------------------------------------------------------------------
\* Asks_current keeps the supervisor's invariant.
LEMMA Asks_currentPInv ==
    ASSUME PInv, NEW t \in SupTasks, Asks_current(t)
    PROVE  PInv'
<1> USE SupervisorAssumption, NoTaskAssumption DEF PInv, Asks_current, GoesTo, Ends, Unlocks, Gone
<1>1. SupTypeOK'
    BY DEF SupTypeOK, LockInv, NumberInv, Results, Launches
<1>2. LockInv'
    BY DEF SupTypeOK, LockInv, Launches
<1>3. NumberInv'
    BY DEF SupTypeOK, LockInv, NumberInv, Launches
<1>4. ServedInv'
    BY DEF SupTypeOK, LockInv, NumberInv, ServedInv, Served, Launches, SentInv
<1>5. SentInv'
    BY DEF SupTypeOK, LockInv, SentInv, Launches
<1> QED
    BY <1>1, <1>2, <1>3, <1>4, <1>5

\* FindsLive keeps the supervisor's invariant.
LEMMA FindsLivePInv ==
    ASSUME PInv, NEW t \in SupTasks, FindsLive(t)
    PROVE  PInv'
<1> USE SupervisorAssumption, NoTaskAssumption DEF PInv, FindsLive, GoesTo, Ends, Unlocks, Gone,
   LiveIsOpen
<1>1. SupTypeOK'
    BY DEF SupTypeOK, LockInv, NumberInv, Results, Launches
<1>2. LockInv'
    BY DEF SupTypeOK, LockInv, Launches
<1>3. NumberInv'
    BY DEF SupTypeOK, LockInv, NumberInv, Launches
<1>4. ServedInv'
    BY DEF SupTypeOK, LockInv, NumberInv, ServedInv, Served, Launches, SentInv
<1>5. SentInv'
    BY DEF SupTypeOK, LockInv, SentInv, Launches
<1> QED
    BY <1>1, <1>2, <1>3, <1>4, <1>5

\* TakesClosed keeps the supervisor's invariant.
LEMMA TakesClosedPInv ==
    ASSUME PInv, NEW t \in SupTasks, TakesClosed(t)
    PROVE  PInv'
<1> USE SupervisorAssumption, NoTaskAssumption DEF PInv, TakesClosed, GoesTo, Ends, Unlocks, Gone,
   LiveIsOpen
<1>1. SupTypeOK'
    BY DEF SupTypeOK, LockInv, NumberInv, Results, Launches
<1>2. LockInv'
    BY DEF SupTypeOK, LockInv, Launches
<1>3. NumberInv'
  <2>1. liveGen # 0 => proc[liveGen] # "none"
    BY DEF SupTypeOK, ServedInv, Served, Launches
  <2> QED
    BY <2>1 DEF SupTypeOK, LockInv, NumberInv, Launches
<1>4. ServedInv'
    BY DEF SupTypeOK, LockInv, NumberInv, ServedInv, Served, Launches, SentInv
<1>5. SentInv'
    BY DEF SupTypeOK, LockInv, SentInv, Launches
<1> QED
    BY <1>1, <1>2, <1>3, <1>4, <1>5

\* Retires keeps the supervisor's invariant.
LEMMA RetiresPInv ==
    ASSUME PInv, NEW t \in SupTasks, Retires(t)
    PROVE  PInv'
<1> USE SupervisorAssumption, NoTaskAssumption DEF PInv, Retires, GoesTo, Ends, Unlocks, Gone
<1>1. SupTypeOK'
    BY DEF SupTypeOK, LockInv, NumberInv, Results, Launches
<1>2. LockInv'
    BY DEF SupTypeOK, LockInv, Launches
<1>3. NumberInv'
    BY DEF SupTypeOK, LockInv, NumberInv, Launches
<1>4. ServedInv'
  <2>1. \A i \in Launches : Served(i)' <=> Served(i)
    BY DEF Served
  <2>2. \A i \in Launches : proc[i] # "none" => proc'[i] # "none"
    BY DEF SupTypeOK
  <2> QED
    BY <2>1, <2>2 DEF ServedInv
<1>5. SentInv'
    BY DEF SupTypeOK, LockInv, SentInv, Launches
<1> QED
    BY <1>1, <1>2, <1>3, <1>4, <1>5

\* LaunchFails keeps the supervisor's invariant.
LEMMA LaunchFailsPInv ==
    ASSUME PInv, NEW t \in SupTasks, LaunchFails(t)
    PROVE  PInv'
<1> USE SupervisorAssumption, NoTaskAssumption DEF PInv, LaunchFails, GoesTo, Ends, Unlocks, Gone
<1>1. SupTypeOK'
    BY DEF SupTypeOK, LockInv, NumberInv, Results, Launches
<1>2. LockInv'
    BY DEF SupTypeOK, LockInv, Launches
<1>3. NumberInv'
    BY DEF SupTypeOK, LockInv, NumberInv, Launches
<1>4. ServedInv'
    BY DEF SupTypeOK, LockInv, NumberInv, ServedInv, Served, Launches, SentInv
<1>5. SentInv'
    BY DEF SupTypeOK, LockInv, SentInv, Launches
<1> QED
    BY <1>1, <1>2, <1>3, <1>4, <1>5

\* Spawns keeps the supervisor's invariant.
LEMMA SpawnsPInv ==
    ASSUME PInv, NEW t \in SupTasks, Spawns(t)
    PROVE  PInv'
<1> USE SupervisorAssumption, NoTaskAssumption DEF PInv, Spawns, GoesTo, Ends, Unlocks, Gone
<1>0. PICK i \in Launches, account \in Accounts, services \in BOOLEAN :
        /\ proc[i] = "none" /\ \A j \in 1..(i - 1) : proc[j] # "none"
        /\ proc' = [proc EXCEPT ![i] = "up"] /\ wire' = [wire EXCEPT ![i] = "open"]
        /\ genInfo' = [genInfo EXCEPT ![i] = [number |-> servedGen + 1, account |-> account,
                                              services |-> services]]
        /\ hand' = [hand EXCEPT ![t] = i]
    OBVIOUS
<1>a. /\ supAt[t] = "launching" /\ supAt' = [supAt EXCEPT ![t] = "connecting"]
      /\ UNCHANGED <<supLock, liveGen, servedGen, supIdentity, got, ranOn, supResult>>
    OBVIOUS
<1> HIDE DEF Spawns, GoesTo
<1>b. servedGen + 1 \in 0..MaxLaunches /\ servedGen < i
    BY <1>0 DEF SupTypeOK, NumberInv, Launches
<1>c. \A j \in Launches : j # i => genInfo'[j] = genInfo[j] /\ proc'[j] = proc[j]
    BY <1>0 DEF SupTypeOK
<1>d. /\ proc'[i] = "up" /\ genInfo'[i].number = servedGen + 1
      /\ hand'[t] = i /\ \A u \in SupTasks : u # t => hand'[u] = hand[u] /\ supAt'[u] = supAt[u]
      /\ supAt'[t] = "connecting"
    BY <1>0, <1>a DEF SupTypeOK
<1>e. \A u \in SupTasks : hand[u] = 0
    BY <1>a DEF LockInv, SupTypeOK
<1>1. SupTypeOK'
  <2>1. [number |-> servedGen + 1, account |-> account, services |-> services]
          \in [number : 0..MaxLaunches, account : Accounts, services : BOOLEAN]
    BY <1>b
  <2> QED
    BY <1>0, <1>a, <2>1 DEF SupTypeOK, Launches
<1>2. LockInv'
  <2>1. liveGen = 0 /\ supLock = t
    BY <1>a DEF LockInv
  <2>2. \A j \in Launches : proc[j] # "up"
    BY <1>e, <2>1 DEF LockInv, Launches
  <2> QED
    BY <1>a, <1>c, <1>d, <2>1, <2>2 DEF LockInv, Launches
<1>3. NumberInv'
  <2>1. \A j, k \in Launches : j < k /\ proc'[j] = "none" => proc'[k] = "none"
    BY <1>0, <1>c, <1>d DEF NumberInv, Launches
  <2>2. \A j \in Launches : proc'[j] = "none" => servedGen < j
    BY <1>c, <1>d DEF NumberInv
  <2>3. \A j \in Launches : proc'[j] # "none" => genInfo'[j].number <= j
    <3>1. servedGen + 1 <= i
      BY <1>b DEF SupTypeOK, Launches
    <3> QED
      BY <1>c, <1>d, <3>1 DEF NumberInv
  <2> QED
    BY <1>a, <1>d, <1>e, <2>1, <2>2, <2>3 DEF NumberInv, LockInv, Launches
<1>4. ServedInv'
  <2>1. \A j \in Launches : Served(j)' => Served(j) /\ j # i
    BY <1>0, <1>a DEF Served, ServedInv
  <2> QED
    BY <1>a, <1>c, <2>1 DEF ServedInv
<1>5. SentInv'
  <2>1. \A u \in SupTasks : \A j \in ranOn[u] : j \in Launches /\ j # i
    BY <1>0 DEF SentInv, ServedInv, Served, SupTypeOK
  <2> QED
    BY <1>a, <1>c, <1>d, <2>1 DEF SentInv
<1> QED
    BY <1>1, <1>2, <1>3, <1>4, <1>5

\* ProbeFails keeps the supervisor's invariant.
LEMMA ProbeFailsPInv ==
    ASSUME PInv, NEW t \in SupTasks, ProbeFails(t)
    PROVE  PInv'
<1> USE SupervisorAssumption, NoTaskAssumption DEF PInv, ProbeFails, GoesTo, Ends, Unlocks, Gone
<1>1. SupTypeOK'
    BY DEF SupTypeOK, LockInv, NumberInv, Results, Launches
<1>2. LockInv'
    BY DEF SupTypeOK, LockInv, Launches
<1>3. NumberInv'
    BY DEF SupTypeOK, LockInv, NumberInv, Launches
<1>4. ServedInv'
  <2>1. \A i \in Launches : Served(i)' <=> Served(i)
    BY DEF Served
  <2>2. \A i \in Launches : proc[i] # "none" => proc'[i] # "none"
    BY DEF SupTypeOK
  <2> QED
    BY <2>1, <2>2 DEF ServedInv
<1>5. SentInv'
    BY DEF SupTypeOK, LockInv, SentInv, Launches
<1> QED
    BY <1>1, <1>2, <1>3, <1>4, <1>5

\* RefusesIdentity keeps the supervisor's invariant.
LEMMA RefusesIdentityPInv ==
    ASSUME PInv, NEW t \in SupTasks, RefusesIdentity(t)
    PROVE  PInv'
<1> USE SupervisorAssumption, NoTaskAssumption DEF PInv, RefusesIdentity, GoesTo, Ends, Unlocks,
   Gone, IdentityChanged
<1>1. SupTypeOK'
    BY DEF SupTypeOK, LockInv, NumberInv, Results, Launches
<1>2. LockInv'
    BY DEF SupTypeOK, LockInv, Launches
<1>3. NumberInv'
    BY DEF SupTypeOK, LockInv, NumberInv, Launches
<1>4. ServedInv'
  <2>1. \A i \in Launches : Served(i)' <=> Served(i)
    BY DEF Served
  <2>2. \A i \in Launches : proc[i] # "none" => proc'[i] # "none"
    BY DEF SupTypeOK
  <2> QED
    BY <2>1, <2>2 DEF ServedInv
<1>5. SentInv'
    BY DEF SupTypeOK, LockInv, SentInv, Launches
<1> QED
    BY <1>1, <1>2, <1>3, <1>4, <1>5

\* Installs keeps the supervisor's invariant.
LEMMA InstallsPInv ==
    ASSUME PInv, NEW t \in SupTasks, Installs(t)
    PROVE  PInv'
<1> USE SupervisorAssumption, NoTaskAssumption DEF PInv, Installs, GoesTo, Ends, Unlocks, Gone,
   IdentityChanged
<1>0. hand[t] \in Launches /\ genInfo[hand[t]].number \in 0..MaxLaunches /\ genInfo[hand[t]].account \in Accounts
    BY DEF SupTypeOK, LockInv, Launches
<1>1. SupTypeOK'
  <2>1. supIdentity' \in Accounts \cup {"none"} /\ liveGen' \in 0..MaxLaunches /\ servedGen' \in 0..MaxLaunches
    BY <1>0 DEF SupTypeOK, Launches
  <2>2. CASE t = Founder
    BY <2>1, <2>2 DEF SupTypeOK, Results
  <2>3. CASE t # Founder
    <3>1. got' \in [SupTasks -> 0..MaxLaunches]
      <4>1. got' = [got EXCEPT ![t] = hand[t]]
        BY <2>3
      <4>2. hand[t] \in 0..MaxLaunches /\ got \in [SupTasks -> 0..MaxLaunches]
        BY DEF SupTypeOK
      <4> HIDE DEF Installs
      <4> QED
        BY <4>1, <4>2
    <3> QED
      BY <2>1, <2>3, <3>1 DEF SupTypeOK
  <2> QED
    BY <2>2, <2>3
<1>2. LockInv'
    BY DEF SupTypeOK, LockInv, Launches
<1>3. NumberInv'
    BY DEF SupTypeOK, LockInv, NumberInv, Launches
<1>4. ServedInv'
  <2>1. \A i \in Launches : Served(i)' => Served(i) \/ i = hand[t]
    BY DEF Served, SupTypeOK
  <2>2. servedGen' = servedGen + 1 /\ genInfo[hand[t]].number = servedGen + 1 /\ proc[hand[t]] # "none"
    BY <1>0 DEF NumberInv, Launches
  <2>3. supIdentity' # "none" /\ genInfo[hand[t]].account = supIdentity'
    BY <1>0 DEF Accounts
  <2>4. \A i \in Launches : Served(i) => genInfo[i].number <= servedGen /\ supIdentity' = supIdentity
    BY DEF ServedInv
  <2>5. servedGen \in Nat /\ \A i \in Launches : genInfo[i].number \in Nat
    BY DEF SupTypeOK
  <2> HIDE DEF Installs
  <2>6. genInfo' = genInfo /\ proc' = proc
    BY DEF Installs
  <2>7. \A i \in Launches : Served(i)' =>
           /\ proc[i] # "none" /\ genInfo[i].number <= servedGen'
           /\ supIdentity' # "none" /\ genInfo[i].account = supIdentity'
    BY <2>1, <2>2, <2>3, <2>4, <2>5 DEF ServedInv
  <2>8. ASSUME NEW i \in Launches, NEW j \in Launches, Served(i)', Served(j)',
               genInfo[i].number = genInfo[j].number
        PROVE  i = j
    BY <2>1, <2>2, <2>4, <2>5, <2>8 DEF ServedInv
  <2> QED
    BY <2>6, <2>7, <2>8 DEF ServedInv
<1>5. SentInv'
    BY DEF SupTypeOK, LockInv, SentInv, Launches
<1> QED
    BY <1>1, <1>2, <1>3, <1>4, <1>5

\* ServiceRefused keeps the supervisor's invariant.
LEMMA ServiceRefusedPInv ==
    ASSUME PInv, NEW t \in SupTasks, ServiceRefused(t)
    PROVE  PInv'
<1> USE SupervisorAssumption, NoTaskAssumption DEF PInv, ServiceRefused, GoesTo, Ends, Unlocks,
   Gone, Serves
<1>1. SupTypeOK'
    BY DEF SupTypeOK, LockInv, NumberInv, Results, Launches
<1>2. LockInv'
    BY DEF SupTypeOK, LockInv, Launches
<1>3. NumberInv'
    BY DEF SupTypeOK, LockInv, NumberInv, Launches
<1>4. ServedInv'
    BY DEF SupTypeOK, LockInv, NumberInv, ServedInv, Served, Launches, SentInv
<1>5. SentInv'
    BY DEF SupTypeOK, LockInv, SentInv, Launches
<1> QED
    BY <1>1, <1>2, <1>3, <1>4, <1>5

\* OperationSent keeps the supervisor's invariant.
LEMMA OperationSentPInv ==
    ASSUME PInv, NEW t \in SupTasks, OperationSent(t)
    PROVE  PInv'
<1> USE SupervisorAssumption, NoTaskAssumption DEF PInv, OperationSent, GoesTo, Ends, Unlocks,
   Gone, Serves
<1>0. got[t] \in Launches
    BY DEF SupTypeOK, SentInv, Launches
<1>1. SupTypeOK'
  <2>1. ranOn' \in [SupTasks -> SUBSET Launches]
    BY <1>0 DEF SupTypeOK
  <2> QED
    BY <2>1 DEF SupTypeOK, Results
<1>2. LockInv'
    BY DEF SupTypeOK, LockInv, Launches
<1>3. NumberInv'
    BY DEF SupTypeOK, LockInv, NumberInv, Launches
<1>4. ServedInv'
    BY DEF SupTypeOK, LockInv, NumberInv, ServedInv, Served, Launches, SentInv
<1>5. SentInv'
  <2>1. CASE wire[got[t]] = "open"
    <3>1. /\ supAt'[t] = "awaiting" /\ ranOn'[t] = {got[t]} /\ got' = got /\ genInfo' = genInfo
          /\ \A u \in SupTasks : u # t => supAt'[u] = supAt[u] /\ ranOn'[u] = ranOn[u]
      BY <2>1 DEF SupTypeOK, SentInv
    <3>2. t \in ServiceUsers => genInfo[got[t]].services = TRUE
      BY <1>0 DEF SupTypeOK
    <3> HIDE DEF OperationSent
    <3> QED
      BY <1>0, <3>1, <3>2 DEF SentInv, Launches
  <2>2. CASE wire[got[t]] # "open"
    BY <2>2 DEF SupTypeOK, SentInv
  <2> QED
    BY <2>1, <2>2
<1> QED
    BY <1>1, <1>2, <1>3, <1>4, <1>5

\* OperationFails keeps the supervisor's invariant.
LEMMA OperationFailsPInv ==
    ASSUME PInv, NEW t \in SupTasks, OperationFails(t)
    PROVE  PInv'
<1> USE SupervisorAssumption, NoTaskAssumption DEF PInv, OperationFails, GoesTo, Ends, Unlocks, Gone
<1>1. SupTypeOK'
    BY DEF SupTypeOK, LockInv, NumberInv, Results, Launches
<1>2. LockInv'
    BY DEF SupTypeOK, LockInv, Launches
<1>3. NumberInv'
    BY DEF SupTypeOK, LockInv, NumberInv, Launches
<1>4. ServedInv'
    BY DEF SupTypeOK, LockInv, NumberInv, ServedInv, Served, Launches, SentInv
<1>5. SentInv'
    BY DEF SupTypeOK, LockInv, SentInv, Launches
<1> QED
    BY <1>1, <1>2, <1>3, <1>4, <1>5

\* OperationAnswered keeps the supervisor's invariant.
LEMMA OperationAnsweredPInv ==
    ASSUME PInv, NEW t \in SupTasks, OperationAnswered(t)
    PROVE  PInv'
<1> USE SupervisorAssumption, NoTaskAssumption DEF PInv, OperationAnswered, GoesTo, Ends, Unlocks,
   Gone
<1>1. SupTypeOK'
    BY DEF SupTypeOK, LockInv, NumberInv, Results, Launches
<1>2. LockInv'
    BY DEF SupTypeOK, LockInv, Launches
<1>3. NumberInv'
    BY DEF SupTypeOK, LockInv, NumberInv, Launches
<1>4. ServedInv'
    BY DEF SupTypeOK, LockInv, NumberInv, ServedInv, Served, Launches, SentInv
<1>5. SentInv'
    BY DEF SupTypeOK, LockInv, SentInv, Launches
<1> QED
    BY <1>1, <1>2, <1>3, <1>4, <1>5

\* SupShutdownTakes keeps the supervisor's invariant.
LEMMA SupShutdownTakesPInv ==
    ASSUME PInv, Closer \in SupTasks, SupShutdownTakes
    PROVE  PInv'
<1> USE SupervisorAssumption, NoTaskAssumption DEF PInv, SupShutdownTakes, GoesTo, Ends, Unlocks,
   Gone
<1>0. (liveGen = 0 /\ supLock' = supLock /\ hand' = hand) \/ (liveGen \in Launches /\ proc[liveGen] # "none")
    BY DEF SupTypeOK, ServedInv, Served, Launches
<1>1. SupTypeOK'
  <2>1. CASE liveGen = 0
    BY <2>1 DEF SupTypeOK, Results
  <2>2. CASE liveGen # 0
    BY <2>2 DEF SupTypeOK
  <2> QED
    BY <2>1, <2>2
<1>2. LockInv'
  <2>1. CASE liveGen = 0
    BY <2>1 DEF SupTypeOK, LockInv, Launches
  <2>2. CASE liveGen # 0
    <3>1. /\ supLock' = Closer /\ hand'[Closer] = liveGen /\ supAt'[Closer] = "closing" /\ liveGen' = 0 /\ proc' = proc
          /\ \A u \in SupTasks : u # Closer => supAt'[u] = supAt[u] /\ hand'[u] = hand[u]
      BY <2>2 DEF SupTypeOK
    <3>2. supLock = NoTask /\ \A u \in SupTasks : hand[u] = 0
      BY DEF LockInv, SupTypeOK
    <3> HIDE DEF SupShutdownTakes
    <3> QED
      BY <2>2, <3>1, <3>2 DEF LockInv, Launches
  <2> QED
    BY <2>1, <2>2
<1>3. NumberInv'
  <2>1. CASE liveGen = 0
    BY <2>1 DEF SupTypeOK, LockInv, NumberInv, Launches
  <2>2. CASE liveGen # 0
    <3>1. /\ hand'[Closer] = liveGen /\ supAt'[Closer] = "closing" /\ UNCHANGED <<proc, genInfo, servedGen>>
          /\ \A u \in SupTasks : u # Closer => supAt'[u] = supAt[u] /\ hand'[u] = hand[u]
      BY <2>2 DEF SupTypeOK
    <3> HIDE DEF SupShutdownTakes
    <3> QED
      BY <1>0, <2>2, <3>1 DEF NumberInv
  <2> QED
    BY <2>1, <2>2
<1>4. ServedInv'
    BY DEF SupTypeOK, LockInv, NumberInv, ServedInv, Served, Launches, SentInv
<1>5. SentInv'
    BY DEF SupTypeOK, LockInv, SentInv, Launches
<1> QED
    BY <1>1, <1>2, <1>3, <1>4, <1>5

\* SupShutdownEnds keeps the supervisor's invariant.
LEMMA SupShutdownEndsPInv ==
    ASSUME PInv, Closer \in SupTasks, SupShutdownEnds
    PROVE  PInv'
<1> USE SupervisorAssumption, NoTaskAssumption DEF PInv, SupShutdownEnds, GoesTo, Ends, Unlocks,
   Gone
<1>1. SupTypeOK'
    BY DEF SupTypeOK, LockInv, NumberInv, Results, Launches
<1>2. LockInv'
    BY DEF SupTypeOK, LockInv, Launches
<1>3. NumberInv'
    BY DEF SupTypeOK, LockInv, NumberInv, Launches
<1>4. ServedInv'
    BY DEF SupTypeOK, LockInv, NumberInv, ServedInv, Served, Launches, SentInv
<1>5. SentInv'
    BY DEF SupTypeOK, LockInv, SentInv, Launches
<1> QED
    BY <1>1, <1>2, <1>3, <1>4, <1>5

\* TaskDropped keeps the supervisor's invariant.
LEMMA TaskDroppedPInv ==
    ASSUME PInv, NEW t \in SupTasks, TaskDropped(t)
    PROVE  PInv'
<1> USE SupervisorAssumption, NoTaskAssumption DEF PInv, TaskDropped, GoesTo, Ends, Unlocks, Gone
<1>1. SupTypeOK'
  <2>1. proc' \in [Launches -> {"none", "up", "gone"}] /\ wire' \in [Launches -> {"open", "closed"}]
    BY DEF SupTypeOK
  <2> QED
    BY <2>1 DEF SupTypeOK, Results
<1>2. LockInv'
  <2>1. \A u \in SupTasks : u # t => supAt'[u] = supAt[u] /\ hand'[u] = hand[u]
    BY DEF SupTypeOK
  <2>2. supAt'[t] = "returned" /\ hand'[t] = 0
    BY DEF SupTypeOK
  <2>3. \A u \in SupTasks : supAt'[u] \in {"retiring", "launching", "connecting", "closing"} => supLock' = u
    BY <2>1, <2>2 DEF LockInv
  <2>4. \A i \in Launches : proc'[i] = "up" => proc[i] = "up" /\ i # hand[t]
    BY DEF SupTypeOK, Launches
  <2>5. \A i \in Launches : proc'[i] = "up" => i = liveGen \/ \E u \in SupTasks : hand'[u] = i
    BY <2>1, <2>4 DEF LockInv
  <2> QED
    BY <2>1, <2>2, <2>3, <2>5 DEF LockInv
<1>3. NumberInv'
    BY DEF SupTypeOK, LockInv, NumberInv, Launches
<1>4. ServedInv'
    BY DEF SupTypeOK, LockInv, NumberInv, ServedInv, Served, Launches, SentInv
<1>5. SentInv'
    BY DEF SupTypeOK, LockInv, SentInv, Launches
<1> QED
    BY <1>1, <1>2, <1>3, <1>4, <1>5

\* The death of a process and the closing of its connection keep the supervisor's invariant.
LEMMA TransportPInv ==
    ASSUME PInv, NEW i \in Launches, PluginDies(i) \/ WireCloses(i)
    PROVE  PInv'
<1> USE DEF PInv, PluginDies, WireCloses
<1>1. SupTypeOK'
    BY DEF SupTypeOK
<1>2. \A j \in Launches : (proc'[j] = "none" <=> proc[j] = "none") /\ (proc'[j] = "up" => proc[j] = "up")
    BY DEF SupTypeOK
<1>3. LockInv'
    BY <1>2 DEF LockInv
<1>4. NumberInv'
  <2>1. \A t \in SupTasks : hand[t] # 0 => hand[t] \in Launches
    BY DEF SupTypeOK, Launches
  <2> QED
    BY <1>2, <2>1 DEF NumberInv
<1>5. ServedInv' /\ SentInv'
    BY <1>2 DEF ServedInv, Served, SentInv
<1> QED
    BY <1>1, <1>3, <1>4, <1>5

\* Every step keeps the supervisor's invariant.
LEMMA NextPInv == ASSUME PInv, SupNext PROVE PInv'
<1>1. Closer \in SupTasks
    BY DEF SupTasks
<1>2. ASSUME NEW t \in SupTasks, SupTaskStep(t)
      PROVE  PInv'
    BY <1>1, <1>2, FindsLivePInv, TakesClosedPInv, RetiresPInv, LaunchFailsPInv, SpawnsPInv,
       ProbeFailsPInv, RefusesIdentityPInv, InstallsPInv, ServiceRefusedPInv, OperationSentPInv,
       OperationFailsPInv, SupShutdownTakesPInv, SupShutdownEndsPInv
    DEF SupTaskStep
<1> QED
    BY <1>2, Asks_currentPInv, OperationAnsweredPInv, TaskDroppedPInv, TransportPInv DEF SupNext

\* The initial state satisfies the supervisor's invariant.
LEMMA InitPInv == SupInit => PInv
<1> SUFFICES ASSUME SupInit PROVE PInv
    OBVIOUS
<1> USE SupervisorAssumption, NoTaskAssumption DEF SupInit
<1>1. SupTypeOK
    BY DEF SupTypeOK, Accounts, Results, SupTasks
<1>2. LockInv
    BY DEF LockInv
<1>3. NumberInv
    BY DEF NumberInv, Launches
<1>4. ServedInv /\ SentInv
    BY DEF ServedInv, Served, SentInv, Launches
<1> QED
    BY <1>1, <1>2, <1>3, <1>4 DEF PInv

\* A set within a singleton has at most one member.
LEMMA AtMostOne ==
    ASSUME NEW S, NEW x, S \subseteq {x}
    PROVE  Cardinality(S) <= 1
<1>1. IsFiniteSet({x}) /\ Cardinality({x}) = 1
    BY FS_Singleton
<1>2. IsFiniteSet(S) /\ Cardinality(S) <= Cardinality({x})
    BY <1>1, FS_Subset
<1> QED
    BY <1>1, <1>2, FS_CardinalityType

\* The promises the run checks of this part follow from the supervisor's invariant.
LEMMA PInvSuffices == PInv => OnePluginProcess /\ SupervisedCallsStayHome
<1> SUFFICES ASSUME PInv PROVE OnePluginProcess /\ SupervisedCallsStayHome
    OBVIOUS
<1>1. OnePluginProcess
  <2> DEFINE Up == {i \in Launches : proc[i] = "up"}
  <2>1. CASE supLock = NoTask
    <3>1. Up \subseteq {liveGen}
      BY <2>1, NoTaskAssumption DEF PInv, LockInv, Launches
    <3> QED
      BY <3>1, AtMostOne DEF OnePluginProcess
  <2>2. CASE supLock # NoTask
    <3>1. Up \subseteq {hand[supLock]}
      <4> SUFFICES ASSUME NEW i \in Launches, proc[i] = "up"
                   PROVE  i = hand[supLock]
        OBVIOUS
      <4>1. liveGen = 0 /\ i # 0
        BY <2>2 DEF PInv, LockInv, Launches
      <4>2. PICK t \in SupTasks : hand[t] = i
        BY <4>1 DEF PInv, LockInv
      <4>3. supLock = t
        BY <4>1, <4>2 DEF PInv, LockInv
      <4> QED
        BY <4>2, <4>3
    <3> QED
      BY <3>1, AtMostOne DEF OnePluginProcess
  <2> QED
    BY <2>1, <2>2
<1>2. ASSUME NEW t \in SupTasks
      PROVE  Cardinality(ranOn[t]) <= 1
  <2>1. ranOn[t] \subseteq {got[t]}
    BY DEF PInv, SentInv
  <2> QED
    BY <2>1, AtMostOne
<1>3. \A t \in SupTasks : \A i \in ranOn[t] : i \in Launches /\ Served(i)
    BY DEF PInv, SentInv, Served, SupTypeOK
<1> QED
    BY <1>1, <1>2, <1>3 DEF PInv, SentInv, ServedInv, SupervisedCallsStayHome

-----------------------------------------------------------------------------
(***************************************************************************)
(* Part three: the runtimes of the catalog (Catalog).                      *)
(***************************************************************************)
Places == {"idle", "opening", "locking", "discovering", "activating", "checking", "unwinding",
           "ready", "issuing", "done"}
OpOutcomes == {"none", "invalid_spec", "stale", "invalid_config", "unavailable", "cleanup_failed",
             "namespace_mismatch", "unsupported", "ok", "transport", "dropped"}
Operations == [at : Places, kind : {"none", "create", "attach", "list", "health"},
               entry : Entries \cup {"none"}, spec : 0..4, rt : 0..MaxRuntimes, out : OpOutcomes]
Runtimes == [entry : Entries, state : {"up", "down", "told", "dropped"}, ns : {"home", "elsewhere"}]

\* The types of what CatTypeOK leaves out.
CatalogOK ==
    /\ CatTypeOK
    /\ catOp \in [Tasks -> Operations]
    /\ shut \in [Closers -> {"idle", "waiting", "dropped", "ok", "failed"}]
    /\ sweeper \in Closers \cup {"none"}
    /\ catSwept \in [Entries -> {"no", "ok", "failed"}]
    /\ \E n \in 0..MaxRuntimes : runtimes \in [1..n -> Runtimes]

\* A task that starts a runtime holds its entry's lock, and nobody else does; what it started
\* is in its hands.
Starting == {"discovering", "activating", "checking", "unwinding"}

StartInv ==
    /\ \A t \in Tasks :
         /\ catOp[t].at \notin {"idle", "done"} => catOp[t].entry \in Entries
         /\ catOp[t].at \in Starting =>
              entryLock[catOp[t].entry] = t /\ active[catOp[t].entry] = 0
         /\ catOp[t].at \in {"opening", "locking", "discovering", "activating"} => catOp[t].rt = 0
         /\ catOp[t].at \in {"checking", "unwinding"} =>
              /\ catOp[t].rt \in DOMAIN runtimes
              /\ runtimes[catOp[t].rt].entry = catOp[t].entry
    /\ \A e \in Entries, t \in Tasks :
         entryLock[e] = t => catOp[t].at \in Starting /\ catOp[t].entry = e

\* A runtime that is up is installed, or is the one its entry's lock holder started.
UpInv ==
    \A r \in DOMAIN runtimes : runtimes[r].state = "up" =>
      \/ active[runtimes[r].entry] = r
      \/ /\ active[runtimes[r].entry] = 0
         /\ \E t \in Tasks : entryLock[runtimes[r].entry] = t /\ catOp[t].rt = r

\* An entry swept after the catalog closed has no runtime and gets none.
SweptInv ==
    /\ closed \in BOOLEAN
    /\ sweeper # "none" => closed = TRUE /\ result = "none"
    /\ \A s \in Closers : /\ shut[s] # "idle" => closed = TRUE
                          /\ shut[s] \in {"ok", "failed"} => result = shut[s]
    /\ \A e \in Entries : catSwept[e] = "ok" =>
         /\ closed = TRUE /\ entryLock[e] = NoHolder
         /\ \A r \in DOMAIN runtimes : runtimes[r].entry = e => runtimes[r].state # "up"
    /\ result = "ok" => \A e \in Entries : catSwept[e] = "ok"

CInv == CatalogOK /\ StartInv /\ UpInv /\ SweptInv

-----------------------------------------------------------------------------
\* What a step of a task does to the operations.
Moved(t, to) ==
    /\ catOp' \in [Tasks -> Operations]
    /\ \A u \in Tasks : u # t => catOp'[u] = catOp[u]
    /\ catOp'[t].at = to /\ catOp'[t].entry = catOp[t].entry

\* What a step of an operation changes: its place, and nothing of the entries.
LEMMA GoesMoves ==
    ASSUME CatalogOK, NEW t \in Tasks, NEW to \in Places, OpGoes(t, to)
    PROVE  Moved(t, to) /\ catOp'[t].rt = catOp[t].rt
    BY DEF CatalogOK, OpGoes, Moved, Operations

\* What the return of an operation changes.
LEMMA ReturnsMoves ==
    ASSUME CatalogOK, NEW t \in Tasks, NEW out \in OpOutcomes, OpReturns(t, out)
    PROVE  Moved(t, "done") /\ catOp'[t].rt = catOp[t].rt
<1> DEFINE mid == [catOp EXCEPT ![t].at = "done"]
<1>1. /\ mid \in [Tasks -> Operations] /\ \A u \in Tasks : u # t => mid[u] = catOp[u]
      /\ mid[t].at = "done" /\ mid[t].entry = catOp[t].entry /\ mid[t].rt = catOp[t].rt
    BY DEF CatalogOK, Operations, Places
<1>2. catOp' = [mid EXCEPT ![t].out = out]
    BY DEF OpReturns
<1> HIDE DEF mid
<1> QED
    BY <1>1, <1>2 DEF Moved, Operations

\* A step of a task that starts nothing.
LEMMA TaskMoves ==
    ASSUME CInv, NEW t \in Tasks, catOp' \in [Tasks -> Operations],
           \A u \in Tasks : u # t => catOp'[u] = catOp[u],
           UNCHANGED <<closed, entryLock, active, runtimes, shut, sweeper, catSwept, result>>,
           catOp[t].at \notin Starting, catOp'[t].at \notin Starting,
           catOp'[t].at \notin {"idle", "done"} => catOp'[t].entry \in Entries,
           catOp'[t].at \in {"opening", "locking"} => catOp'[t].rt = 0
    PROVE  CInv'
<1> USE DEF CInv
<1>1. CatalogOK'
    BY DEF CatalogOK, CatTypeOK
<1>2. StartInv'
    BY DEF StartInv, Starting
<1>3. UpInv'
    BY DEF UpInv, StartInv, CatalogOK, Runtimes
<1>4. SweptInv'
    BY DEF SweptInv
<1> QED
    BY <1>1, <1>2, <1>3, <1>4

\* OpCalled keeps the catalog's invariant.
LEMMA OpCalledCInv == ASSUME CInv, NEW t \in Tasks, OpCalled(t) PROVE CInv'
<1>0. NoOp \in Operations
    BY CatalogAssumption DEF NoOp, Operations, Places, OpOutcomes
<1>1. PICK e \in Entries, kind \in {"create", "attach", "list", "health"}, s \in DOMAIN Specs :
        catOp' = [catOp EXCEPT ![t] =
                    IF kind = "create" /\ ~SpecValid(Specs[s])
                    THEN [NoOp EXCEPT !.at = "done", !.out = "invalid_spec"]
                    ELSE [NoOp EXCEPT !.at = "opening", !.kind = kind, !.entry = e, !.spec = s]]
    BY DEF OpCalled
<1>2. s \in 0..4
    BY DEF Specs
<1>3. [NoOp EXCEPT !.at = "done", !.out = "invalid_spec"] \in Operations
  <2>1. [NoOp EXCEPT !.at = "done"] \in Operations
    BY <1>0 DEF Operations, Places
  <2> QED
    BY <2>1 DEF Operations, OpOutcomes
<1>4. [NoOp EXCEPT !.at = "opening", !.kind = kind, !.entry = e, !.spec = s] \in Operations
  <2> DEFINE o1 == [NoOp EXCEPT !.at = "opening"]
             o2 == [o1 EXCEPT !.kind = kind]
             o3 == [o2 EXCEPT !.entry = e]
             o4 == [o3 EXCEPT !.spec = s]
  <2>1. o1 \in Operations
    BY <1>0 DEF Operations, Places
  <2>2. o2 \in Operations
    BY <2>1 DEF Operations
  <2>3. o3 \in Operations
    BY <2>2 DEF Operations
  <2>4. o4 \in Operations
    BY <1>2, <2>3 DEF Operations
  <2> QED
    BY <2>4
<1>5. /\ catOp' \in [Tasks -> Operations] /\ \A u \in Tasks : u # t => catOp'[u] = catOp[u]
      /\ \/ catOp'[t].at = "done"
         \/ catOp'[t].at = "opening" /\ catOp'[t].entry = e /\ catOp'[t].rt = 0
  <2>1. CASE kind = "create" /\ ~SpecValid(Specs[s])
    BY <1>1, <1>3, <2>1 DEF CInv, CatalogOK, NoOp
  <2>2. CASE ~(kind = "create" /\ ~SpecValid(Specs[s]))
    BY <1>1, <1>4, <2>2 DEF CInv, CatalogOK, NoOp
  <2> QED
    BY <2>1, <2>2
<1>6. /\ catOp[t].at = "idle"
      /\ UNCHANGED <<closed, entryLock, active, runtimes, shut, sweeper, catSwept, result>>
    BY DEF OpCalled
<1> QED
    BY <1>5, <1>6, TaskMoves DEF Starting

\* ActiveChecksOpen keeps the catalog's invariant.
LEMMA ActiveChecksOpenCInv == ASSUME CInv, NEW t \in Tasks, ActiveChecksOpen(t) PROVE CInv'
<1>0. /\ CatalogOK /\ catOp[t].at = "opening"
      /\ UNCHANGED <<closed, entryLock, active, runtimes, shut, sweeper, catSwept, result>>
    BY DEF CInv, ActiveChecksOpen
<1>1. catOp[t].entry \in Entries /\ catOp[t].rt = 0
    BY <1>0 DEF CInv, StartInv
<1>2. \E to \in {"locking", "done"} : Moved(t, to) /\ catOp'[t].rt = catOp[t].rt
    BY <1>0, GoesMoves, ReturnsMoves DEF ActiveChecksOpen, Places, OpOutcomes
<1> QED
    BY <1>0, <1>1, <1>2, TaskMoves DEF Moved, Starting

\* Ready keeps the catalog's invariant.
LEMMA ReadyCInv == ASSUME CInv, NEW t \in Tasks, Ready(t) PROVE CInv'
<1>0. /\ CatalogOK /\ catOp[t].at = "ready"
      /\ UNCHANGED <<closed, entryLock, active, runtimes, shut, sweeper, catSwept, result>>
    BY DEF CInv, Ready
<1>1. catOp[t].entry \in Entries
    BY <1>0 DEF CInv, StartInv
<1>2. OpGoes(t, "issuing") \/ \E out \in OpOutcomes : OpReturns(t, out)
    BY DEF Ready, OpOutcomes
<1>3. \E to \in {"issuing", "done"} : Moved(t, to)
    BY <1>0, <1>2, GoesMoves, ReturnsMoves DEF Places
<1> QED
    BY <1>0, <1>1, <1>3, TaskMoves DEF Moved, Starting

\* Issues keeps the catalog's invariant.
LEMMA IssuesCInv == ASSUME CInv, NEW t \in Tasks, Issues(t) PROVE CInv'
<1>0. /\ CatalogOK /\ catOp[t].at = "issuing"
      /\ UNCHANGED <<closed, entryLock, active, runtimes, shut, sweeper, catSwept, result>>
    BY DEF CInv, Issues
<1>1. \E out \in OpOutcomes : OpReturns(t, out)
    BY DEF Issues, OpOutcomes
<1>2. Moved(t, "done")
    BY <1>0, <1>1, ReturnsMoves
<1> QED
    BY <1>0, <1>2, TaskMoves DEF Moved, Starting

\* The entry's lock is taken, or was not needed.
LEMMA ActiveLocksCInv == ASSUME CInv, NEW t \in Tasks, ActiveLocks(t) PROVE CInv'
<1> DEFINE e == catOp[t].entry
<1>0. /\ CatalogOK /\ catOp[t].at = "locking" /\ entryLock[e] = NoHolder
      /\ UNCHANGED <<closed, active, runtimes, shut, sweeper, catSwept, result>>
    BY DEF CInv, ActiveLocks
<1>1. e \in Entries /\ catOp[t].rt = 0
    BY <1>0 DEF CInv, StartInv
<1>2. \/ UNCHANGED entryLock /\ \E out \in OpOutcomes : OpReturns(t, out)
      \/ /\ UNCHANGED entryLock
         /\ catOp' = [catOp EXCEPT ![t].at = "ready", ![t].rt = active[e]]
      \/ /\ closed # TRUE /\ active[e] = 0 /\ OpGoes(t, "discovering")
         /\ entryLock' = [entryLock EXCEPT ![e] = t]
    BY DEF ActiveLocks, OpOutcomes, ensure_open
<1>3. CASE UNCHANGED entryLock /\ \E out \in OpOutcomes : OpReturns(t, out)
  <2>1. Moved(t, "done")
    BY <1>0, <1>3, ReturnsMoves
  <2> QED
    BY <1>0, <1>3, <2>1, TaskMoves DEF Moved, Starting
<1>4. CASE UNCHANGED entryLock /\ catOp' = [catOp EXCEPT ![t].at = "ready", ![t].rt = active[e]]
  <2>1. active[e] \in 0..MaxRuntimes
    BY <1>0, <1>1 DEF CatalogOK, CatTypeOK
  <2>2. Moved(t, "ready")
    <3> DEFINE mid == [catOp EXCEPT ![t].at = "ready"]
    <3>1. /\ mid \in [Tasks -> Operations] /\ \A u \in Tasks : u # t => mid[u] = catOp[u]
          /\ mid[t].at = "ready" /\ mid[t].entry = e
      BY <1>0 DEF CatalogOK, Operations, Places
    <3>2. catOp' = [mid EXCEPT ![t].rt = active[e]]
      BY <1>4
    <3> HIDE DEF mid
    <3> QED
      BY <2>1, <3>1, <3>2 DEF Moved, Operations
  <2> QED
    BY <1>0, <1>1, <1>4, <2>2, TaskMoves DEF Moved, Starting
<1>5. CASE /\ closed # TRUE /\ active[e] = 0 /\ OpGoes(t, "discovering")
           /\ entryLock' = [entryLock EXCEPT ![e] = t]
  <2>1. Moved(t, "discovering") /\ catOp'[t].rt = 0
    BY <1>0, <1>1, <1>5, GoesMoves DEF Places
  <2>2. /\ entryLock' \in [Entries -> Tasks \cup {NoHolder}] /\ entryLock'[e] = t
        /\ \A f \in Entries : f # e => entryLock'[f] = entryLock[f]
    BY <1>0, <1>1, <1>5 DEF CatalogOK, CatTypeOK
  <2>3. CatalogOK'
    BY <1>0, <2>1, <2>2 DEF CatalogOK, CatTypeOK, Moved
  <2>4. StartInv'
    BY <1>0, <1>1, <1>5, <2>1, <2>2, NobodyAssumption DEF CInv, StartInv, Starting, Moved
  <2>5. UpInv'
    <3> SUFFICES ASSUME NEW r \in DOMAIN runtimes, runtimes[r].state = "up"
                 PROVE  LET f == runtimes[r].entry
                        IN  \/ active'[f] = r
                            \/ active'[f] = 0 /\ \E u \in Tasks : entryLock'[f] = u /\ catOp'[u].rt = r
      BY <1>0 DEF UpInv
    <3> DEFINE f == runtimes[r].entry
    <3>1. f \in Entries
      BY <1>0 DEF CatalogOK, Runtimes
    <3>2. CASE f = e
      BY <1>0, <1>5, <3>2, NobodyAssumption DEF CInv, UpInv
    <3>3. CASE f # e
      <4>1. entryLock'[f] = entryLock[f] /\ entryLock[f] # t
        BY <1>0, <2>2, <3>1, <3>3 DEF CInv, StartInv, Starting
      <4> QED
        BY <1>0, <2>1, <4>1 DEF CInv, UpInv, Moved
    <3> QED
      BY <3>2, <3>3
  <2>6. SweptInv'
    BY <1>0, <1>1, <1>5, <2>2 DEF CInv, SweptInv
  <2> QED
    BY <2>3, <2>4, <2>5, <2>6 DEF CInv
<1> QED
    BY <1>2, <1>3, <1>4, <1>5

\* The task lets its entry's lock go without leaving a runtime up.
LEMMA LetsGo ==
    ASSUME CInv, NEW t \in Tasks, catOp[t].at \in Starting, Moved(t, "done"),
           Releases(catOp[t].entry),
           UNCHANGED <<closed, active, shut, sweeper, catSwept, result>>,
           \E n \in 0..MaxRuntimes : runtimes' \in [1..n -> Runtimes],
           DOMAIN runtimes' = DOMAIN runtimes,
           \A r \in DOMAIN runtimes :
             /\ runtimes'[r].entry = runtimes[r].entry
             /\ runtimes'[r].state = "up" => runtimes[r].state = "up" /\ r # catOp[t].rt
    PROVE  CInv'
<1> USE DEF CInv
<1> DEFINE e == catOp[t].entry
<1>1. e \in Entries /\ entryLock[e] = t /\ active[e] = 0
    BY DEF StartInv, Starting
<1>2. /\ entryLock' \in [Entries -> Tasks \cup {NoHolder}] /\ entryLock'[e] = NoHolder
      /\ \A f \in Entries : f # e => entryLock'[f] = entryLock[f]
    BY <1>1 DEF CatalogOK, CatTypeOK, Releases
<1>3. CatalogOK'
    BY <1>2 DEF CatalogOK, CatTypeOK, Moved
<1>4. StartInv'
    BY <1>1, <1>2, NobodyAssumption DEF StartInv, Starting, Moved
<1>5. UpInv'
  <2> SUFFICES ASSUME NEW r \in DOMAIN runtimes, runtimes[r].state = "up", r # catOp[t].rt
               PROVE  LET f == runtimes[r].entry
                      IN  \/ active[f] = r
                          \/ active[f] = 0 /\ \E u \in Tasks : entryLock'[f] = u /\ catOp'[u].rt = r
    BY DEF UpInv
  <2> DEFINE f == runtimes[r].entry
  <2>1. f \in Entries
    BY DEF CatalogOK, Runtimes
  <2>2. CASE f = e
    BY <1>1, <2>2 DEF UpInv
  <2>3. CASE f # e
    <3>1. entryLock'[f] = entryLock[f] /\ entryLock[f] # t
      BY <1>2, <2>1, <2>3 DEF StartInv
    <3> QED
      BY <3>1 DEF UpInv, Moved
  <2> QED
    BY <2>2, <2>3
<1>6. SweptInv'
    BY <1>1, <1>2, NobodyAssumption DEF SweptInv
<1> QED
    BY <1>3, <1>4, <1>5, <1>6

\* Discovers keeps the catalog's invariant.
LEMMA DiscoversCInv == ASSUME CInv, NEW t \in Tasks, Discovers(t) PROVE CInv'
<1>0. /\ CatalogOK /\ catOp[t].at = "discovering"
      /\ UNCHANGED <<closed, active, runtimes, shut, sweeper, catSwept, result>>
    BY DEF CInv, Discovers
<1>1. catOp[t].rt = 0 /\ 0 \notin DOMAIN runtimes
    BY <1>0 DEF CInv, StartInv, CatalogOK
<1>2. CASE OpGoes(t, "activating") /\ UNCHANGED entryLock
  <2>1. Moved(t, "activating") /\ catOp'[t].rt = 0
    BY <1>0, <1>1, <1>2, GoesMoves DEF Places
  <2>2. CatalogOK'
    BY <1>0, <1>2, <2>1 DEF CatalogOK, CatTypeOK, Moved
  <2>3. StartInv'
    BY <1>0, <1>2, <2>1 DEF CInv, StartInv, Starting, Moved
  <2>4. UpInv'
    BY <1>0, <1>1, <1>2, <2>1 DEF CInv, UpInv, Moved
  <2>5. SweptInv'
    BY <1>0, <1>2 DEF CInv, SweptInv
  <2> QED
    BY <2>2, <2>3, <2>4, <2>5 DEF CInv
<1>3. CASE OpReturns(t, "invalid_config") /\ Releases(catOp[t].entry)
  <2>1. Moved(t, "done")
    BY <1>0, <1>3, ReturnsMoves DEF OpOutcomes
  <2> QED
    BY <1>0, <1>1, <1>3, <2>1, LetsGo DEF Starting, CatalogOK
<1> QED
    BY <1>2, <1>3 DEF Discovers

\* Activates keeps the catalog's invariant.
LEMMA ActivatesCInv == ASSUME CInv, NEW t \in Tasks, Activates(t) PROVE CInv'
<1> DEFINE e == catOp[t].entry
<1>0. /\ CatalogOK /\ catOp[t].at = "activating"
      /\ UNCHANGED <<closed, active, shut, sweeper, catSwept, result>>
    BY DEF CInv, Activates
<1>1. /\ e \in Entries /\ entryLock[e] = t /\ active[e] = 0
      /\ catOp[t].rt = 0 /\ 0 \notin DOMAIN runtimes
    BY <1>0 DEF CInv, StartInv, CatalogOK, Starting
<1>2. PICK n \in 0..MaxRuntimes : runtimes \in [1..n -> Runtimes]
    BY <1>0 DEF CatalogOK
<1>3. Cardinality(DOMAIN runtimes) = n
    BY <1>2, FS_Interval
<1>4. CASE /\ OpReturns(t, "unavailable") /\ Releases(catOp[t].entry) /\ UNCHANGED runtimes
  <2>1. Moved(t, "done")
    BY <1>0, <1>4, ReturnsMoves DEF OpOutcomes
  <2> QED
    BY <1>0, <1>1, <1>4, <2>1, LetsGo DEF Starting, CatalogOK
<1>5. CASE /\ n + 1 <= MaxRuntimes
           /\ runtimes' = [i \in 1..(n + 1) |->
                  IF i < n + 1 THEN runtimes[i]
                  ELSE [entry |-> e, state |-> "up", ns |-> "home"]]
           /\ catOp' = [catOp EXCEPT ![t].at = "checking", ![t].rt = n + 1]
           /\ UNCHANGED entryLock
  <2>0. n \in Nat /\ MaxRuntimes \in Nat
    BY CatalogAssumption
  <2>1. Moved(t, "checking") /\ catOp'[t].rt = n + 1
    <3> DEFINE mid == [catOp EXCEPT ![t].at = "checking"]
    <3>1. /\ mid \in [Tasks -> Operations] /\ \A u \in Tasks : u # t => mid[u] = catOp[u]
          /\ mid[t].at = "checking" /\ mid[t].entry = e
      BY <1>0 DEF CatalogOK, Operations, Places
    <3>2. catOp' = [mid EXCEPT ![t].rt = n + 1] /\ n + 1 \in 0..MaxRuntimes
      BY <1>5, <2>0
    <3> HIDE DEF mid
    <3> QED
      BY <3>1, <3>2 DEF Moved, Operations
  <2>2. /\ runtimes' \in [1..(n + 1) -> Runtimes] /\ DOMAIN runtimes = 1..n
        /\ \A r \in 1..n : runtimes'[r] = runtimes[r]
        /\ runtimes'[n + 1].entry = e
    BY <1>1, <1>2, <1>5, <2>0 DEF Runtimes
  <2>3. /\ DOMAIN runtimes' = 1..(n + 1) /\ n + 1 \in 0..MaxRuntimes
        /\ \A r \in DOMAIN runtimes' : r \in DOMAIN runtimes \/ r = n + 1
        /\ n + 1 \in DOMAIN runtimes' /\ DOMAIN runtimes \subseteq DOMAIN runtimes'
    BY <1>5, <2>0, <2>2
  <2>4. CatalogOK'
    BY <1>0, <1>5, <2>1, <2>2, <2>3 DEF CatalogOK, CatTypeOK, Moved
  <2>5. StartInv'
    BY <1>0, <1>1, <1>5, <2>1, <2>2, <2>3 DEF CInv, StartInv, Starting, Moved
  <2>6. UpInv'
    <3> SUFFICES ASSUME NEW r \in DOMAIN runtimes', runtimes'[r].state = "up"
                 PROVE  \/ active[runtimes'[r].entry] = r
                        \/ /\ active[runtimes'[r].entry] = 0
                           /\ \E u \in Tasks : entryLock[runtimes'[r].entry] = u /\ catOp'[u].rt = r
      BY <1>0, <1>5 DEF UpInv
    <3>1. CASE r = n + 1
      BY <1>1, <2>1, <2>2, <3>1
    <3>2. CASE r \in DOMAIN runtimes
      BY <1>1, <2>1, <2>2, <3>2 DEF CInv, UpInv, Moved
    <3> QED
      BY <2>3, <3>1, <3>2
  <2>7. SweptInv'
    BY <1>0, <1>1, <1>5, <2>2, <2>3, NobodyAssumption DEF CInv, SweptInv
  <2> QED
    BY <2>4, <2>5, <2>6, <2>7 DEF CInv
<1> QED
    BY <1>3, <1>4, <1>5 DEF Activates

\* InstallsRuntime keeps the catalog's invariant.
LEMMA InstallsRuntimeCInv == ASSUME CInv, NEW t \in Tasks, InstallsRuntime(t) PROVE CInv'
<1> DEFINE e == catOp[t].entry
<1>0. /\ CatalogOK /\ catOp[t].at = "checking"
      /\ UNCHANGED <<closed, runtimes, shut, sweeper, catSwept, result>>
    BY DEF CInv, InstallsRuntime
<1>1. /\ e \in Entries /\ entryLock[e] = t /\ active[e] = 0 /\ catOp[t].rt \in 0..MaxRuntimes
      /\ catOp[t].rt \in DOMAIN runtimes /\ runtimes[catOp[t].rt].entry = e
    BY <1>0 DEF CInv, StartInv, Starting, CatalogOK, Operations
<1>2. CASE OpGoes(t, "unwinding") /\ UNCHANGED <<entryLock, active>>
  <2>1. Moved(t, "unwinding") /\ catOp'[t].rt = catOp[t].rt
    BY <1>0, <1>2, GoesMoves DEF Places
  <2>2. CatalogOK'
    BY <1>0, <1>2, <2>1 DEF CatalogOK, CatTypeOK, Moved
  <2>3. StartInv'
    BY <1>0, <1>2, <2>1 DEF CInv, StartInv, Starting, Moved
  <2>4. UpInv'
    BY <1>0, <1>2, <2>1 DEF CInv, UpInv, Moved
  <2>5. SweptInv'
    BY <1>0, <1>2 DEF CInv, SweptInv
  <2> QED
    BY <2>2, <2>3, <2>4, <2>5 DEF CInv
<1>3. CASE active' = [active EXCEPT ![e] = catOp[t].rt] /\ Releases(e) /\ OpGoes(t, "ready")
  <2>1. Moved(t, "ready")
    BY <1>0, <1>3, GoesMoves DEF Places
  <2>2. /\ entryLock' \in [Entries -> Tasks \cup {NoHolder}] /\ entryLock'[e] = NoHolder
        /\ \A f \in Entries : f # e => entryLock'[f] = entryLock[f]
    BY <1>0, <1>1, <1>3 DEF CatalogOK, CatTypeOK, Releases
  <2>3. /\ active' \in [Entries -> 0..MaxRuntimes] /\ active'[e] = catOp[t].rt
        /\ \A f \in Entries : f # e => active'[f] = active[f]
    BY <1>0, <1>1, <1>3 DEF CatalogOK, CatTypeOK
  <2>4. CatalogOK'
    BY <1>0, <1>1, <2>1, <2>2, <2>3 DEF CatalogOK, CatTypeOK, Moved
  <2>5. StartInv'
    BY <1>0, <1>1, <2>1, <2>2, <2>3, NobodyAssumption DEF CInv, StartInv, Starting, Moved
  <2>6. UpInv'
    <3> SUFFICES ASSUME NEW r \in DOMAIN runtimes, runtimes[r].state = "up"
                 PROVE  LET f == runtimes[r].entry
                        IN  \/ active'[f] = r
                            \/ active'[f] = 0 /\ \E u \in Tasks : entryLock'[f] = u /\ catOp'[u].rt = r
      BY <1>0 DEF UpInv
    <3> DEFINE f == runtimes[r].entry
    <3>1. f \in Entries
      BY <1>0 DEF CatalogOK, Runtimes
    <3>2. CASE f = e
      <4>1. r # 0
        BY <1>0 DEF CatalogOK
      <4>2. catOp[t].rt = r
        BY <1>1, <3>2, <4>1 DEF CInv, UpInv
      <4> QED
        BY <2>3, <3>2, <4>2
    <3>3. CASE f # e
      <4>1. active'[f] = active[f] /\ entryLock'[f] = entryLock[f] /\ entryLock[f] # t
        BY <2>2, <2>3, <3>1, <3>3 DEF CInv, StartInv
      <4> QED
        BY <2>1, <4>1 DEF CInv, UpInv, Moved
    <3> QED
      BY <3>2, <3>3
  <2>7. SweptInv'
    BY <1>0, <1>1, <2>2, NobodyAssumption DEF CInv, SweptInv
  <2> QED
    BY <2>4, <2>5, <2>6, <2>7 DEF CInv
<1> QED
    BY <1>2, <1>3 DEF InstallsRuntime

\* A runtime that is not left up.
LEMMA GoesDown ==
    ASSUME CInv, NEW r \in DOMAIN runtimes, NEW state \in {"down", "told", "dropped"},
           runtimes' = [runtimes EXCEPT ![r].state = state]
    PROVE  /\ \E n \in 0..MaxRuntimes : runtimes' \in [1..n -> Runtimes]
           /\ DOMAIN runtimes' = DOMAIN runtimes
           /\ \A q \in DOMAIN runtimes :
                /\ runtimes'[q].entry = runtimes[q].entry
                /\ runtimes'[q].state = "up" => runtimes[q].state = "up" /\ q # r
<1>1. PICK n \in 0..MaxRuntimes : runtimes \in [1..n -> Runtimes]
    BY DEF CInv, CatalogOK
<1>2. runtimes' \in [1..n -> Runtimes] /\ DOMAIN runtimes' = DOMAIN runtimes
    BY <1>1 DEF Runtimes
<1> QED
    BY <1>1, <1>2 DEF Runtimes

\* Unwinds keeps the catalog's invariant.
LEMMA UnwindsCInv == ASSUME CInv, NEW t \in Tasks, Unwinds(t) PROVE CInv'
<1>0. /\ CatalogOK /\ catOp[t].at = "unwinding" /\ Releases(catOp[t].entry)
      /\ UNCHANGED <<closed, active, shut, sweeper, catSwept, result>>
    BY DEF CInv, Unwinds
<1>1. catOp[t].rt \in DOMAIN runtimes
    BY <1>0 DEF CInv, StartInv
<1>2. \E out \in OpOutcomes : OpReturns(t, out)
    BY DEF Unwinds, OpOutcomes
<1>3. Moved(t, "done")
    BY <1>0, <1>2, ReturnsMoves
<1>4. \E state \in {"down", "told", "dropped"} :
        runtimes' = [runtimes EXCEPT ![catOp[t].rt].state = state]
    BY DEF Unwinds
<1> QED
    BY <1>0, <1>1, <1>3, <1>4, GoesDown, LetsGo DEF Starting

\* OpDropped keeps the catalog's invariant.
LEMMA OpDroppedCInv == ASSUME CInv, NEW t \in Tasks, OpDropped(t) PROVE CInv'
<1> DEFINE e == catOp[t].entry
<1>0. /\ CatalogOK /\ catOp[t].at \notin {"idle", "done"} /\ OpReturns(t, "dropped")
      /\ UNCHANGED <<closed, active, shut, sweeper, catSwept, result>>
    BY DEF CInv, OpDropped
<1>1. Moved(t, "done")
    BY <1>0, ReturnsMoves DEF OpOutcomes
<1>2. e \in Entries
    BY <1>0 DEF CInv, StartInv
<1>3. CASE catOp[t].at \in {"checking", "unwinding"}
  <2>1. catOp[t].rt \in DOMAIN runtimes /\ entryLock[e] = t
    BY <1>3 DEF CInv, StartInv, Starting
  <2>2. Releases(e) /\ runtimes' = [runtimes EXCEPT ![catOp[t].rt].state = "dropped"]
    BY <1>3, <2>1 DEF OpDropped, Releases
  <2> QED
    BY <1>0, <1>1, <1>3, <2>1, <2>2, GoesDown, LetsGo DEF Starting
<1>4. CASE catOp[t].at \in {"discovering", "activating"}
  <2>1. catOp[t].rt = 0 /\ entryLock[e] = t /\ 0 \notin DOMAIN runtimes
    BY <1>0, <1>4 DEF CInv, StartInv, Starting, CatalogOK
  <2>2. Releases(e) /\ runtimes' = runtimes
    BY <1>4, <2>1 DEF OpDropped, Releases
  <2> QED
    BY <1>0, <1>1, <1>4, <2>1, <2>2, LetsGo DEF Starting, CatalogOK
<1>5. CASE catOp[t].at \notin Starting
  <2>1. entryLock[e] # t
    BY <1>2, <1>5 DEF CInv, StartInv
  <2>2. entryLock' = entryLock /\ runtimes' = runtimes
    BY <1>5, <2>1 DEF OpDropped, Starting
  <2> QED
    BY <1>0, <1>1, <1>5, <2>2, TaskMoves DEF Moved, Starting
<1> QED
    BY <1>3, <1>4, <1>5 DEF Starting

\* The shutdown, and what changes outside.
LEMMA ShutdownCInv ==
    ASSUME CInv, \/ \E s \in Closers : \/ ShutdownCalled(s) \/ ShutdownRuns(s)
                                       \/ ShutdownReturns(s) \/ ShutdownDropped(s)
                 \/ ShutdownEnds
    PROVE  CInv'
<1> USE DEF CInv, ShutdownCalled, ShutdownRuns, ShutdownReturns, ShutdownDropped, ShutdownEnds
<1>1. StartInv' /\ UpInv'
    BY DEF StartInv, UpInv
<1>2. CatalogOK'
  <2>1. CatTypeOK' /\ catOp' = catOp /\ runtimes' = runtimes
    BY DEF CatalogOK, CatTypeOK
  <2>2. /\ shut' \in [Closers -> {"idle", "waiting", "dropped", "ok", "failed"}]
        /\ sweeper' \in Closers \cup {"none"}
        /\ catSwept' \in [Entries -> {"no", "ok", "failed"}]
    BY DEF CatalogOK, CatTypeOK
  <2> QED
    BY <2>1, <2>2 DEF CatalogOK
<1>3. SweptInv'
  <2>1. ASSUME NEW s \in Closers, ShutdownCalled(s) PROVE SweptInv'
    BY <2>1 DEF SweptInv, CatalogOK
  <2>2. ASSUME NEW s \in Closers, ShutdownRuns(s) PROVE SweptInv'
    BY <2>2 DEF SweptInv, CatalogOK
  <2>3. ASSUME NEW s \in Closers, ShutdownReturns(s) PROVE SweptInv'
    BY <2>3 DEF SweptInv, CatalogOK, CatTypeOK
  <2>4. ASSUME NEW s \in Closers, ShutdownDropped(s) PROVE SweptInv'
    BY <2>4 DEF SweptInv, CatalogOK
  <2>5. ASSUME ShutdownEnds PROVE SweptInv'
    BY <2>5, NobodyAssumption DEF SweptInv, CatalogOK
  <2> QED
    BY <2>1, <2>2, <2>3, <2>4, <2>5
<1> QED
    BY <1>1, <1>2, <1>3

\* Sweeps keeps the catalog's invariant.
LEMMA SweepsCInv == ASSUME CInv, NEW e \in Entries, Sweeps(e) PROVE CInv'
<1>0. /\ CatalogOK /\ sweeper # "none" /\ entryLock[e] = NoHolder /\ catSwept[e] = "no"
      /\ UNCHANGED <<closed, entryLock, active, catOp, shut, sweeper, result>>
    BY DEF CInv, Sweeps
<1>1. /\ \E n \in 0..MaxRuntimes : runtimes' \in [1..n -> Runtimes]
      /\ DOMAIN runtimes' = DOMAIN runtimes
      /\ \A q \in DOMAIN runtimes :
           /\ runtimes'[q].entry = runtimes[q].entry
           /\ runtimes'[q].state = "up" => runtimes[q].state = "up"
  <2>1. CASE runtimes' = runtimes
    BY <1>0, <2>1 DEF CatalogOK
  <2>2. CASE active[e] # 0 /\ runtimes' = [runtimes EXCEPT ![active[e]].state = "down"]
    BY <1>0, <2>2, GoesDown DEF CatalogOK, CatTypeOK
  <2> QED
    BY <2>1, <2>2 DEF Sweeps
<1>2. /\ catSwept' \in [Entries -> {"no", "ok", "failed"}]
      /\ \A f \in Entries : f # e => catSwept'[f] = catSwept[f]
    BY <1>0 DEF Sweeps, CatalogOK
<1>3. CatalogOK'
    BY <1>0, <1>1, <1>2 DEF CatalogOK, CatTypeOK
<1>4. StartInv' /\ UpInv'
    BY <1>0, <1>1 DEF CInv, StartInv, UpInv
<1>5. ASSUME catSwept'[e] = "ok", NEW r \in DOMAIN runtimes, runtimes[r].entry = e
      PROVE  runtimes'[r].state # "up"
  <2>1. runtimes[r].state = "up" => active[e] = r
    BY <1>0, <1>5, NobodyAssumption DEF CInv, UpInv
  <2>2. CASE active[e] = 0
    BY <1>0, <1>1, <1>5, <2>1, <2>2 DEF CatalogOK
  <2>3. CASE active[e] # 0
    <3>1. runtimes' = [runtimes EXCEPT ![active[e]].state = "down"]
      BY <1>0, <1>5, <2>3 DEF Sweeps, CatalogOK
    <3> QED
      BY <1>0, <1>1, <1>5, <2>1, <2>3, <3>1, GoesDown DEF CatalogOK, CatTypeOK
  <2> QED
    BY <2>2, <2>3
<1>6. SweptInv'
    BY <1>0, <1>1, <1>2, <1>5 DEF CInv, SweptInv
<1> QED
    BY <1>3, <1>4, <1>6 DEF CInv

\* NamespaceChanges keeps the catalog's invariant.
LEMMA NamespaceChangesCInv ==
    ASSUME CInv, NEW r \in DOMAIN runtimes, NamespaceChanges(r)
    PROVE  CInv'
<1>0. /\ runtimes' = [runtimes EXCEPT ![r].ns = "elsewhere"]
      /\ UNCHANGED <<closed, entryLock, active, catOp, shut, sweeper, catSwept, result>>
    BY DEF NamespaceChanges
<1>1. PICK n \in 0..MaxRuntimes : runtimes \in [1..n -> Runtimes]
    BY DEF CInv, CatalogOK
<1>2. runtimes' \in [1..n -> Runtimes] /\ DOMAIN runtimes' = DOMAIN runtimes
    BY <1>0, <1>1 DEF Runtimes
<1>3. \A q \in DOMAIN runtimes :
        runtimes'[q].entry = runtimes[q].entry /\ runtimes'[q].state = runtimes[q].state
    BY <1>0, <1>1 DEF Runtimes
<1>4. CatalogOK'
    BY <1>0, <1>2 DEF CInv, CatalogOK, CatTypeOK
<1>5. StartInv' /\ UpInv' /\ SweptInv'
    BY <1>0, <1>2, <1>3 DEF CInv, StartInv, UpInv, SweptInv
<1> QED
    BY <1>4, <1>5 DEF CInv

\* Every step keeps the catalog's invariant.
LEMMA NextCInv == ASSUME CInv, CatNext PROVE CInv'
    BY OpCalledCInv, ActiveChecksOpenCInv, ActiveLocksCInv, DiscoversCInv, ActivatesCInv,
       InstallsRuntimeCInv, UnwindsCInv, ReadyCInv, IssuesCInv, OpDroppedCInv, ShutdownCInv,
       SweepsCInv, NamespaceChangesCInv
    DEF CatNext

\* The initial state satisfies the catalog's invariant.
LEMMA InitCInv == CatInit => CInv
<1> SUFFICES ASSUME CatInit PROVE CInv
    OBVIOUS
<1> USE CatalogAssumption, NobodyAssumption DEF CatInit
<1>1. CatalogOK
  <2>1. NoOp \in Operations
    BY DEF NoOp, Operations, Places, OpOutcomes
  <2>2. runtimes \in [1..0 -> Runtimes] /\ 0 \in 0..MaxRuntimes
    OBVIOUS
  <2> QED
    BY <2>1, <2>2 DEF CatalogOK, CatTypeOK
<1>2. StartInv /\ UpInv /\ SweptInv
    BY DEF StartInv, UpInv, SweptInv, Starting, NoOp
<1> QED
    BY <1>1, <1>2 DEF CInv

\* The promises the run checks of this part follow from the catalog's invariant.
LEMMA CInvSuffices == CInv => CatTypeOK /\ NoStrayRuntime
<1> SUFFICES ASSUME CInv PROVE CatTypeOK /\ NoStrayRuntime
    OBVIOUS
<1>1. \A r \in DOMAIN runtimes : runtimes[r].entry \in Entries
    BY DEF CInv, CatalogOK, Runtimes
<1> QED
    BY <1>1 DEF CInv, CatalogOK, UpInv, SweptInv, NoStrayRuntime, RuntimeUp

-----------------------------------------------------------------------------
(***************************************************************************)
(* Part four: a stdio process of the host provider (HostStdio).            *)
(***************************************************************************)
\* The group of a command that counts as killed has lost its leader, unless that one left it.
StdioInv ==
    /\ HostStdioTypeOK
    /\ process["leader"] # "none"
    /\ backend = "sentinel" /\ (pinned = FALSE \/ groupDead = TRUE)
         => process["leader"] = "ended" \/ away = TRUE
    /\ IF supervisor = "over" THEN /\ told # "none" /\ (told = "Cancelled" <=> termSent = TRUE)
                                   /\ \/ process["leader"] = "ended"
                                      \/ backend = "sentinel" /\ away = TRUE
                                      \/ told = "Unknown"
                                      \/ waitFailed = TRUE
       ELSE /\ told = "none"
            /\ supervisor # "gone" => (termSent = TRUE <=> supervisor # "race")
    /\ \A c \in StdioCallers :
         asks[c].got # "none" => asks[c].got = IF supervisor = "gone" THEN "Unknown" ELSE told

\* The initial state satisfies the invariant of a stdio process.
LEMMA InitStdioInv == ASSUME HostStdioInit PROVE StdioInv
<1>1. HostStdioTypeOK
  <2>1. {away, groupDead, reaped, pinned, termSent, terminate, waitFailed} \subseteq BOOLEAN
    BY Zenon DEF HostStdioInit
  <2> QED
    BY <2>1 DEF HostStdioInit, HostStdioTypeOK, Processes, Outcomes
<1> QED
    BY <1>1 DEF HostStdioInit, StdioInv, Processes

\* The processes, and the stop of the sandbox.
LEMMA ProcessStdioInv ==
    ASSUME StdioInv, Forks \/ LeavesGroup \/ SandboxStops \/ \E p \in Processes : ProcessEnds(p)
    PROVE  StdioInv'
<1> USE DEF StdioInv, HostStdioTypeOK, Processes, Outcomes, commandVars
<1>1. CASE Forks
    BY <1>1 DEF Forks, Runs
<1>2. CASE LeavesGroup
    BY <1>2 DEF LeavesGroup, Runs
<1>3. CASE \E p \in Processes : ProcessEnds(p)
    BY <1>3 DEF ProcessEnds, Runs
<1>4. CASE SandboxStops
    BY <1>4 DEF SandboxStops, Hit, InGroup, Survives
<1> QED
    BY <1>1, <1>2, <1>3, <1>4

\* The supervisor task.
LEMMA SupervisorStdioInv ==
    ASSUME StdioInv, SupervisorStep
    PROVE  StdioInv'
<1> USE DEF StdioInv, HostStdioTypeOK, Processes, Outcomes, commandVars
<1>1. CASE ChildExits
    BY <1>1 DEF ChildExits, signal, Hit, InGroup, Survives, Collects, wait_ready, Tells
<1>2. CASE TerminateAsked
    BY <1>2 DEF TerminateAsked, signal, Hit, InGroup, Survives, Collects, wait_ready, Tells
<1>3. CASE GraceEnds
    BY <1>3 DEF GraceEnds, signal, Hit, InGroup, Survives, Collects, wait_ready, Tells
<1>4. CASE kill
  <2>1. CASE backend = "direct"
    <3>1. /\ process' \in [Processes -> {"none", "running", "ended"}]
          /\ process'["leader"] # "none"
      BY <1>4, <2>1 DEF kill
    <3>2. groupDead' = TRUE /\ reaped' = TRUE
      BY <1>4, <2>1 DEF kill, Collects
    <3> QED
      BY <1>4, <2>1, <3>1, <3>2 DEF kill
  <2>2. CASE backend = "sentinel"
    BY <1>4, <2>2 DEF kill, signal, Hit, InGroup, Survives, Collects
  <2> QED
    BY <2>1, <2>2
<1>5. CASE Reaps
    BY <1>5 DEF Reaps, signal, Hit, InGroup, Survives, Collects, wait_ready, Tells
<1> QED
    BY <1>1, <1>2, <1>3, <1>4, <1>5 DEF SupervisorStep

\* A wait that fails, and a supervisor that stops.
LEMMA FaultStdioInv ==
    ASSUME StdioInv, WaitFails \/ SupervisorStops
    PROVE  StdioInv'
<1> USE DEF StdioInv, HostStdioTypeOK, Processes, Outcomes, commandVars
<1>1. CASE WaitFails
    BY <1>1 DEF WaitFails, Tells
<1>2. CASE SupervisorStops
    BY <1>2 DEF SupervisorStops
<1> QED
    BY <1>1, <1>2

\* The callers.
LEMMA CallerStdioInv ==
    ASSUME StdioInv, NEW c \in StdioCallers, AskReturns(c) \/ \E what \in {"wait", "terminate"} : Ask(c, what)
    PROVE  StdioInv'
<1> USE DEF StdioInv, HostStdioTypeOK, Processes, Outcomes, commandVars
<1>1. CASE AskReturns(c)
    BY <1>1 DEF AskReturns
<1>2. CASE \E what \in {"wait", "terminate"} : Ask(c, what)
    BY <1>2 DEF Ask
<1> QED
    BY <1>1, <1>2

\* Every step keeps the invariant of a stdio process.
LEMMA NextStdioInv == ASSUME StdioInv, HostStdioNext PROVE StdioInv'
    BY ProcessStdioInv, SupervisorStdioInv, FaultStdioInv, CallerStdioInv DEF HostStdioNext, Processes

\* The promises the run checks of this part follow from the invariant of a stdio process.
LEMMA StdioInvSuffices == StdioInv => HostStdioTypeOK /\ TerminatedIsGone
    BY DEF StdioInv, HostStdioTypeOK, TerminatedIsGone

-----------------------------------------------------------------------------
(***************************************************************************)
(* Part five: a command in a Docker container (DockerExec).                *)
(***************************************************************************)
\* The command is there from its launch on; its watcher starts before it and, as the pid file
\* is written after it, has nobody to signal until the wrapper waits for it.
Launching == {"pid_open", "pid_write"}
WatchInv ==
    /\ ExecTypeOK
    /\ wrapper \in {"tools", "check", "refuse", "watch"} => execLeader = "none" /\ watcher = "none"
    /\ wrapper = "launch" => execLeader = "none"
    /\ wrapper \in {"launch"} \cup Launching => watcher \in {"stop", "pid"}
    /\ wrapper \in {"watch", "launch"} \cup Launching => pidFile # "set"
    /\ wrapper \in Launching \cup {"wait"} => execLeader # "none" /\ watcher # "none"
    /\ wrapper \in {"unwatch", "remove", "exited"} => execLeader \in {"none", "dead"}
    /\ watcher = "gone" => execLeader \in {"none", "dead"}
    /\ client.at \in {"opening", "writing"} => client.level # "none"

\* The initial state satisfies the invariant of a watched command.
LEMMA InitWatchInv == ASSUME ExecInit PROVE WatchInv
    BY DaemonErrorsAssumption DEF ExecInit, WatchInv, ExecTypeOK, WrapperSteps, WatcherSteps,
       ClientSteps,
       Contents, Launching

\* The wrapper, the watcher and the command.
LEMMA CommandWatchInv ==
    ASSUME WatchInv, WrapperStep \/ WatcherStep \/ CommandStarts \/ CommandForks \/ CommandExits
    PROVE  WatchInv'
<1> USE DEF WatchInv, ExecTypeOK, WrapperSteps, WatcherSteps, Contents, Launching, files
<1>0. CASE WrapperLooksForTools
    BY <1>0 DEF WrapperLooksForTools
<1>1. CASE WrapperCheck
    BY <1>1 DEF WrapperCheck
<1>2. CASE WrapperRefuse
    BY <1>2 DEF WrapperRefuse
<1>3. CASE WrapperWatch
    BY <1>3 DEF WrapperWatch
<1>4. CASE WrapperLaunch
    BY <1>4 DEF WrapperLaunch
<1>5. CASE WrapperPid
    BY <1>5 DEF WrapperPid
<1>6. CASE WrapperReap
    BY <1>6 DEF WrapperReap
<1>7. CASE WrapperUnwatch
    BY <1>7 DEF WrapperUnwatch
<1>8. CASE WrapperRemove
    BY <1>8 DEF WrapperRemove
<1>9. CASE WatcherWaits
    BY <1>9 DEF WatcherWaits
<1>10. CASE WatcherReadsMode
    BY <1>10 DEF WatcherReadsMode
<1>11. CASE WatcherTerms
    BY <1>11 DEF WatcherTerms, ProcessAlive
<1>12. CASE WatcherLooksAgain
    BY <1>12 DEF WatcherLooksAgain, Reaped
<1>13. CASE WatcherKills
    BY <1>13 DEF WatcherKills, ProcessAlive
<1>14. CASE CommandStarts
    BY <1>14 DEF CommandStarts
<1>15. CASE CommandForks
    BY <1>15 DEF CommandForks
<1>16. CASE CommandExits
    BY <1>16 DEF CommandExits
<1> QED
    BY <1>0, <1>1, <1>2, <1>3, <1>4, <1>5, <1>6, <1>7, <1>8, <1>9, <1>10, <1>11, <1>12, <1>13,
       <1>14, <1>15, <1>16 DEF WrapperStep, WatcherStep

\* The clients touch nothing but the stop file.
LEMMA ClientWatchInv ==
    ASSUME WatchInv, \/ \E level \in {"term", "kill"} : RunAsks(level)
                     \/ HandleLooks \/ RequestOpens \/ RequestWrites \/ RequestFails
                     \/ CleanupGraceEnds
    PROVE  WatchInv'
<1> DEFINE Clients == [kind : {"run", "stdio"}, at : ClientSteps, level : {"none", "term", "kill"}]
<1>0. client \in Clients
    BY DEF WatchInv, ExecTypeOK
<1> USE DEF WatchInv
<1>1. UNCHANGED <<processes, pidFile, status>>
    BY DEF RunAsks, HandleLooks, RequestOpens, RequestWrites, RequestFails, CleanupGraceEnds, files
<1>2. stopFile' \in Contents
    BY DEF RunAsks, HandleLooks, RequestOpens, RequestWrites, RequestFails, CleanupGraceEnds,
       Written, files, ExecTypeOK, Contents
<1>3. asked' \subseteq {"term", "kill"} /\ daemonErrors' \in 0..MaxDaemonErrors
    BY DaemonErrorsAssumption DEF RunAsks, HandleLooks, RequestOpens, RequestWrites, RequestFails,
       CleanupGraceEnds, ExecTypeOK
<1>4. /\ client' \in Clients
      /\ client'.at \in {"opening", "writing"} => client'.level # "none"
  <2>1. ASSUME NEW level \in {"term", "kill"},
               client' = [client EXCEPT !.at = "opening", !.level = level]
        PROVE  client' \in Clients /\ client'.level = level
    <3> DEFINE mid == [client EXCEPT !.at = "opening"]
    <3>1. mid \in Clients
      BY <1>0 DEF ClientSteps
    <3>2. client' = [mid EXCEPT !.level = level]
      BY <2>1
    <3> HIDE DEF mid
    <3> QED
      BY <3>1, <3>2
  <2>2. CASE (\E level \in {"term", "kill"} : RunAsks(level)) \/ HandleLooks
    BY <1>0, <2>1, <2>2 DEF RunAsks, HandleLooks, ClientSteps
  <2>3. CASE RequestOpens \/ RequestFails \/ CleanupGraceEnds
    BY <1>0, <2>3 DEF RequestOpens, RequestFails, CleanupGraceEnds, ClientSteps
  <2>4. CASE RequestWrites
    BY <1>0, <2>4 DEF RequestWrites, ClientSteps
  <2> QED
    BY <2>2, <2>3, <2>4
<1> QED
    BY <1>1, <1>2, <1>3, <1>4 DEF ExecTypeOK, processes

\* Every step keeps the invariant of a watched command.
LEMMA NextWatchInv == ASSUME WatchInv, ExecNext PROVE WatchInv'
    BY CommandWatchInv, ClientWatchInv DEF ExecNext

\* The promises the run checks of this part follow from the invariant of a watched command.
LEMMA WatchInvSuffices == WatchInv => ExecTypeOK /\ RunningIsWatched
    BY DEF WatchInv, RunningIsWatched, ProcessAlive, ExecTypeOK, WrapperSteps, Launching

-----------------------------------------------------------------------------
(***************************************************************************)
(* Part six: forwards and terminals of a Docker sandbox (DockerAccess).    *)
(***************************************************************************)
\* A listener in the map serves its port;
MapInv ==
    \A p \in Ports : forwards[p] # 0 =>
      /\ forwards[p] \notin released
      /\ listener[forwards[p]].port = p /\ listener[forwards[p]].task = "serving"

\* one that is not in it yet is in the hands of the one caller that bound it;
HandsInv ==
    \A o \in Openers :
      /\ opener[o].at # "idle" => opener[o].port \in Ports
      /\ opener[o].at = "insert" =>
           /\ opener[o].mine \in Listeners /\ opener[o].mine \notin released \cup answered
           /\ listener[opener[o].mine].port = opener[o].port
           /\ listener[opener[o].mine].task = "serving"
           /\ \A p \in Ports : forwards[p] # opener[o].mine
           /\ \A n \in Openers : n # o /\ opener[n].at = "insert" => opener[n].mine # opener[o].mine

\* what was released or handed out was bound, and a bound one has a port.
BoundInv ==
    /\ \A l \in released \cup answered : listener[l].task # "none"
    /\ \A l \in Listeners : listener[l].task = "serving" => listener[l].port \in Ports

ForwardInv ==
    AccessTypeOK /\ MapInv /\ HandsInv /\ BoundInv /\ NoStrayListener /\ GivenAddressServes

\* The initial state satisfies the invariant of forwards.
LEMMA InitForwardInv == ASSUME AccessInit PROVE ForwardInv
    BY ListenersAssumption
    DEF AccessInit, ForwardInv, AccessTypeOK, MapInv, HandsInv, BoundInv, NoStrayListener,
        GivenAddressServes, Unbound, Idle, Listeners

\* The types of the forwards.
ListenerStates == [port : Ports \cup {0}, task : {"none", "serving", "draining", "ended"},
                   bridge : {"none", "spawning", "relaying", "terminating"}]
OpenerStates == [at : {"idle", "probe", "lookup", "insert"}, port : Ports \cup {0},
                 mine : Listeners \cup {0}]

\* The types of listeners and openers, for the leaves that need no more.
LEMMA Bound == ASSUME AccessTypeOK
               PROVE  /\ 0 \notin Listeners /\ Listeners \subseteq Nat
                      /\ listener \in [Listeners -> ListenerStates]
                      /\ opener \in [Openers -> OpenerStates]
    BY ListenersAssumption DEF AccessTypeOK, Listeners, ListenerStates, OpenerStates

\* A step of the callers that binds and enters no listener.
LEMMA OpenerMoves ==
    ASSUME ForwardInv, NEW o \in Openers, opener[o].at # "insert",
           opener' \in [Openers -> OpenerStates], opener'[o].at # "insert",
           opener'[o].at # "idle" => opener'[o].port \in Ports,
           \A n \in Openers : n # o => opener'[n] = opener[n], probed' \in BOOLEAN,
           UNCHANGED <<forwards, listener, released, stopping, term>>,
           answered' = answered \/ \E p \in Ports : forwards[p] # 0 /\ answered' = answered \cup {forwards[p]}
    PROVE  ForwardInv'
<1> USE DEF ForwardInv
<1>0. \A l \in answered' : \/ l \in answered
                          \/ \E p \in Ports : l # 0 /\ l = forwards[p] /\ l \in Listeners
    BY DEF AccessTypeOK
<1>1. AccessTypeOK'
    BY <1>0, Bound DEF AccessTypeOK, OpenerStates
<1>2. MapInv'
    BY DEF MapInv
<1>3. HandsInv'
    BY <1>0 DEF HandsInv
<1>4. BoundInv'
    BY <1>0 DEF BoundInv, MapInv
<1>5. NoStrayListener'
    BY DEF NoStrayListener
<1>6. GivenAddressServes'
    BY <1>0 DEF GivenAddressServes, MapInv
<1> QED
    BY <1>1, <1>2, <1>3, <1>4, <1>5, <1>6

\* preview_url and the check for bridge tools keep the invariant of forwards.
LEMMA OpenForwardInv ==
    ASSUME ForwardInv, NEW o \in Openers,
           (\E p \in Ports : PreviewUrl(o, p)) \/ EnsureBridgeTools(o)
    PROVE  ForwardInv'
<1>0. AccessTypeOK /\ HandsInv /\ opener \in [Openers -> OpenerStates]
    BY Bound DEF ForwardInv
<1>1. ASSUME NEW p \in Ports, PreviewUrl(o, p) PROVE ForwardInv'
  <2>1. /\ opener' \in [Openers -> OpenerStates] /\ opener'[o].at \in {"probe", "lookup"}
        /\ opener'[o].port = p /\ \A n \in Openers : n # o => opener'[n] = opener[n]
    BY <1>0, <1>1 DEF PreviewUrl, OpenerStates
  <2> QED
    BY <1>0, <1>1, <2>1, OpenerMoves DEF PreviewUrl, AccessTypeOK
<1>2. CASE EnsureBridgeTools(o)
  <2>0. opener[o].at = "probe" /\ opener[o].port \in Ports
    BY <1>0, <1>2 DEF EnsureBridgeTools, HandsInv
  <2>1. /\ opener' \in [Openers -> OpenerStates] /\ opener'[o].at # "insert"
        /\ opener'[o].at # "idle" => opener'[o].port \in Ports
        /\ \A n \in Openers : n # o => opener'[n] = opener[n]
    <3>1. CASE opener' = [opener EXCEPT ![o].at = "lookup"]
      BY <1>0, <2>0, <3>1 DEF OpenerStates
    <3>2. CASE opener' = [opener EXCEPT ![o] = Idle]
      BY <1>0, <3>2 DEF OpenerStates, Idle
    <3> QED
      BY <1>2, <3>1, <3>2 DEF EnsureBridgeTools
  <2>2. probed' \in BOOLEAN
    BY <1>0, <1>2 DEF EnsureBridgeTools, AccessTypeOK
  <2> QED
    BY <1>2, <2>0, <2>1, <2>2, OpenerMoves DEF EnsureBridgeTools
<1> QED
    BY <1>1, <1>2

\* The first half of open: the listener there is, or a fresh one.
LEMMA LookupForwardInv == ASSUME ForwardInv, NEW o \in Openers, Lookup(o) PROVE ForwardInv'
<1>0. /\ AccessTypeOK /\ opener[o].at = "lookup" /\ opener[o].port \in Ports
      /\ UNCHANGED <<probed, forwards, released, stopping, term>>
    BY DEF ForwardInv, HandsInv, Lookup
<1>1. CASE /\ forwards[opener[o].port] # 0 /\ opener' = [opener EXCEPT ![o] = Idle]
           /\ answered' = answered \cup {forwards[opener[o].port]} /\ UNCHANGED listener
  <2>1. /\ opener' \in [Openers -> OpenerStates] /\ opener'[o].at = "idle"
        /\ \A n \in Openers : n # o => opener'[n] = opener[n]
    BY <1>0, <1>1, Bound DEF OpenerStates, Idle
  <2> QED
    BY <1>0, <1>1, <2>1, OpenerMoves DEF AccessTypeOK
<1>2. ASSUME NEW l \in Listeners, listener[l] = Unbound, UNCHANGED answered,
             listener' = [listener EXCEPT ![l].port = opener[o].port, ![l].task = "serving"],
             opener' = [opener EXCEPT ![o].at = "insert", ![o].mine = l]
      PROVE  ForwardInv'
  <2> DEFINE p == opener[o].port
  <2>1. /\ listener' \in [Listeners -> ListenerStates]
        /\ \A k \in Listeners : k # l => listener'[k] = listener[k]
        /\ listener'[l].port = p /\ listener'[l].task = "serving"
    <3> DEFINE mid == [listener EXCEPT ![l].port = p]
    <3>1. /\ mid \in [Listeners -> ListenerStates] /\ mid[l].port = p
          /\ \A k \in Listeners : k # l => mid[k] = listener[k]
      BY <1>0, Bound DEF ListenerStates
    <3>2. listener' = [mid EXCEPT ![l].task = "serving"]
      BY <1>2
    <3> HIDE DEF mid
    <3> QED
      BY <3>1, <3>2 DEF ListenerStates
  <2>2. /\ opener' \in [Openers -> OpenerStates]
        /\ \A n \in Openers : n # o => opener'[n] = opener[n]
        /\ opener'[o].at = "insert" /\ opener'[o].mine = l /\ opener'[o].port = p
    <3> DEFINE mid == [opener EXCEPT ![o].at = "insert"]
    <3>1. /\ mid \in [Openers -> OpenerStates] /\ mid[o].at = "insert" /\ mid[o].port = p
          /\ \A n \in Openers : n # o => mid[n] = opener[n]
      BY <1>0, Bound DEF OpenerStates
    <3>2. opener' = [mid EXCEPT ![o].mine = l]
      BY <1>2
    <3> HIDE DEF mid
    <3> QED
      BY <3>1, <3>2 DEF OpenerStates
  <2>3. /\ listener[l].task = "none" /\ l \notin released \cup answered
        /\ \A q \in Ports : forwards[q] # l
        /\ \A n \in Openers : opener[n].at = "insert" => opener[n].mine # l
    BY <1>2, Bound DEF ForwardInv, BoundInv, MapInv, HandsInv, Unbound
  <2> HIDE DEF p
  <2> USE <1>0, <1>2, <2>1, <2>2, <2>3 DEF ForwardInv
  <2>4. p \in Ports
    BY DEF p
  <2>5. AccessTypeOK'
    BY DEF AccessTypeOK, ListenerStates, OpenerStates
  <2>6. MapInv'
    BY DEF MapInv, AccessTypeOK
  <2>7. HandsInv'
    BY <2>4 DEF HandsInv
  <2>8. BoundInv'
    BY <2>4 DEF BoundInv, AccessTypeOK
  <2>9. NoStrayListener'
    BY DEF NoStrayListener
  <2>10. GivenAddressServes'
    BY DEF GivenAddressServes, AccessTypeOK
  <2> QED
    BY <2>5, <2>6, <2>7, <2>8, <2>9, <2>10
<1> QED
    BY <1>1, <1>2 DEF Lookup

\* The second half: the first caller enters its listener, the others' end.
LEMMA InsertForwardInv == ASSUME ForwardInv, NEW o \in Openers, Insert(o) PROVE ForwardInv'
<1> DEFINE l == opener[o].mine
           p == opener[o].port
<1>0. /\ AccessTypeOK /\ opener[o].at = "insert" /\ p \in Ports /\ l \in Listeners
      /\ l \notin released \cup answered /\ listener[l].port = p /\ listener[l].task = "serving"
      /\ \A q \in Ports : forwards[q] # l
      /\ \A n \in Openers : n # o /\ opener[n].at = "insert" => opener[n].mine # l
      /\ UNCHANGED <<probed, stopping, term>>
    BY DEF ForwardInv, HandsInv, Insert
<1>1. /\ opener' \in [Openers -> OpenerStates] /\ opener'[o].at = "idle"
      /\ \A n \in Openers : n # o => opener'[n] = opener[n]
    BY <1>0, Bound DEF Insert, OpenerStates, Idle
<1>2. CASE forwards[p] # 0
  <2>0. answered' = answered \cup {forwards[p]} /\ released' = released \cup {l} /\ UNCHANGED forwards
        /\ listener' = [listener EXCEPT ![l].task = "ended", ![l].bridge = "none"]
    BY <1>2 DEF Insert
  <2>1. /\ listener' \in [Listeners -> ListenerStates]
        /\ \A k \in Listeners : k # l => listener'[k] = listener[k]
        /\ listener'[l].task = "ended"
    <3> DEFINE mid == [listener EXCEPT ![l].task = "ended"]
    <3>1. /\ mid \in [Listeners -> ListenerStates] /\ mid[l].task = "ended"
          /\ \A k \in Listeners : k # l => mid[k] = listener[k]
      BY <1>0, Bound DEF ListenerStates
    <3>2. listener' = [mid EXCEPT ![l].bridge = "none"]
      BY <2>0
    <3> HIDE DEF mid
    <3> QED
      BY <1>0, <3>1, <3>2 DEF ListenerStates
  <2>2. forwards[p] \in Listeners /\ forwards[p] # l /\ listener[forwards[p]].task = "serving"
        /\ listener[forwards[p]].port = p
    BY <1>0, <1>2 DEF AccessTypeOK, ForwardInv, MapInv
  <2> HIDE DEF l, p
  <2> USE <1>0, <1>1, <1>2, <2>0, <2>1, <2>2 DEF ForwardInv
  <2>3. AccessTypeOK'
    BY DEF AccessTypeOK, ListenerStates, OpenerStates
  <2>4. MapInv'
    BY DEF MapInv, AccessTypeOK
  <2>5. HandsInv'
    <3> SUFFICES ASSUME NEW n \in Openers, n # o, opener[n].at = "insert"
                 PROVE  /\ opener[n].mine # l /\ opener[n].mine # forwards[p]
                        /\ listener'[opener[n].mine] = listener[opener[n].mine]
      BY DEF HandsInv
    <3> QED
      BY DEF HandsInv
  <2>6. BoundInv'
    BY DEF BoundInv, AccessTypeOK
  <2>7. NoStrayListener'
    <3> SUFFICES ASSUME NEW k \in Listeners, k # l, listener[k].task = "serving", k \notin released
                 PROVE  \/ forwards[listener[k].port] = k
                        \/ \E n \in Openers : opener'[n].at = "insert" /\ opener'[n].mine = k
      BY DEF NoStrayListener
    <3> QED
      BY DEF NoStrayListener, l
  <2>8. GivenAddressServes'
    BY DEF GivenAddressServes, AccessTypeOK
  <2> QED
    BY <2>3, <2>4, <2>5, <2>6, <2>7, <2>8
<1>3. CASE forwards[p] = 0
  <2>0. /\ forwards' = [forwards EXCEPT ![p] = l] /\ answered' = answered \cup {l}
        /\ UNCHANGED <<released, listener>>
    BY <1>3 DEF Insert
  <2>1. /\ forwards' \in [Ports -> Listeners \cup {0}] /\ forwards'[p] = l
        /\ \A q \in Ports : q # p => forwards'[q] = forwards[q]
    BY <1>0, <2>0 DEF AccessTypeOK
  <2>2. 0 \notin Listeners
    BY <1>0, Bound
  <2>3. \A n \in Openers : opener[n].at = "insert" /\ opener[n].mine = l => n = o
    BY <1>0
  <2>4. \A k \in answered : k \in released \/ forwards'[listener[k].port] = k
    BY <1>0, <1>3, <2>1, <2>2 DEF ForwardInv, GivenAddressServes, AccessTypeOK, BoundInv
  <2>5. \A k \in Listeners : listener[k].task = "serving" /\ k \notin released =>
          \/ forwards'[listener[k].port] = k
          \/ \E n \in Openers : n # o /\ opener[n].at = "insert" /\ opener[n].mine = k
    BY <1>0, <1>3, <2>1, <2>2, <2>3 DEF ForwardInv, NoStrayListener, BoundInv
  <2> HIDE DEF l, p
  <2> USE <1>0, <1>1, <1>3, <2>0, <2>1, <2>2, <2>3 DEF ForwardInv
  <2>6. AccessTypeOK'
    BY DEF AccessTypeOK, OpenerStates
  <2>7. MapInv'
    BY DEF MapInv
  <2>8. HandsInv'
    BY DEF HandsInv
  <2>9. BoundInv'
    BY DEF BoundInv
  <2>10. NoStrayListener'
    BY <2>5 DEF NoStrayListener
  <2>11. GivenAddressServes'
    BY <2>4 DEF GivenAddressServes
  <2> QED
    BY <2>6, <2>7, <2>8, <2>9, <2>10, <2>11
<1> QED
    BY <1>2, <1>3

\* Releases: the entries leave the map as their tokens are cancelled.
LEMMA ReleaseForwardInv ==
    ASSUME ForwardInv, CloseAll \/ \E p \in Ports : ReleasePreviewUrl(p)
    PROVE  ForwardInv'
<1>0. /\ AccessTypeOK /\ 0 \notin Listeners
      /\ UNCHANGED <<probed, listener, opener, answered, term>> /\ stopping' \in BOOLEAN
    BY Bound DEF ForwardInv, CloseAll, ReleasePreviewUrl, AccessTypeOK
<1>1. /\ forwards' \in [Ports -> Listeners \cup {0}]
      /\ released' \subseteq Listeners /\ released \subseteq released'
      /\ \A p \in Ports : \/ forwards'[p] = forwards[p]
                          \/ forwards'[p] = 0 /\ forwards[p] \in released'
      /\ \A l \in released' : l \in released \/ \E p \in Ports : /\ l # 0 /\ l = forwards[p]
                                                                /\ forwards'[p] = 0
  <2>1. CASE CloseAll
    BY <1>0, <2>1 DEF CloseAll, AccessTypeOK
  <2>2. CASE \E p \in Ports : ReleasePreviewUrl(p)
    BY <1>0, <2>2 DEF ReleasePreviewUrl, AccessTypeOK
  <2> QED
    BY <2>1, <2>2
<1> USE <1>0, <1>1 DEF ForwardInv
<1>2. AccessTypeOK'
    BY DEF AccessTypeOK
<1>3. MapInv'
    BY DEF MapInv, AccessTypeOK
<1>4. HandsInv'
    BY DEF HandsInv
<1>5. BoundInv'
    BY DEF BoundInv, MapInv
<1>6. NoStrayListener'
    BY DEF NoStrayListener, BoundInv
<1>7. GivenAddressServes'
    BY DEF GivenAddressServes, BoundInv, AccessTypeOK
<1> QED
    BY <1>2, <1>3, <1>4, <1>5, <1>6, <1>7

\* The tasks: a bridge gets on, or a cancelled listener ends.
LEMMA ServeForwardInv ==
    ASSUME ForwardInv, NEW l \in Listeners,
           Accept(l) \/ BridgeSpawns(l) \/ RelayEnds(l) \/ BridgeTerminates(l) \/ ServeEnds(l)
    PROVE  ForwardInv'
<1>0. /\ AccessTypeOK /\ listener \in [Listeners -> ListenerStates]
      /\ UNCHANGED <<probed, forwards, released, opener, answered, stopping, term>>
    BY Bound DEF ForwardInv, Accept, BridgeSpawns, RelayEnds, BridgeTerminates, ServeEnds
<1>1. /\ listener' \in [Listeners -> ListenerStates]
      /\ \A k \in Listeners : /\ listener'[k].port = listener[k].port
                              /\ \/ listener'[k].task = listener[k].task
                                 \/ /\ k \in released \/ listener[k].task = "draining"
                                    /\ listener'[k].task \in {"draining", "ended"}
  <2>1. ASSUME NEW b \in {"none", "spawning", "relaying", "terminating"},
               listener' = [listener EXCEPT ![l].bridge = b]
        PROVE  /\ listener' \in [Listeners -> ListenerStates]
               /\ \A k \in Listeners : /\ listener'[k].port = listener[k].port
                                       /\ listener'[k].task = listener[k].task
    BY <1>0, <2>1 DEF ListenerStates
  <2>2. CASE ServeEnds(l)
    BY <1>0, <2>2 DEF ServeEnds, ListenerStates
  <2> QED
    BY <2>1, <2>2 DEF Accept, BridgeSpawns, RelayEnds, BridgeTerminates
<1> USE <1>0, <1>1 DEF ForwardInv
<1>2. AccessTypeOK'
    BY DEF AccessTypeOK, ListenerStates
<1>3. MapInv'
    BY DEF MapInv, AccessTypeOK
<1>4. HandsInv'
    BY DEF HandsInv
<1>5. BoundInv'
    BY DEF BoundInv, AccessTypeOK
<1>6. NoStrayListener'
    BY DEF NoStrayListener
<1>7. GivenAddressServes'
    BY DEF GivenAddressServes, AccessTypeOK
<1> QED
    BY <1>2, <1>3, <1>4, <1>5, <1>6, <1>7

\* A terminal leaves the forwards alone.
LEMMA TerminalForwardInv == ASSUME ForwardInv, TerminalNext PROVE ForwardInv'
<1> DEFINE Terms == [at : {"none", "resize", "open", "reading", "terming", "killing", "closed"},
                     shell : {"none", "early", "running", "dead"},
                     pid : {"absent", "empty", "set"}, read : {"nothing", "empty", "set"}]
<1>0. term \in Terms
    BY DEF ForwardInv, AccessTypeOK
<1>1. term' \in Terms
  <2>1. CASE PtyOpen
    BY <1>0, <2>1 DEF PtyOpen, Terminal
  <2>2. CASE ShellWritesPid
    BY <1>0, <2>2 DEF ShellWritesPid, Terminal
  <2>3. CASE PtyResize \/ PtyClose
    BY <1>0, <2>3 DEF PtyResize, PtyClose, Terminal
  <2>4. CASE KillShellReads
    BY <1>0, <2>4 DEF KillShellReads, Terminal
  <2>5. CASE KillShellTerms \/ KillShellKills \/ ShellExits
    BY <1>0, <2>5 DEF KillShellTerms, KillShellKills, ShellExits, Terminal
  <2> QED
    BY <2>1, <2>2, <2>3, <2>4, <2>5 DEF TerminalNext, KillShell
<1>2. UNCHANGED forwardVars
    BY DEF TerminalNext, KillShell, PtyOpen, ShellWritesPid, PtyResize, PtyClose, KillShellReads,
       KillShellTerms, KillShellKills, ShellExits, Terminal
<1> QED
    BY <1>1, <1>2 DEF ForwardInv, AccessTypeOK, MapInv, HandsInv, BoundInv, NoStrayListener,
       GivenAddressServes, forwardVars

\* Every step keeps the invariant of forwards.
LEMMA NextForwardInv == ASSUME ForwardInv, ForwardNext PROVE ForwardInv'
    BY OpenForwardInv, LookupForwardInv, InsertForwardInv, ReleaseForwardInv, ServeForwardInv
    DEF ForwardNext

-----------------------------------------------------------------------------
(***************************************************************************)
(* Part seven: one-shots and stops of nested Daytona (DaytonaNested).      *)
(***************************************************************************)
\* Where a one-shot stands says who owns it and what it may have left on the VM.
GaveUp == oneShot.result = "unconfirmed" /\ oneShot.killed = FALSE
LeftInv ==
    /\ generation.holder = "one_shot" => oneShot.at = "ready"
    /\ oneShot.at \in TaskSteps => oneShot.owned = TRUE
    /\ oneShot.clean = FALSE => oneShot.at = "done"
    /\ "create" \in inflight => \/ oneShot.at = "created"
                                \/ oneShot.at \in {"remove", "done"} /\ GaveUp
    /\ "stage" \in inflight => oneShot.at \in {"unstage", "done"} /\ GaveUp
    /\ "start" \in inflight => /\ oneShot.at \in {"run", "remove", "done"}
                               /\ oneShot.result # "unconfirmed"
    /\ oneShot.at \notin {"idle", "unstage", "remove", "done"} =>
         oneShot.result = "ok"
    /\ action # "none" =>
         \/ oneShot.at \in {"created", "start", "run", "remove"}
         \/ oneShot.at = "done" /\ (oneShot.clean = FALSE \/ (GaveUp /\ action = "created"))
    /\ stage = TRUE => \/ oneShot.at \in {"copy", "build", "unstage"}
                       \/ oneShot.at = "done" /\ (oneShot.clean = FALSE \/ GaveUp)
    /\ oneShot.killed = TRUE => /\ oneShot.at \in {"run", "remove", "done"}
                                /\ action \in {"none", "exited"}

NestedInv == NestedTypeOK /\ LeftInv /\ (nestedStop.kill = "done" => nestedStop.mode = "kill")

Vms == [up : BOOLEAN, epoch : 0..MaxRestarts, docker : BOOLEAN]
Generations == [state : {"Fresh", "Ready", "Restarted"}, holder : {"none", "keeper", "one_shot"},
                sweep : BOOLEAN, at : ReadySteps \cup {"idle"}]
Shots == [at : OneShotSteps, owned : BOOLEAN, abandoned : BOOLEAN, kill : BOOLEAN,
          killed : BOOLEAN, clean : BOOLEAN, epoch : 0..MaxRestarts,
          result : {"ok", "error", "unconfirmed"}]
StopFiles == [mode : {"none", "term", "kill"}, term : {"idle", "sent", "done"},
              kill : {"idle", "sent", "done"}]

\* The type invariant of the nested daemon, for one caller and one handle.
LEMMA NestedTypes ==
    NestedTypeOK <=>
      /\ outer \in Vms /\ generation \in Generations /\ oneShot \in Shots /\ nestedStop \in StopFiles
      /\ keeper \in {"idle", "start", "stop", "ended", "ended_start", "ready"}
      /\ action \in {"none", "created", "running", "exited"}
      /\ inflight \subseteq {"create", "start", "stage"} /\ stage \in BOOLEAN /\ swept \in BOOLEAN
    BY DEF NestedTypeOK, Vms, Generations, Shots, StopFiles

TypedNext ==
    /\ outer' \in Vms /\ generation' \in Generations /\ oneShot' \in Shots
    /\ keeper' \in {"idle", "start", "stop", "ended", "ended_start", "ready"}
    /\ action' \in {"none", "created", "running", "exited"}
    /\ inflight' \subseteq {"create", "start", "stage"} /\ stage' \in BOOLEAN /\ swept' \in BOOLEAN

\* The initial state satisfies the invariant of nested work.
LEMMA InitNestedInv == ASSUME NestedInit PROVE NestedInv
<1> USE RestartsAssumption DEF NestedInit
<1>1. outer \in Vms /\ generation \in Generations /\ nestedStop \in StopFiles
    BY DEF Vms, Generations, StopFiles, ReadySteps
<1>2. oneShot \in Shots
    BY DEF NoShot, Shots, OneShotSteps
<1>3. NestedTypeOK
    BY <1>1, <1>2, NestedTypes
<1>4. LeftInv
    BY DEF LeftInv, GaveUp, NoShot, TaskSteps
<1> QED
    BY <1>3, <1>4 DEF NestedInv

\* A one-shot moves to another step.
LEMMA ShotMoves ==
    ASSUME oneShot \in Shots, NEW to \in OneShotSteps, oneShot' = [oneShot EXCEPT !.at = to]
    PROVE  /\ oneShot' \in Shots /\ oneShot'.at = to
           /\ oneShot'.owned = oneShot.owned /\ oneShot'.clean = oneShot.clean
           /\ oneShot'.killed = oneShot.killed /\ oneShot'.result = oneShot.result
    BY DEF Shots

\* What a step of readiness, of the VM or of another handle may do.
LEMMA AsideNestedInv ==
    ASSUME NestedInv, TypedNext, UNCHANGED nestedStop,
           \/ UNCHANGED oneShot
           \/ /\ oneShot.at = "ready" /\ oneShot'.at \in {"image", "done"}
              /\ oneShot'.clean = oneShot.clean /\ oneShot'.killed = oneShot.killed
              /\ oneShot'.result = oneShot.result,
           generation'.holder = "one_shot" => oneShot'.at = "ready",
           stage' = stage \/ stage' = FALSE, inflight' \subseteq inflight,
           action' = action \/ action' = "none" \/ (action = "running" /\ action' = "exited")
    PROVE  NestedInv'
<1>1. NestedTypeOK'
    BY DEF TypedNext, NestedInv, NestedTypeOK, Vms, Generations, Shots, StopFiles
<1>2. LeftInv'
    BY DEF NestedInv, LeftInv, GaveUp, NestedTypeOK, TaskSteps
<1> QED
    BY <1>1, <1>2 DEF NestedInv

\* The end of a readiness pass.
LEMMA LeavesReady ==
    ASSUME NestedInv, NEW mark \in BOOLEAN, LeaveReady(mark), generation.holder # "none"
    PROVE  /\ generation' \in Generations /\ generation'.holder = "none"
           /\ keeper' \in {"idle", "start", "stop", "ended", "ended_start", "ready"}
           /\ oneShot' \in Shots
           /\ \/ UNCHANGED oneShot
              \/ /\ oneShot.at = "ready" /\ oneShot'.at \in {"image", "done"}
                 /\ oneShot'.clean = oneShot.clean /\ oneShot'.killed = oneShot.killed
                 /\ oneShot'.result = oneShot.result
<1>0. generation \in Generations /\ oneShot \in Shots
    BY NestedTypes DEF NestedInv
<1>1. generation' \in Generations /\ generation'.holder = "none"
  <2> DEFINE g1 == [generation EXCEPT !.holder = "none"]
             g2 == [g1 EXCEPT !.at = "idle"]
  <2>1. g1 \in Generations /\ g1.holder = "none"
    BY <1>0 DEF Generations
  <2> HIDE DEF g1
  <2>2. g2 \in Generations /\ g2.holder = "none"
    BY <2>1 DEF Generations
  <2>3. generation' = [g2 EXCEPT !.state = IF mark THEN "Ready" ELSE @]
    BY DEF LeaveReady, g1
  <2> HIDE DEF g2
  <2> QED
    BY <2>2, <2>3 DEF Generations
<1>2. \/ UNCHANGED oneShot /\ oneShot' \in Shots
      \/ /\ oneShot.at = "ready" /\ oneShot' \in Shots /\ oneShot'.at \in {"image", "done"}
         /\ oneShot'.clean = oneShot.clean /\ oneShot'.killed = oneShot.killed
         /\ oneShot'.result = oneShot.result
    BY <1>0, ShotMoves DEF LeaveReady, NestedInv, LeftInv, GaveUp, OneShotSteps
<1> QED
    BY <1>1, <1>2, NestedTypes DEF LeaveReady, NestedInv

\* ensure_ready, in each of its outcomes, keeps the invariant of nested work.
LEMMA EnsureReadyNestedInv ==
    ASSUME NestedInv, NEW who \in {"one_shot", "keeper"}, ensure_ready(who)
    PROVE  NestedInv'
<1>0. /\ outer \in Vms /\ generation \in Generations /\ oneShot \in Shots
      /\ keeper \in {"idle", "start", "stop", "ended", "ended_start", "ready"}
      /\ action \in {"none", "created", "running", "exited"}
      /\ inflight \subseteq {"create", "start", "stage"} /\ stage \in BOOLEAN /\ swept \in BOOLEAN
      /\ generation.holder = "none" /\ (who = "one_shot" => oneShot.at = "ready")
      /\ UNCHANGED <<outer, action, inflight, stage, swept, nestedStop>>
    BY NestedTypes DEF NestedInv, ensure_ready
<1>1. CASE generation.state = "Ready"
  <2>1. \/ UNCHANGED oneShot
        \/ /\ oneShot' \in Shots /\ oneShot.at = "ready" /\ oneShot'.at = "image"
           /\ oneShot'.clean = oneShot.clean /\ oneShot'.killed = oneShot.killed
           /\ oneShot'.result = oneShot.result
    BY <1>0, <1>1, ShotMoves DEF ensure_ready, OneShotSteps
  <2>2. UNCHANGED generation /\ keeper' \in {keeper, "idle"}
    BY <1>1 DEF ensure_ready
  <2> QED
    BY <1>0, <2>1, <2>2, AsideNestedInv DEF TypedNext
<1>2. CASE generation.state # "Ready"
  <2>1. generation' \in Generations /\ generation'.holder = who
    <3> DEFINE g1 == [generation EXCEPT !.holder = who]
               g2 == [g1 EXCEPT !.at = "boot"]
    <3>1. g1 \in Generations /\ g1.holder = who
      BY <1>0 DEF Generations
    <3> HIDE DEF g1
    <3>2. g2 \in Generations /\ g2.holder = who
      BY <3>1 DEF Generations, ReadySteps
    <3>3. generation' = [g2 EXCEPT !.sweep = (generation.state = "Restarted")]
      BY <1>2 DEF ensure_ready, g1
    <3> HIDE DEF g2
    <3>4. (generation.state = "Restarted") \in BOOLEAN
      OBVIOUS
    <3> QED
      BY <3>2, <3>3, <3>4 DEF Generations
  <2>2. UNCHANGED <<oneShot, keeper>>
    BY <1>2 DEF ensure_ready
  <2> QED
    BY <1>0, <2>1, <2>2, AsideNestedInv DEF TypedNext
<1> QED
    BY <1>1, <1>2

\* The steps of a readiness pass.
LEMMA ReadyNestedInv ==
    ASSUME NestedInv, bootstrap \/ clean_stale_preparation \/ recover_target \/ restart_services
    PROVE  NestedInv'
<1>0. /\ outer \in Vms /\ generation \in Generations /\ oneShot \in Shots
      /\ keeper \in {"idle", "start", "stop", "ended", "ended_start", "ready"}
      /\ action \in {"none", "created", "running", "exited"}
      /\ inflight \subseteq {"create", "start", "stage"} /\ stage \in BOOLEAN /\ swept \in BOOLEAN
      /\ generation.holder # "none" /\ UNCHANGED <<inflight, nestedStop>>
      /\ generation.holder = "one_shot" => oneShot.at = "ready"
    BY NestedTypes
    DEF NestedInv, LeftInv, GaveUp, bootstrap, clean_stale_preparation, recover_target, restart_services, ReadyAt
<1>1. /\ outer' \in Vms /\ stage' \in {stage, FALSE} /\ action' \in {action, "none"}
    BY <1>0 DEF bootstrap, clean_stale_preparation, recover_target, restart_services, Vms
<1>2. swept' \in BOOLEAN
    BY <1>0 DEF bootstrap, clean_stale_preparation, recover_target, restart_services
<1>3. \/ \E mark \in BOOLEAN : LeaveReady(mark)
      \/ /\ UNCHANGED <<keeper, oneShot>>
         /\ \E to \in ReadySteps : generation' = [generation EXCEPT !.at = to]
    BY <1>0 DEF bootstrap, clean_stale_preparation, recover_target, restart_services, ReadySteps
<1>4. CASE \E mark \in BOOLEAN : LeaveReady(mark)
    BY <1>0, <1>1, <1>2, <1>4, LeavesReady, AsideNestedInv DEF TypedNext
<1>5. CASE /\ UNCHANGED <<keeper, oneShot>>
           /\ \E to \in ReadySteps : generation' = [generation EXCEPT !.at = to]
  <2>1. generation' \in Generations /\ generation'.holder = generation.holder
    BY <1>0, <1>5 DEF Generations
  <2> QED
    BY <1>0, <1>1, <1>2, <1>5, <2>1, AsideNestedInv DEF TypedNext
<1> QED
    BY <1>3, <1>4, <1>5

\* The VM, its keeper and the action's own end.
LEMMA VmNestedInv ==
    ASSUME NestedInv, KeeperBegins \/ StartVm \/ StopVm \/ VmStopsItself \/ stopped \/ ActionExits
    PROVE  NestedInv'
<1>0. /\ outer \in Vms /\ generation \in Generations /\ oneShot \in Shots
      /\ keeper \in {"idle", "start", "stop", "ended", "ended_start", "ready"}
      /\ action \in {"none", "created", "running", "exited"}
      /\ inflight \subseteq {"create", "start", "stage"} /\ stage \in BOOLEAN /\ swept \in BOOLEAN
      /\ generation.holder = "one_shot" => oneShot.at = "ready"
    BY NestedTypes DEF NestedInv, LeftInv, GaveUp
<1> USE DEF KeeperBegins, StartVm, StopVm, VmStopsItself, stopped, ActionExits, shotVars, Halted
<1>1. /\ UNCHANGED <<oneShot, stage, swept, nestedStop>> /\ inflight' \subseteq inflight
      /\ action' = action \/ (action = "running" /\ action' = "exited")
      /\ keeper' \in {"idle", "start", "stop", "ended", "ended_start", "ready"}
    BY <1>0
<1>2. generation' \in Generations /\ generation'.holder = generation.holder
    BY <1>0 DEF Generations
<1>3. outer' \in Vms
  <2>1. CASE outer' = [outer EXCEPT !.up = FALSE, !.docker = FALSE]
    BY <1>0, <2>1 DEF Vms
  <2>2. CASE outer.epoch < MaxRestarts /\ outer' = [outer EXCEPT !.up = TRUE, !.epoch = @ + 1]
    <3> DEFINE mid == [outer EXCEPT !.up = TRUE]
    <3>1. mid \in Vms /\ mid.epoch = outer.epoch
      BY <1>0 DEF Vms
    <3>2. outer' = [mid EXCEPT !.epoch = outer.epoch + 1]
      BY <1>0, <2>2 DEF Vms
    <3>3. outer.epoch + 1 \in 0..MaxRestarts
      BY <1>0, <2>2, RestartsAssumption DEF Vms
    <3> HIDE DEF mid
    <3> QED
      BY <3>1, <3>2, <3>3 DEF Vms
  <2> QED
    BY <1>0, <2>1, <2>2
<1> HIDE DEF KeeperBegins, StartVm, StopVm, VmStopsItself, stopped, ActionExits, shotVars, Halted
<1> QED
    BY <1>0, <1>1, <1>2, <1>3, AsideNestedInv DEF TypedNext

\* A step of the one-shot, its caller or the daemon that leaves readiness and the VM alone.
LEMMA ShotNestedInv ==
    ASSUME NestedInv, UNCHANGED <<outer, keeper, swept, nestedStop>>, oneShot' \in Shots, LeftInv',
           generation' \in Generations, stage' \in BOOLEAN, inflight' \subseteq {"create", "start", "stage"},
           action' \in {"none", "created", "running", "exited"}
    PROVE  NestedInv'
    BY DEF NestedInv, NestedTypeOK, Generations, Shots

\* The steps of a caller keep the invariant of nested work.
LEMMA CallerNestedInv ==
    ASSUME NestedInv, OneShotBegins \/ CallerStops \/ prepare_action_image
    PROVE  NestedInv'
<1>0. /\ generation \in Generations /\ oneShot \in Shots /\ outer \in Vms
      /\ action \in {"none", "created", "running", "exited"} /\ stage \in BOOLEAN
      /\ inflight \subseteq {"create", "start", "stage"} /\ LeftInv
    BY NestedTypes DEF NestedInv
<1>1. CASE OneShotBegins
  <2>1. /\ oneShot' \in Shots /\ oneShot'.at = "ready" /\ oneShot'.clean = TRUE
        /\ oneShot'.killed = FALSE /\ oneShot'.result = "ok"
    <3>1. NoShot \in Shots /\ NoShot.clean = TRUE /\ NoShot.killed = FALSE
            /\ NoShot.result = "ok"
      BY RestartsAssumption DEF NoShot, Shots, OneShotSteps
    <3> QED
      BY <1>1, <3>1 DEF OneShotBegins, Shots, OneShotSteps
  <2>2. LeftInv'
    BY <1>0, <1>1, <2>1 DEF OneShotBegins, LeftInv, GaveUp, TaskSteps
  <2> QED
    BY <1>0, <1>1, <2>1, <2>2, ShotNestedInv DEF OneShotBegins
<1>2. CASE CallerStops
  <2> PICK abandoned \in BOOLEAN : OneShotStops(abandoned)
    BY <1>2 DEF CallerStops
  <2>0. /\ oneShot.at \notin {"idle", "done"}
        /\ UNCHANGED <<outer, keeper, action, inflight, stage, swept, nestedStop>>
    BY <1>2 DEF CallerStops
  <2>1. CASE oneShot.owned
    <3>0. (abandoned \/ oneShot.at \in BuildSteps) \in BOOLEAN
      OBVIOUS
    <3>1. /\ oneShot' \in Shots /\ oneShot'.at = oneShot.at /\ oneShot'.clean = oneShot.clean
          /\ oneShot'.killed = oneShot.killed
          /\ oneShot'.result = oneShot.result /\ oneShot'.owned = oneShot.owned
      <4> DEFINE mid == [oneShot EXCEPT !.abandoned = (abandoned \/ oneShot.at \in BuildSteps)]
      <4>1. /\ mid \in Shots /\ mid.at = oneShot.at /\ mid.clean = oneShot.clean
            /\ mid.killed = oneShot.killed
            /\ mid.result = oneShot.result /\ mid.owned = oneShot.owned
        BY <1>0, <3>0 DEF Shots
      <4>2. oneShot' = [mid EXCEPT !.kill = TRUE]
        BY <2>1 DEF OneShotStops
      <4> HIDE DEF mid
      <4> QED
        BY <4>1, <4>2 DEF Shots
    <3>2. LeftInv' /\ UNCHANGED generation
      BY <1>0, <2>0, <2>1, <3>1 DEF LeftInv, GaveUp, OneShotStops
    <3> QED
      BY <1>0, <2>0, <3>1, <3>2, ShotNestedInv
  <2>2. CASE ~oneShot.owned
    <3>1. /\ oneShot' \in Shots /\ oneShot'.at = "done" /\ oneShot'.owned = oneShot.owned
          /\ oneShot'.clean = oneShot.clean /\ oneShot'.killed = oneShot.killed
          /\ oneShot'.result = oneShot.result
      BY <1>0, <2>2, ShotMoves DEF OneShotStops, OneShotSteps
    <3>2. generation' \in Generations /\ generation'.holder # "one_shot"
      <4>1. CASE generation.holder # "one_shot"
        BY <1>0, <2>2, <4>1 DEF OneShotStops
      <4>2. CASE generation.holder = "one_shot"
        <5>1. generation' = [generation EXCEPT !.holder = "none", !.at = "idle"]
          BY <2>2, <4>2 DEF OneShotStops
        <5> QED
          BY <1>0, <5>1 DEF Generations
      <4> QED
        BY <4>1, <4>2
    <3>3. oneShot.at \notin TaskSteps
      BY <1>0, <2>2 DEF LeftInv, GaveUp
    <3>4. LeftInv'
      BY <1>0, <2>0, <3>1, <3>2, <3>3 DEF LeftInv, GaveUp, TaskSteps
    <3> QED
      BY <1>0, <2>0, <3>1, <3>2, <3>4, ShotNestedInv
  <2> QED
    BY <2>1, <2>2
<1>3. CASE prepare_action_image
  <2>1. ASSUME NEW to \in {"stage", "create"},
               oneShot' = [oneShot EXCEPT !.at = to, !.owned = TRUE, !.epoch = outer.epoch]
        PROVE  /\ oneShot' \in Shots /\ oneShot'.at = to /\ oneShot'.owned = TRUE
               /\ oneShot'.clean = oneShot.clean /\ oneShot'.killed = oneShot.killed
               /\ oneShot'.result = oneShot.result
    <3> DEFINE s1 == [oneShot EXCEPT !.at = to]
               s2 == [s1 EXCEPT !.owned = TRUE]
    <3>1. s1 \in Shots /\ s1.at = to /\ s1.clean = oneShot.clean /\ s1.killed = oneShot.killed /\ s1.result = oneShot.result
      BY <1>0 DEF Shots, OneShotSteps, TaskSteps
    <3> HIDE DEF s1
    <3>2. /\ s2 \in Shots /\ s2.at = to /\ s2.clean = oneShot.clean /\ s2.killed = oneShot.killed
          /\ s2.result = oneShot.result
          /\ s2.owned = TRUE
      BY <3>1 DEF Shots
    <3>3. oneShot' = [s2 EXCEPT !.epoch = outer.epoch] /\ outer.epoch \in 0..MaxRestarts
      BY <1>0, <2>1 DEF s1, Vms
    <3> HIDE DEF s2
    <3> QED
      BY <3>2, <3>3 DEF Shots
  <2>2. /\ oneShot' \in Shots /\ oneShot'.at \in {"stage", "create", "done"}
        /\ oneShot'.at # "done" => oneShot'.owned = TRUE
        /\ oneShot'.clean = oneShot.clean /\ oneShot'.killed = oneShot.killed
        /\ oneShot'.result = oneShot.result
    BY <1>0, <1>3, <2>1, ShotMoves DEF prepare_action_image, ShotTo, OneShotSteps
  <2>3. LeftInv'
    BY <1>0, <1>3, <2>2 DEF LeftInv, GaveUp, prepare_action_image, TaskSteps
  <2> QED
    BY <1>0, <1>3, <2>2, <2>3, ShotNestedInv DEF prepare_action_image
<1> QED
    BY <1>1, <1>2, <1>3

\* The owned task and the daemon.
LEMMA TaskNestedInv ==
    ASSUME NestedInv, TaskStep \/ AttachBreaks \/ DaemonActs PROVE NestedInv'
<1>0. /\ generation \in Generations /\ oneShot \in Shots /\ outer \in Vms
      /\ action \in {"none", "created", "running", "exited"} /\ stage \in BOOLEAN
      /\ inflight \subseteq {"create", "start", "stage"} /\ LeftInv
    BY NestedTypes DEF NestedInv
<1> USE <1>0
<1>1. ASSUME NEW to \in TaskSteps, ShotTo(to)
      PROVE  /\ oneShot' \in Shots /\ oneShot'.at = to /\ oneShot'.owned = oneShot.owned
             /\ oneShot'.clean = oneShot.clean /\ oneShot'.killed = oneShot.killed
             /\ oneShot'.result = oneShot.result
    BY <1>1, ShotMoves DEF ShotTo, OneShotSteps
<1>2. ASSUME NEW to \in TaskSteps, NEW how \in {"error", "unconfirmed"},
             oneShot' = [oneShot EXCEPT !.at = to, !.result = how]
      PROVE  /\ oneShot' \in Shots /\ oneShot'.at = to /\ oneShot'.owned = oneShot.owned
             /\ oneShot'.clean = oneShot.clean /\ oneShot'.killed = oneShot.killed
             /\ oneShot'.result = how
    BY <1>2 DEF Shots, OneShotSteps
<1>3. CASE Build
  <2>0. /\ oneShot.at \in {"stage", "copy", "build"} /\ UNCHANGED action /\ stage' \in BOOLEAN
        /\ UNCHANGED <<outer, generation, keeper, swept, nestedStop>>
    BY <1>3 DEF Build
  <2>1. CASE UNCHANGED inflight /\ \E to \in {"copy", "build", "unstage"} : ShotTo(to)
    <3>1. /\ oneShot' \in Shots /\ oneShot'.at \in {"copy", "build", "unstage"}
          /\ oneShot'.owned = oneShot.owned /\ oneShot'.result = oneShot.result
          /\ oneShot'.clean = oneShot.clean /\ oneShot'.killed = oneShot.killed
      BY <1>1, <2>1 DEF TaskSteps
    <3>2. LeftInv'
      BY <2>0, <2>1, <3>1 DEF LeftInv, GaveUp, TaskSteps
    <3> QED
      BY <2>0, <2>1, <3>1, <3>2, ShotNestedInv
  <2>2. CASE UNCHANGED inflight /\ ShotFails("unstage")
    <3>1. /\ oneShot' \in Shots /\ oneShot'.at = "unstage"
          /\ oneShot'.owned = oneShot.owned /\ oneShot'.result = "error"
          /\ oneShot'.clean = oneShot.clean /\ oneShot'.killed = oneShot.killed
      BY <1>2, <2>2 DEF ShotFails, TaskSteps
    <3>2. LeftInv'
      BY <2>0, <2>2, <3>1 DEF LeftInv, GaveUp, TaskSteps
    <3> QED
      BY <2>0, <2>2, <3>1, <3>2, ShotNestedInv
  <2>3. CASE GivesUp("stage", "unstage")
    <3>1. /\ oneShot' \in Shots /\ oneShot'.at = "unstage"
          /\ oneShot'.owned = oneShot.owned /\ oneShot'.result = "unconfirmed"
          /\ oneShot'.clean = oneShot.clean /\ oneShot'.killed = oneShot.killed
      BY <1>2, <2>3 DEF GivesUp, TaskSteps
    <3>2. inflight' = inflight \cup {"stage"}
      BY <2>3 DEF GivesUp
    <3>3. oneShot.killed = FALSE
      BY <2>0 DEF LeftInv, Shots
    <3>4. LeftInv'
      BY <2>0, <3>1, <3>2, <3>3 DEF LeftInv, GaveUp, TaskSteps
    <3> QED
      BY <2>0, <3>1, <3>2, <3>4, ShotNestedInv
  <2> QED
    BY <1>3, <2>1, <2>2, <2>3 DEF Build
<1>4. CASE Unstage
  <2>0. /\ oneShot.at = "unstage" /\ UNCHANGED <<action, inflight>>
        /\ UNCHANGED <<outer, generation, keeper, swept, nestedStop>>
    BY <1>4 DEF Unstage
  <2> DEFINE goOn == oneShot.result = "ok" /\ ~oneShot.kill
  <2>1. CASE /\ stage' = FALSE
             /\ oneShot' = [oneShot EXCEPT !.at = IF goOn THEN "create" ELSE "done", !.owned = goOn]
    <3> DEFINE to == IF goOn THEN "create" ELSE "done"
               mid == [oneShot EXCEPT !.at = to]
    <3>1. /\ mid \in Shots /\ mid.at = to /\ mid.clean = oneShot.clean
          /\ mid.killed = oneShot.killed /\ mid.result = oneShot.result
      BY DEF Shots, OneShotSteps, TaskSteps
    <3>2. oneShot' = [mid EXCEPT !.owned = goOn] /\ goOn \in BOOLEAN
      BY <2>1
    <3>3. /\ to \in {"done", "create"} /\ (to = "create" => goOn = TRUE)
          /\ to = "create" => oneShot.result = "ok"
      BY Zenon
    <3> HIDE DEF mid, to, goOn
    <3>4. /\ oneShot' \in Shots /\ oneShot'.at = to /\ oneShot'.owned = goOn
          /\ oneShot'.clean = oneShot.clean /\ oneShot'.killed = oneShot.killed
          /\ oneShot'.result = oneShot.result
      BY <3>1, <3>2 DEF Shots
    <3>5. oneShot'.at = "create" => oneShot'.owned = TRUE /\ oneShot'.result = "ok"
      BY <3>3, <3>4
    <3>6. LeftInv'
      BY <2>0, <2>1, <3>3, <3>4, <3>5 DEF LeftInv, GaveUp, TaskSteps
    <3> QED
      BY <2>0, <2>1, <3>4, <3>6, ShotNestedInv
  <2>2. CASE /\ UNCHANGED stage
             /\ oneShot' = [oneShot EXCEPT !.at = "done", !.owned = FALSE, !.clean = FALSE]
    <3>1. /\ oneShot' \in Shots /\ oneShot'.at = "done" /\ oneShot'.clean = FALSE
          /\ oneShot'.killed = oneShot.killed /\ oneShot'.result = oneShot.result
      BY <2>2 DEF Shots, OneShotSteps
    <3>2. LeftInv'
      BY <2>0, <2>2, <3>1 DEF LeftInv, GaveUp, TaskSteps
    <3> QED
      BY <2>0, <2>2, <3>1, <3>2, ShotNestedInv
  <2> QED
    BY <1>4, <2>1, <2>2 DEF Unstage
<1>5. CASE \/ CreateAction \/ CreateAnswered \/ StartAction \/ SignalFails
          \/ ActionEnds \/ AttachBreaks
  <2>0. /\ UNCHANGED <<outer, generation, keeper, swept, nestedStop, action, stage>>
        /\ inflight' \subseteq {"create", "start", "stage"}
    BY <1>5 DEF CreateAction, CreateAnswered, StartAction, SignalFails, ActionEnds,
       AttachBreaks, GivesUp
  <2>1. CASE \E to \in {"created", "start", "run", "remove"} :
          /\ ShotTo(to)
          /\ to = "created" => oneShot.at = "create" /\ inflight' = inflight \cup {"create"}
          /\ to = "start" => oneShot.at = "created" /\ UNCHANGED inflight /\ "create" \notin inflight
          /\ to = "run" => oneShot.at = "start" /\ inflight' = inflight \cup {"start"}
          /\ to = "remove" => /\ oneShot.at \in {"created", "run"} /\ UNCHANGED inflight
                              /\ "create" \notin inflight
    <3>1. PICK to \in {"created", "start", "run", "remove"} :
          /\ oneShot' \in Shots /\ oneShot'.at = to /\ oneShot'.owned = oneShot.owned
          /\ oneShot'.clean = oneShot.clean /\ oneShot'.killed = oneShot.killed
          /\ oneShot'.result = oneShot.result
          /\ to = "created" => oneShot.at = "create" /\ inflight' = inflight \cup {"create"}
          /\ to = "start" => oneShot.at = "created" /\ UNCHANGED inflight /\ "create" \notin inflight
          /\ to = "run" => oneShot.at = "start" /\ inflight' = inflight \cup {"start"}
          /\ to = "remove" => /\ oneShot.at \in {"created", "run"} /\ UNCHANGED inflight
                              /\ "create" \notin inflight
      BY <1>1, <2>1 DEF TaskSteps
    <3>2. LeftInv'
      BY <2>0, <3>1 DEF LeftInv, GaveUp, TaskSteps
    <3> QED
      BY <2>0, <3>1, <3>2, ShotNestedInv
  <2>2. CASE /\ ShotFails("remove") /\ UNCHANGED inflight
             /\ oneShot.at = "run" \/ (oneShot.at = "created" /\ "create" \notin inflight)
    <3>1. /\ oneShot' \in Shots /\ oneShot'.at = "remove" /\ oneShot'.owned = oneShot.owned
          /\ oneShot'.clean = oneShot.clean /\ oneShot'.killed = oneShot.killed
          /\ oneShot'.result = "error"
      BY <1>2, <2>2 DEF ShotFails, TaskSteps
    <3>2. LeftInv'
      BY <2>0, <2>2, <3>1 DEF LeftInv, GaveUp, TaskSteps
    <3> QED
      BY <2>0, <3>1, <3>2, ShotNestedInv
  <2>3. CASE GivesUp("create", "remove") /\ oneShot.at = "created"
    <3>1. /\ oneShot' \in Shots /\ oneShot'.at = "remove" /\ oneShot'.owned = oneShot.owned
          /\ oneShot'.clean = oneShot.clean /\ oneShot'.killed = oneShot.killed
          /\ oneShot'.result = "unconfirmed"
      BY <1>2, <2>3 DEF GivesUp, TaskSteps
    <3>2. inflight' = inflight \cup {"create"}
      BY <2>3 DEF GivesUp
    <3>3. oneShot.killed = FALSE
      BY <2>3 DEF LeftInv, Shots
    <3>4. LeftInv'
      BY <2>0, <2>3, <3>1, <3>2, <3>3 DEF LeftInv, GaveUp, TaskSteps
    <3> QED
      BY <2>0, <3>1, <3>4, ShotNestedInv
  <2>4. CASE CreateAction
    BY <2>1, <2>4 DEF CreateAction
  <2>5. CASE CreateAnswered
    BY <2>1, <2>2, <2>3, <2>5 DEF CreateAnswered
  <2>6. CASE StartAction
    BY <2>1, <2>6 DEF StartAction
  <2>7. CASE SignalFails
    BY <2>2, <2>7 DEF SignalFails
  <2>8. CASE ActionEnds \/ AttachBreaks
    <3>1. "create" \notin inflight /\ oneShot.at = "run" /\ UNCHANGED inflight
      BY <2>8 DEF ActionEnds, AttachBreaks, LeftInv
    <3> QED
      BY <2>1, <2>2, <2>8, <3>1 DEF ActionEnds, AttachBreaks
  <2> QED
    BY <1>5, <2>4, <2>5, <2>6, <2>7, <2>8
<1>6. CASE signal_action
  <2>0. /\ UNCHANGED <<outer, generation, keeper, swept, nestedStop, inflight, stage>>
        /\ oneShot.at = "run" /\ action' \in {"none", "exited"}
    BY <1>6 DEF signal_action
  <2>1. /\ oneShot' \in Shots /\ oneShot'.at = "run" /\ oneShot'.clean = oneShot.clean
        /\ oneShot'.owned = oneShot.owned /\ oneShot'.result = oneShot.result
    BY <1>6, <2>0 DEF signal_action, Shots
  <2>2. LeftInv'
    BY <2>0, <2>1 DEF LeftInv, GaveUp, TaskSteps
  <2> QED
    BY <2>0, <2>1, <2>2, ShotNestedInv
<1>7. CASE RemoveAction
  <2>0. /\ UNCHANGED <<outer, generation, keeper, swept, nestedStop, inflight, stage>>
        /\ oneShot.at = "remove"
    BY <1>7 DEF RemoveAction
  <2>1. /\ oneShot' \in Shots /\ oneShot'.at = "done" /\ oneShot'.killed = oneShot.killed
        /\ oneShot'.result = oneShot.result
        /\ \/ action' = "none" /\ oneShot'.clean = oneShot.clean
           \/ action' = action /\ oneShot'.clean = FALSE
    <3>1. CASE oneShot' = [oneShot EXCEPT !.at = "done", !.owned = FALSE] /\ action' = "none"
      BY <3>1 DEF Shots, OneShotSteps
    <3>2. CASE /\ oneShot' = [oneShot EXCEPT !.at = "done", !.owned = FALSE, !.clean = FALSE]
               /\ action' = action
      BY <3>2 DEF Shots, OneShotSteps
    <3> QED
      BY <1>7, <3>1, <3>2 DEF RemoveAction
  <2>2. LeftInv'
    BY <2>0, <2>1 DEF LeftInv, GaveUp, TaskSteps
  <2> QED
    BY <2>0, <2>1, <2>2, ShotNestedInv
<1>8. CASE DaemonActs
  <2>0. /\ UNCHANGED <<outer, generation, keeper, swept, nestedStop, oneShot>>
        /\ inflight' \subseteq inflight /\ stage' \in BOOLEAN
        /\ action' \in {"none", "created", "running", "exited"}
    BY <1>8 DEF DaemonActs
  <2>1. CASE UNCHANGED stage /\ "create" \in inflight /\ action' \in {action, "created"}
    BY <2>0, <2>1, ShotNestedInv DEF LeftInv, GaveUp, TaskSteps
  <2>2. CASE /\ UNCHANGED stage /\ "start" \in inflight
             /\ action' = action \/ (action = "created" /\ action' = "running")
    BY <2>0, <2>2, ShotNestedInv DEF LeftInv, GaveUp, TaskSteps
  <2>3. CASE UNCHANGED action /\ "stage" \in inflight
    BY <2>0, <2>3, ShotNestedInv DEF LeftInv, GaveUp, TaskSteps
  <2> QED
    BY <1>8, <2>1, <2>2, <2>3 DEF DaemonActs
<1> QED
    BY <1>3, <1>4, <1>5, <1>6, <1>7, <1>8 DEF TaskStep

\* Every step keeps the invariant of nested work.
LEMMA NextNestedInv == ASSUME NestedInv, NestedNext PROVE NestedInv'
    BY EnsureReadyNestedInv, ReadyNestedInv, VmNestedInv, CallerNestedInv, TaskNestedInv
    DEF NestedNext, ReadyStep

\* The stop file.
LEMMA StopFileNestedInv == ASSUME NestedInv, StopFileNext PROVE NestedInv'
<1>0. nestedStop \in StopFiles /\ UNCHANGED <<outer, generation, keeper, shotVars>>
    BY NestedTypes DEF NestedInv, StopFileNext, StopRequested, TermLinks, KillRenames
<1>1. nestedStop' \in StopFiles /\ (nestedStop'.kill = "done" => nestedStop'.mode = "kill")
  <2> USE <1>0 DEF NestedInv, StopFiles
  <2>1. CASE StopRequested
    BY <2>1 DEF StopRequested
  <2>2. CASE TermLinks
    <3> DEFINE mid == [nestedStop EXCEPT !.mode = IF @ = "none" THEN "term" ELSE @]
    <3>1. /\ mid \in StopFiles /\ mid.kill = nestedStop.kill
          /\ nestedStop.mode # "none" => mid.mode = nestedStop.mode
      OBVIOUS
    <3>2. nestedStop' = [mid EXCEPT !.term = "done"]
      BY <2>2 DEF TermLinks
    <3> HIDE DEF mid
    <3> QED
      BY <3>1, <3>2
  <2>3. CASE KillRenames
    BY <2>3 DEF KillRenames
  <2> QED
    BY <2>1, <2>2, <2>3 DEF StopFileNext
<1>2. NestedTypeOK' /\ LeftInv'
    BY <1>0, <1>1 DEF NestedInv, NestedTypeOK, LeftInv, GaveUp, StopFiles, shotVars
<1> QED
    BY <1>1, <1>2 DEF NestedInv

\* The promises the run checks of this part follow from the invariant of nested work.
LEMMA NestedInvSuffices == NestedInv => NestedTypeOK /\ OwnedWorkIsCleaned /\ KilledStaysKilled
<1> SUFFICES ASSUME NestedInv PROVE OwnedWorkIsCleaned /\ KilledStaysKilled
    BY DEF NestedInv
<1>1. oneShot \in Shots /\ stage \in BOOLEAN
    BY NestedTypes DEF NestedInv
<1>2. OwnedWorkIsCleaned
    BY <1>1 DEF NestedInv, LeftInv, GaveUp, OwnedWorkIsCleaned, Shots
<1>3. KilledStaysKilled
    BY <1>1 DEF NestedInv, LeftInv, GaveUp, KilledStaysKilled, Shots
<1> QED
    BY <1>2, <1>3

-----------------------------------------------------------------------------
(***************************************************************************)
(* Part eight: services derived from commands (DerivedServices).           *)
(***************************************************************************)
\* The shell leads its session before the command runs; an exit is recorded only when the
\* command, or the shell, is over.
ServiceInv ==
    /\ ServicesTypeOK
    /\ spawned \in {"no", "dir", "failed"} => leader = "none"
    /\ leader = "none" => command = "none" /\ exitFile = "none"
    /\ spawned \in {"started", "ok"} => leader # "none"
    /\ spawned = "ok" => pidRecord = TRUE
    /\ setsid = TRUE /\ command = "running" => leader = "running"
    /\ exitFile # "none" => leader \in {"recorded", "zombie", "gone"}
    /\ \A s \in Stoppers :
         /\ stopAt[s] # "idle" => spawned = "ok"
         /\ stopAt[s] \in {"poll", "kill", "record", "ok"} => leader \notin {"forked", "grouped"}
         /\ stopAt[s] = "record" => leader \in {"zombie", "gone"}
         /\ stopAt[s] = "ok" => exitFile # "none" \/ leader = "gone"

\* The initial state satisfies the invariant of a service.
LEMMA InitServiceInv == ASSUME ServicesInit PROVE ServiceInv
<1>1. ServicesTypeOK
  <2>1. {setsid, reaps, stubborn, pidRecord, termed} \subseteq BOOLEAN
    BY Zenon DEF ServicesInit
  <2> QED
    BY <2>1, ServicesAssumption DEF ServicesInit, ServicesTypeOK, Exits
<1> QED
    BY <1>1 DEF ServicesInit, ServiceInv

\* The spawn and the service itself.
LEMMA SpawnServiceInv ==
    ASSUME ServiceInv, \/ SpawnMakesDir \/ SpawnStarts \/ SpawnRecordsPid
                       \/ LeaderGroups \/ LeaderRuns \/ CommandEnds \/ LeaderRecords \/ LeaderExits
    PROVE  ServiceInv'
<1> USE DEF ServiceInv, ServicesTypeOK, Exits, sandboxVars, stopVars, Ended
<1>1. CASE SpawnMakesDir
    BY <1>1 DEF SpawnMakesDir
<1>2. CASE SpawnStarts
    BY <1>2 DEF SpawnStarts
<1>3. CASE SpawnRecordsPid
    BY <1>3 DEF SpawnRecordsPid
<1>4. CASE LeaderGroups
    BY <1>4 DEF LeaderGroups
<1>5. CASE LeaderRuns
    BY <1>5 DEF LeaderRuns
<1>6. CASE CommandEnds
    BY <1>6 DEF CommandEnds
<1>7. CASE LeaderRecords
    BY <1>7 DEF LeaderRecords
<1>8. CASE LeaderExits
    BY <1>8 DEF LeaderExits
<1> QED
    BY <1>1, <1>2, <1>3, <1>4, <1>5, <1>6, <1>7, <1>8

\* A stop.
LEMMA StopServiceInv ==
    ASSUME ServiceInv, NEW s \in Stoppers,
           stop(s) \/ StopTerms(s) \/ StopPolls(s) \/ StopKills(s) \/ StopRecords(s)
    PROVE  ServiceInv'
<1> USE ServicesAssumption DEF ServiceInv, ServicesTypeOK, Exits, sandboxVars, stopVars, Ended,
   StopGoes, LeaderAnswers
<1>1. CASE stop(s)
    BY <1>1 DEF stop
<1>2. CASE StopTerms(s)
    BY <1>2 DEF StopTerms, HasGroup
<1>3. CASE StopPolls(s)
    BY <1>3 DEF StopPolls
<1>4. CASE StopKills(s)
    BY <1>4 DEF StopKills, HasGroup
<1>5. CASE StopRecords(s)
    BY <1>5 DEF StopRecords
<1> QED
    BY <1>1, <1>2, <1>3, <1>4, <1>5

\* Every step keeps the invariant of a service.
LEMMA NextServiceInv == ASSUME ServiceInv, ServicesNext PROVE ServiceInv'
    BY SpawnServiceInv, StopServiceInv DEF ServicesNext

\* The promises the run checks of this part follow from the invariant of a service.
LEMMA ServiceInvSuffices == ServiceInv => ServicesTypeOK /\ StoppedServiceIsOver
    BY DEF ServiceInv, ServicesTypeOK, StoppedServiceIsOver, ServiceStatus, LeaderAnswers

-----------------------------------------------------------------------------
(***************************************************************************)
(* The parts together.                                                     *)
(***************************************************************************)
\* A behaviour of MCProcesses is about one part for ever.
ProcessesInv ==
    /\ part = "sessions" => SInv
    /\ part = "supervisor" => PInv
    /\ part = "catalog" => CInv
    /\ part = "stdio" => StdioInv
    /\ part = "exec" => WatchInv
    /\ part \in {"forward", "terminal"} => ForwardInv
    /\ part \in {"nested", "nested_stop"} => NestedInv
    /\ part = "service" => ServiceInv

\* A step that leaves the variables of a part alone leaves its invariant alone.
LEMMA IdleParts ==
    /\ SInv /\ UNCHANGED sessionsVars => SInv'
    /\ PInv /\ UNCHANGED supVars => PInv'
    /\ CInv /\ UNCHANGED catVars => CInv'
    /\ StdioInv /\ UNCHANGED stdioProcVars => StdioInv'
    /\ WatchInv /\ UNCHANGED execVars => WatchInv'
    /\ ForwardInv /\ UNCHANGED accessVars => ForwardInv'
    /\ NestedInv /\ UNCHANGED nestedVars => NestedInv'
    /\ ServiceInv /\ UNCHANGED serviceVars => ServiceInv'
<1>1. ASSUME SInv, UNCHANGED sessionsVars PROVE SInv'
  <2>1. Holders' = Holders /\ ClosingPtys' = ClosingPtys
    BY <1>1 DEF Holders, ClosingPtys, sessionsVars, hostSessionVars, pluginSessionVars
  <2>2. \A s \in Sessions : SessionInv(s)'
    BY <1>1, <2>1, UntouchedInv DEF SInv, Untouched, sessionsVars, hostSessionVars,
       pluginSessionVars
  <2> QED
    BY <1>1, <2>1, <2>2 DEF SInv, SessionsTypeOK, Spent, sessionsVars, hostSessionVars,
       pluginSessionVars
<1>2. ASSUME PInv, UNCHANGED supVars PROVE PInv'
    BY <1>2 DEF PInv, SupTypeOK, LockInv, NumberInv, ServedInv, Served, SentInv, supVars
<1>3. ASSUME CInv, UNCHANGED catVars PROVE CInv'
    BY <1>3 DEF CInv, CatalogOK, CatTypeOK, StartInv, UpInv, SweptInv, catVars
<1>4. ASSUME StdioInv, UNCHANGED stdioProcVars PROVE StdioInv'
    BY <1>4 DEF StdioInv, HostStdioTypeOK, stdioProcVars
<1>5. ASSUME WatchInv, UNCHANGED execVars PROVE WatchInv'
    BY <1>5 DEF WatchInv, ExecTypeOK, execVars, processes, files
<1>6. ASSUME ForwardInv, UNCHANGED accessVars PROVE ForwardInv'
    BY <1>6 DEF ForwardInv, AccessTypeOK, MapInv, HandsInv, BoundInv, NoStrayListener,
       GivenAddressServes, accessVars
<1>7. ASSUME NestedInv, UNCHANGED nestedVars PROVE NestedInv'
    BY <1>7 DEF NestedInv, NestedTypeOK, LeftInv, GaveUp, nestedVars
<1>8. ASSUME ServiceInv, UNCHANGED serviceVars PROVE ServiceInv'
    BY <1>8 DEF ServiceInv, ServicesTypeOK, serviceVars
<1> QED
    BY <1>1, <1>2, <1>3, <1>4, <1>5, <1>6, <1>7, <1>8

\* Every step keeps the invariant of all parts.
LEMMA NextProcessesInv == ASSUME ProcessesInv, [MCNext]_mcVars PROVE ProcessesInv'
<1>1. CASE UNCHANGED mcVars
  <2>1. /\ UNCHANGED <<part, sessionsVars, supVars, catVars>>
        /\ UNCHANGED <<stdioProcVars, execVars, accessVars, nestedVars, serviceVars>>
    BY <1>1 DEF mcVars, pluginParts, commandParts
  <2> QED
    BY <2>1, IdleParts DEF ProcessesInv
<1>2. CASE OfPlugin("sessions", SessionsNext, <<supVars, catVars>>)
    BY <1>2, NextSInv DEF ProcessesInv, OfPlugin
<1>3. CASE OfPlugin("supervisor", SupNext, <<sessionsVars, catVars>>)
    BY <1>3, NextPInv DEF ProcessesInv, OfPlugin
<1>4. CASE OfPlugin("catalog", CatNext, <<supVars, sessionsVars>>)
    BY <1>4, NextCInv DEF ProcessesInv, OfPlugin
<1>5. CASE OfStdio(HostStdioNext)
    BY <1>5, NextStdioInv DEF ProcessesInv, OfStdio
<1>6. CASE OfExec(ExecNext)
    BY <1>6, NextWatchInv DEF ProcessesInv, OfExec
<1>7. CASE OfAccess("forward", ForwardNext) \/ OfAccess("terminal", TerminalNext)
    BY <1>7, NextForwardInv, TerminalForwardInv DEF ProcessesInv, OfAccess
<1>8. CASE OfNested("nested", NestedNext) \/ OfNested("nested_stop", StopFileNext)
    BY <1>8, NextNestedInv, StopFileNestedInv DEF ProcessesInv, OfNested
<1>9. CASE OfService(ServicesNext)
    BY <1>9, NextServiceInv DEF ProcessesInv, OfService
<1>10. CASE OfFence(Next)
    BY <1>10 DEF ProcessesInv, OfFence
<1> QED
    BY <1>1, <1>2, <1>3, <1>4, <1>5, <1>6, <1>7, <1>8, <1>9, <1>10 DEF MCNext

\* Every reachable state satisfies the invariant of its part.
THEOREM ProcessesInvariance == MCSpec => []ProcessesInv
<1>1. MCInit => ProcessesInv
    BY InitSInv, InitPInv, InitCInv, InitStdioInv, InitWatchInv, InitForwardInv, InitNestedInv,
       InitServiceInv DEF MCInit, ProcessesInv
<1>2. ProcessesInv /\ [MCNext]_mcVars => ProcessesInv'
    BY NextProcessesInv
<1> QED
    BY <1>1, <1>2, PTL DEF MCSpec

\* Whatever the number of sessions and the I/O budget: the live sessions of a plugin fit into the
\* budget, a session that outlives the plugin's shutdown was registered behind close_sessions, or
\* failed to close, or was cut off at the deadline, and a session whose end was reported does not
\* live on but by such a failure.
THEOREM SessionsStayAccounted == MCSpec => []SessionsAreAccounted
<1>1. ProcessesInv => SessionsAreAccounted
    BY SInvSuffices DEF ProcessesInv, SessionsAreAccounted, SInv
<1> QED
    BY <1>1, ProcessesInvariance, PTL

\* Whatever the number of callers, launches, entries and tasks: at most one process of a plugin is
\* up, an operation runs at most once and on the account it was meant for, and every runtime of
\* the catalog that is up has an owner, and none is up after a clean shutdown.
THEOREM ProcessesStayOwned == MCSpec => []ProcessesAreOwned
<1>1. ProcessesInv => ProcessesAreOwned
    BY PInvSuffices, CInvSuffices DEF ProcessesInv, ProcessesAreOwned, PInv
<1> QED
    BY <1>1, ProcessesInvariance, PTL

\* Whatever the number of callers, ports, listeners and restarts: a running Docker command has a
\* watcher that will read the next stop, a stdio process is gone when its terminate returns an
\* outcome, an address that was handed out serves until it is released and no listener is lost in
\* a race, an owned one-shot leaves nothing behind but a container whose create it gave up on and
\* said so, which never runs, a kill is never taken back and a stopped service is over.
THEOREM WorkStaysReachable == MCSpec => []WorkIsReachable
<1>1. ProcessesInv => WorkIsReachable
    BY StdioInvSuffices, WatchInvSuffices, NestedInvSuffices, ServiceInvSuffices
    DEF ProcessesInv, WorkIsReachable, ForwardInv
<1> QED
    BY <1>1, ProcessesInvariance, PTL
=============================================================================
