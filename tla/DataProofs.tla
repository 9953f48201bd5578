------------------------------ MODULE DataProofs ------------------------------
(***************************************************************************)
(* Theorems about the components of MCData.                                *)
(***************************************************************************)
EXTENDS MCData, FiniteSetTheorems, TLAPS

Events == [sequence : Nat, op : SUBSET Runners, body : EventBodies \cup {"none"},
           subject : {"name", "id"}]
ToldEvents == {e \in Events : e.body \in EventBodies}

OrderTypes ==
    /\ next_sequence \in Nat /\ holder \subseteq Runners
    /\ running \in [Runners -> {"idle", "started", "working", "ended", "returned", "dropped"}]
    /\ subject \in [Runners -> {"name", "id"}]
    /\ reports \in [Runners -> 0..MaxReports] /\ noticed \in 0..MaxNotices
    /\ emitting \in [Runners -> Events] /\ told \in Seq(ToldEvents)

\* Who holds the context's lock has a numbered event, with the last number given.
LockIsHeld ==
    /\ \A t \in Runners : emitting[t].sequence > 0 =>
         t \in holder /\ emitting[t].sequence = next_sequence
    /\ \A t \in holder : emitting[t].sequence > 0
    /\ \A s, t \in holder : s = t

\* What was told is numbered in order, below the number of the event under way.
ToldInOrder ==
    /\ \A i \in 1..Len(told) : told[i].sequence <= next_sequence
    /\ \A i \in 1..Len(told) : holder # {} => told[i].sequence < next_sequence
    /\ \A i \in 1..Len(told) - 1 : told[i].sequence < told[i + 1].sequence

\* An event under way is one its operation emits where it stands.
EventFits(t) ==
      /\ emitting[t].body = "none" => emitting[t] = NoEvent
      /\ emitting[t].body \in {"none", "notice"} => emitting[t].op = {}
      /\ emitting[t].body \notin {"none", "notice"} => emitting[t].op = {t}
      /\ emitting[t].body = "started" => running[t] = "started"
      /\ emitting[t].body \in {"progress", "notice"} => running[t] = "working"
      /\ is_terminal(emitting[t].body) =>
           running[t] = "ended" /\ emitting[t].subject = subject[t]
EventFitsRun == \A t \in Runners : EventFits(t)

OfRun(t, i) == told[i].op = {t}
Ended(t, i) == told[i].op = {t} /\ is_terminal(told[i].body)

\* What was told of a runner's operation: its start, nothing, its end.
StartTold(t) == \E j \in 1..Len(told) : OfRun(t, j) /\ told[j].body = "started"
NothingTold(t) == \A j \in 1..Len(told) : ~OfRun(t, j)
EndTold(t) == \E j \in 1..Len(told) : Ended(t, j)
EndToldAs(t, s) == \E j \in 1..Len(told) : Ended(t, j) /\ told[j].subject = s

\* Of an operation the start is told first and nothing follows its end.
ToldInPlace ==
    \A t \in Runners :
      /\ \A i \in 1..Len(told) : OfRun(t, i) =>
           \E j \in 1..i : OfRun(t, j) /\ told[j].body = "started"
      /\ \A i, j \in 1..Len(told) : OfRun(t, i) /\ Ended(t, j) => i <= j

\* The start is told before the operation works, its end before run returns.
RunFits(t) ==
      /\ running[t] \in {"working", "ended", "returned"} => StartTold(t)
      /\ running[t] = "started" /\ emitting[t].body = "none" => StartTold(t)
      /\ running[t] = "idle" => NothingTold(t)
      /\ emitting[t].body = "started" => NothingTold(t)
      /\ EndTold(t) =>
           running[t] \in {"ended", "returned", "dropped"} /\ emitting[t].body = "none"
      /\ running[t] \in {"ended", "returned"} /\ emitting[t].body = "none" =>
           EndToldAs(t, subject[t])
RunFitsTold == \A t \in Runners : RunFits(t)

EventInv ==
    OrderTypes /\ LockIsHeld /\ ToldInOrder /\ EventFitsRun /\ ToldInPlace /\ RunFitsTold

-----------------------------------------------------------------------------
\* The events of one observer.
LEMMA OrderInitially ==
    OrderInit => EventInv
  <1> SUFFICES ASSUME OrderInit PROVE EventInv
    OBVIOUS
  <1>1. Len(told) = 0 /\ 1..Len(told) = {} /\ told \in Seq(ToldEvents)
    BY DEF OrderInit
  <1>2. NoEvent \in Events /\ NoEvent.body = "none" /\ NoEvent.sequence = 0 /\ NoEvent.op = {}
    BY DEF NoEvent, Events
  <1>3. OrderTypes
    BY <1>1, <1>2, OrderAssumption DEF OrderInit, OrderTypes
  <1>4. LockIsHeld /\ ToldInOrder
    BY <1>1, <1>2 DEF OrderInit, LockIsHeld, ToldInOrder
  <1>5. EventFitsRun /\ ToldInPlace /\ RunFitsTold
    BY <1>1, <1>2 DEF OrderInit, EventFitsRun, EventFits, ToldInPlace, RunFitsTold, RunFits, StartTold, NothingTold,
       EndTold, EndToldAs, is_terminal
  <1> QED
    BY <1>3, <1>4, <1>5 DEF EventInv

\* Where nothing was told, nothing changes in what was told.
LEMMA ToldStands ==
    ASSUME UNCHANGED told
    PROVE  /\ ToldInPlace => ToldInPlace'
           /\ \A t \in Runners : (StartTold(t)' <=> StartTold(t))
                /\ (NothingTold(t)' <=> NothingTold(t)) /\ (EndTold(t)' <=> EndTold(t))
           /\ \A t \in Runners, s \in {"name", "id"} : EndToldAs(t, s)' <=> EndToldAs(t, s)
  BY DEF ToldInPlace, StartTold, NothingTold, EndTold, EndToldAs, OfRun, Ended

\* A new event of the runner waits, not numbered yet.
LEMMA WantsEvent ==
    ASSUME EventInv, NEW t \in Runners, NEW body \in EventBodies, NEW o \in SUBSET Runners,
           Wants(t, body, o)
    PROVE  /\ emitting' \in [Runners -> Events]
           /\ emitting'[t].sequence = 0 /\ emitting'[t].op = o /\ emitting'[t].body = body
           /\ emitting'[t].subject = subject[t]
           /\ \A s \in Runners : s # t => emitting'[s] = emitting[s]
  <1> DEFINE e == [sequence |-> 0, op |-> o, body |-> body, subject |-> subject[t]]
  <1>1. emitting \in [Runners -> Events] /\ subject[t] \in {"name", "id"}
    BY DEF EventInv, OrderTypes
  <1>2. e \in Events /\ e.sequence = 0 /\ e.op = o /\ e.body = body /\ e.subject = subject[t]
    BY <1>1 DEF Events
  <1>3. emitting' = [emitting EXCEPT ![t] = e]
    BY DEF Wants
  <1> HIDE DEF e
  <1> QED
    BY <1>1, <1>2, <1>3

\* Announcing the start keeps the order of events.
LEMMA RunKeepsOrder ==
    ASSUME EventInv, NEW t \in Runners, run(t)
    PROVE  EventInv'
  <1>1. PICK e \in [Runners -> Events] :
          /\ emitting' = e /\ e[t].sequence = 0 /\ e[t].op = {t} /\ e[t].body = "started"
          /\ e[t].subject = subject[t] /\ \A s \in Runners : s # t => e[s] = emitting[s]
    BY WantsEvent DEF run, EventBodies
  <1>2. emitting[t].body = "none" /\ emitting[t].sequence = 0 /\ emitting[t].op = {}
    BY DEF run, Quiet, NoEvent
  <1>3. reports' \in [Runners -> 0..MaxReports] /\ noticed' \in 0..MaxNotices
    BY OrderAssumption DEF EventInv, OrderTypes, run
  <1>10. OrderTypes'
    BY <1>1, <1>2, <1>3 DEF EventInv, OrderTypes, run
  <1>11. LockIsHeld'
    BY <1>1, <1>2 DEF EventInv, LockIsHeld, OrderTypes, run
  <1>12. ToldInOrder'
    BY <1>1, <1>2 DEF EventInv, ToldInOrder, LockIsHeld, OrderTypes, run
  <1>13. EventFitsRun'
    <2>1. /\ \A s \in Runners : s # t => emitting'[s] = emitting[s]
          /\ \A s \in Runners : s # t => running'[s] = running[s] /\ subject'[s] = subject[s]
      BY <1>1, <1>2 DEF EventInv, OrderTypes, run
    <2>2. ASSUME NEW s \in Runners, s # t PROVE EventFits(s)'
      BY <2>1, <2>2 DEF EventInv, EventFitsRun, EventFits
    <2>3. EventFits(t)'
      BY <1>1, <1>2 DEF EventInv, EventFitsRun, EventFits, OrderTypes, is_terminal, run
    <2> QED
      BY <2>2, <2>3 DEF EventFitsRun
  <1>14. ToldInPlace'
    BY ToldStands DEF EventInv, run
  <1>15. RunFitsTold'
    <2>1. ASSUME NEW s \in Runners, s # t PROVE RunFits(s)'
      <3>1. /\ running'[s] = running[s] /\ emitting'[s] = emitting[s] /\ subject'[s] = subject[s]
            /\ subject[s] \in {"name", "id"}
        BY <1>1, <1>2, <2>1 DEF EventInv, OrderTypes, run
      <3>2. UNCHANGED told
        BY DEF run
      <3> QED
        BY <3>1, <3>2, ToldStands DEF EventInv, RunFitsTold, RunFits
    <2>2. RunFits(t)'
      <3>1. subject'[t] \in {"name", "id"} /\ UNCHANGED told
        BY <1>1, <1>2, <1>3 DEF EventInv, OrderTypes, run
      <3> QED
        BY <1>1, <1>2, <3>1, ToldStands DEF EventInv, RunFitsTold, RunFits, OrderTypes, EventFitsRun, EventFits,
           is_terminal, run
    <2> QED
      BY <2>1, <2>2 DEF RunFitsTold
  <1> QED
    BY <1>10, <1>11, <1>12, <1>13, <1>14, <1>15 DEF EventInv

\* Reporting progress keeps the order of events.
LEMMA ProgressKeepsOrder ==
    ASSUME EventInv, NEW t \in Runners, progress(t)
    PROVE  EventInv'
  <1>1. PICK e \in [Runners -> Events] :
          /\ emitting' = e /\ e[t].sequence = 0 /\ e[t].op = {t} /\ e[t].body = "progress"
          /\ e[t].subject = subject[t] /\ \A s \in Runners : s # t => e[s] = emitting[s]
    BY WantsEvent DEF progress, EventBodies
  <1>2. emitting[t].body = "none" /\ emitting[t].sequence = 0 /\ emitting[t].op = {}
    BY DEF progress, Quiet, NoEvent
  <1>3. reports' \in [Runners -> 0..MaxReports] /\ noticed' \in 0..MaxNotices
    BY OrderAssumption DEF EventInv, OrderTypes, progress
  <1>10. OrderTypes'
    BY <1>1, <1>2, <1>3 DEF EventInv, OrderTypes, progress
  <1>11. LockIsHeld'
    BY <1>1, <1>2 DEF EventInv, LockIsHeld, OrderTypes, progress
  <1>12. ToldInOrder'
    BY <1>1, <1>2 DEF EventInv, ToldInOrder, LockIsHeld, OrderTypes, progress
  <1>13. EventFitsRun'
    <2>1. /\ \A s \in Runners : s # t => emitting'[s] = emitting[s]
          /\ \A s \in Runners : s # t => running'[s] = running[s] /\ subject'[s] = subject[s]
      BY <1>1, <1>2 DEF EventInv, OrderTypes, progress
    <2>2. ASSUME NEW s \in Runners, s # t PROVE EventFits(s)'
      BY <2>1, <2>2 DEF EventInv, EventFitsRun, EventFits
    <2>3. EventFits(t)'
      BY <1>1, <1>2 DEF EventInv, EventFitsRun, EventFits, OrderTypes, is_terminal, progress
    <2> QED
      BY <2>2, <2>3 DEF EventFitsRun
  <1>14. ToldInPlace'
    BY ToldStands DEF EventInv, progress
  <1>15. RunFitsTold'
    <2>1. ASSUME NEW s \in Runners, s # t PROVE RunFits(s)'
      <3>1. /\ running'[s] = running[s] /\ emitting'[s] = emitting[s] /\ subject'[s] = subject[s]
            /\ subject[s] \in {"name", "id"}
        BY <1>1, <1>2, <2>1 DEF EventInv, OrderTypes, progress
      <3>2. UNCHANGED told
        BY DEF progress
      <3> QED
        BY <3>1, <3>2, ToldStands DEF EventInv, RunFitsTold, RunFits
    <2>2. RunFits(t)'
      <3>1. subject'[t] \in {"name", "id"} /\ UNCHANGED told
        BY <1>1, <1>2, <1>3 DEF EventInv, OrderTypes, progress
      <3> QED
        BY <1>1, <1>2, <3>1, ToldStands DEF EventInv, RunFitsTold, RunFits, OrderTypes, EventFitsRun, EventFits,
           is_terminal, progress
    <2> QED
      BY <2>1, <2>2 DEF RunFitsTold
  <1> QED
    BY <1>10, <1>11, <1>12, <1>13, <1>14, <1>15 DEF EventInv

\* A notice keeps the order of events.
LEMMA NoticeKeepsOrder ==
    ASSUME EventInv, NEW t \in Runners, notice(t)
    PROVE  EventInv'
  <1>1. PICK e \in [Runners -> Events] :
          /\ emitting' = e /\ e[t].sequence = 0 /\ e[t].op = {} /\ e[t].body = "notice"
          /\ e[t].subject = subject[t] /\ \A s \in Runners : s # t => e[s] = emitting[s]
    BY WantsEvent DEF notice, EventBodies
  <1>2. emitting[t].body = "none" /\ emitting[t].sequence = 0 /\ emitting[t].op = {}
    BY DEF notice, Quiet, NoEvent
  <1>3. reports' \in [Runners -> 0..MaxReports] /\ noticed' \in 0..MaxNotices
    BY OrderAssumption DEF EventInv, OrderTypes, notice
  <1>10. OrderTypes'
    BY <1>1, <1>2, <1>3 DEF EventInv, OrderTypes, notice
  <1>11. LockIsHeld'
    BY <1>1, <1>2 DEF EventInv, LockIsHeld, OrderTypes, notice
  <1>12. ToldInOrder'
    BY <1>1, <1>2 DEF EventInv, ToldInOrder, LockIsHeld, OrderTypes, notice
  <1>13. EventFitsRun'
    <2>1. /\ \A s \in Runners : s # t => emitting'[s] = emitting[s]
          /\ \A s \in Runners : s # t => running'[s] = running[s] /\ subject'[s] = subject[s]
      BY <1>1, <1>2 DEF EventInv, OrderTypes, notice
    <2>2. ASSUME NEW s \in Runners, s # t PROVE EventFits(s)'
      BY <2>1, <2>2 DEF EventInv, EventFitsRun, EventFits
    <2>3. EventFits(t)'
      BY <1>1, <1>2 DEF EventInv, EventFitsRun, EventFits, OrderTypes, is_terminal, notice
    <2> QED
      BY <2>2, <2>3 DEF EventFitsRun
  <1>14. ToldInPlace'
    BY ToldStands DEF EventInv, notice
  <1>15. RunFitsTold'
    <2>1. ASSUME NEW s \in Runners, s # t PROVE RunFits(s)'
      <3>1. /\ running'[s] = running[s] /\ emitting'[s] = emitting[s] /\ subject'[s] = subject[s]
            /\ subject[s] \in {"name", "id"}
        BY <1>1, <1>2, <2>1 DEF EventInv, OrderTypes, notice
      <3>2. UNCHANGED told
        BY DEF notice
      <3> QED
        BY <3>1, <3>2, ToldStands DEF EventInv, RunFitsTold, RunFits
    <2>2. RunFits(t)'
      <3>1. subject'[t] \in {"name", "id"} /\ UNCHANGED told
        BY <1>1, <1>2, <1>3 DEF EventInv, OrderTypes, notice
      <3> QED
        BY <1>1, <1>2, <3>1, ToldStands DEF EventInv, RunFitsTold, RunFits, OrderTypes, EventFitsRun, EventFits,
           is_terminal, notice
    <2> QED
      BY <2>1, <2>2 DEF RunFitsTold
  <1> QED
    BY <1>10, <1>11, <1>12, <1>13, <1>14, <1>15 DEF EventInv

\* The end of an operation is announced and the order is kept.
LEMMA OperationEndsKeepsOrder ==
    ASSUME EventInv, NEW t \in Runners, OperationEnds(t)
    PROVE  EventInv'
  <1>0. PICK body \in {"completed", "failed"} : Wants(t, body, {t})
    BY DEF OperationEnds
  <1>1. PICK e \in [Runners -> Events] :
          /\ emitting' = e /\ e[t].sequence = 0 /\ e[t].op = {t} /\ e[t].body = body
          /\ e[t].subject = subject[t] /\ \A s \in Runners : s # t => e[s] = emitting[s]
    BY <1>0, WantsEvent DEF EventBodies
  <1>2. emitting[t].body = "none" /\ emitting[t].sequence = 0 /\ emitting[t].op = {}
    BY DEF OperationEnds, Quiet, NoEvent
  <1>10. OrderTypes'
    BY <1>0, <1>1, <1>2 DEF EventInv, OrderTypes, OperationEnds
  <1>11. LockIsHeld'
    BY <1>0, <1>1, <1>2 DEF EventInv, LockIsHeld, OrderTypes, OperationEnds
  <1>12. ToldInOrder'
    BY <1>0, <1>1, <1>2 DEF EventInv, ToldInOrder, LockIsHeld, OrderTypes, OperationEnds
  <1>13. EventFitsRun'
    <2>1. /\ \A s \in Runners : s # t => emitting'[s] = emitting[s]
          /\ \A s \in Runners : s # t => running'[s] = running[s] /\ subject'[s] = subject[s]
      BY <1>0, <1>1, <1>2 DEF EventInv, OrderTypes, OperationEnds
    <2>2. ASSUME NEW s \in Runners, s # t PROVE EventFits(s)'
      BY <2>1, <2>2 DEF EventInv, EventFitsRun, EventFits
    <2>3. EventFits(t)'
      BY <1>0, <1>1, <1>2 DEF EventInv, EventFitsRun, EventFits, OrderTypes, is_terminal, OperationEnds
    <2> QED
      BY <2>2, <2>3 DEF EventFitsRun
  <1>14. ToldInPlace'
    BY ToldStands DEF EventInv, OperationEnds
  <1>15. RunFitsTold'
    <2>1. ASSUME NEW s \in Runners, s # t PROVE RunFits(s)'
      <3>1. /\ running'[s] = running[s] /\ emitting'[s] = emitting[s] /\ subject'[s] = subject[s]
            /\ subject[s] \in {"name", "id"}
        BY <1>0, <1>1, <1>2, <2>1 DEF EventInv, OrderTypes, OperationEnds
      <3>2. UNCHANGED told
        BY DEF OperationEnds
      <3> QED
        BY <3>1, <3>2, ToldStands DEF EventInv, RunFitsTold, RunFits
    <2>2. RunFits(t)'
      <3>1. subject'[t] \in {"name", "id"} /\ UNCHANGED told
        BY <1>0, <1>1, <1>2 DEF EventInv, OrderTypes, OperationEnds
      <3> QED
        BY <1>0, <1>1, <1>2, <3>1, ToldStands DEF EventInv, RunFitsTold, RunFits, OrderTypes, EventFitsRun, EventFits,
           is_terminal, OperationEnds
    <2> QED
      BY <2>1, <2>2 DEF RunFitsTold
  <1> QED
    BY <1>10, <1>11, <1>12, <1>13, <1>14, <1>15 DEF EventInv

\* The body of an operation begins.
LEMMA OperationBeginsKeepsOrder ==
    ASSUME EventInv, NEW t \in Runners, OperationBegins(t)
    PROVE  EventInv'
  <1>1. emitting[t].body = "none"
    BY DEF OperationBegins, Quiet, NoEvent
  <1>10. OrderTypes'
    BY <1>1 DEF EventInv, OrderTypes, OperationBegins
  <1>11. LockIsHeld'
    BY <1>1 DEF EventInv, LockIsHeld, OrderTypes, OperationBegins
  <1>12. ToldInOrder'
    BY <1>1 DEF EventInv, ToldInOrder, LockIsHeld, OrderTypes, OperationBegins
  <1>13. EventFitsRun'
    <2>1. /\ \A s \in Runners : s # t => emitting'[s] = emitting[s]
          /\ \A s \in Runners : s # t => running'[s] = running[s] /\ subject'[s] = subject[s]
      BY <1>1 DEF EventInv, OrderTypes, OperationBegins
    <2>2. ASSUME NEW s \in Runners, s # t PROVE EventFits(s)'
      BY <2>1, <2>2 DEF EventInv, EventFitsRun, EventFits
    <2>3. EventFits(t)'
      BY <1>1 DEF EventInv, EventFitsRun, EventFits, OrderTypes, is_terminal, OperationBegins
    <2> QED
      BY <2>2, <2>3 DEF EventFitsRun
  <1>14. ToldInPlace'
    BY ToldStands DEF EventInv, OperationBegins
  <1>15. RunFitsTold'
    <2>1. ASSUME NEW s \in Runners, s # t PROVE RunFits(s)'
      <3>1. /\ running'[s] = running[s] /\ emitting'[s] = emitting[s] /\ subject'[s] = subject[s]
            /\ subject[s] \in {"name", "id"}
        BY <1>1, <2>1 DEF EventInv, OrderTypes, OperationBegins
      <3>2. UNCHANGED told
        BY DEF OperationBegins
      <3> QED
        BY <3>1, <3>2, ToldStands DEF EventInv, RunFitsTold, RunFits
    <2>2. RunFits(t)'
      <3>1. subject'[t] \in {"name", "id"} /\ UNCHANGED told
        BY <1>1 DEF EventInv, OrderTypes, OperationBegins
      <3> QED
        BY <1>1, <3>1, ToldStands DEF EventInv, RunFitsTold, RunFits, OrderTypes, EventFitsRun, EventFits,
           is_terminal, OperationBegins
    <2> QED
      BY <2>1, <2>2 DEF RunFitsTold
  <1> QED
    BY <1>10, <1>11, <1>12, <1>13, <1>14, <1>15 DEF EventInv

\* The operation learns its subject.
LEMMA SetSubjectKeepsOrder ==
    ASSUME EventInv, NEW t \in Runners, set_subject(t)
    PROVE  EventInv'
  <1>1. emitting[t].body = "none"
    BY DEF set_subject, Quiet, NoEvent
  <1>10. OrderTypes'
    BY <1>1 DEF EventInv, OrderTypes, set_subject
  <1>11. LockIsHeld'
    BY <1>1 DEF EventInv, LockIsHeld, OrderTypes, set_subject
  <1>12. ToldInOrder'
    BY <1>1 DEF EventInv, ToldInOrder, LockIsHeld, OrderTypes, set_subject
  <1>13. EventFitsRun'
    <2>1. /\ \A s \in Runners : s # t => emitting'[s] = emitting[s]
          /\ \A s \in Runners : s # t => running'[s] = running[s] /\ subject'[s] = subject[s]
      BY <1>1 DEF EventInv, OrderTypes, set_subject
    <2>2. ASSUME NEW s \in Runners, s # t PROVE EventFits(s)'
      BY <2>1, <2>2 DEF EventInv, EventFitsRun, EventFits
    <2>3. EventFits(t)'
      BY <1>1 DEF EventInv, EventFitsRun, EventFits, OrderTypes, is_terminal, set_subject
    <2> QED
      BY <2>2, <2>3 DEF EventFitsRun
  <1>14. ToldInPlace'
    BY ToldStands DEF EventInv, set_subject
  <1>15. RunFitsTold'
    <2>1. ASSUME NEW s \in Runners, s # t PROVE RunFits(s)'
      <3>1. /\ running'[s] = running[s] /\ emitting'[s] = emitting[s] /\ subject'[s] = subject[s]
            /\ subject[s] \in {"name", "id"}
        BY <1>1, <2>1 DEF EventInv, OrderTypes, set_subject
      <3>2. UNCHANGED told
        BY DEF set_subject
      <3> QED
        BY <3>1, <3>2, ToldStands DEF EventInv, RunFitsTold, RunFits
    <2>2. RunFits(t)'
      <3>1. subject'[t] \in {"name", "id"} /\ UNCHANGED told
        BY <1>1 DEF EventInv, OrderTypes, set_subject
      <3> QED
        BY <1>1, <3>1, ToldStands DEF EventInv, RunFitsTold, RunFits, OrderTypes, EventFitsRun, EventFits,
           is_terminal, set_subject
    <2> QED
      BY <2>1, <2>2 DEF RunFitsTold
  <1> QED
    BY <1>10, <1>11, <1>12, <1>13, <1>14, <1>15 DEF EventInv

\* run returns.
LEMMA OperationReturnsKeepsOrder ==
    ASSUME EventInv, NEW t \in Runners, OperationReturns(t)
    PROVE  EventInv'
  <1>1. emitting[t].body = "none"
    BY DEF OperationReturns, Quiet, NoEvent
  <1>10. OrderTypes'
    BY <1>1 DEF EventInv, OrderTypes, OperationReturns
  <1>11. LockIsHeld'
    BY <1>1 DEF EventInv, LockIsHeld, OrderTypes, OperationReturns
  <1>12. ToldInOrder'
    BY <1>1 DEF EventInv, ToldInOrder, LockIsHeld, OrderTypes, OperationReturns
  <1>13. EventFitsRun'
    <2>1. /\ \A s \in Runners : s # t => emitting'[s] = emitting[s]
          /\ \A s \in Runners : s # t => running'[s] = running[s] /\ subject'[s] = subject[s]
      BY <1>1 DEF EventInv, OrderTypes, OperationReturns
    <2>2. ASSUME NEW s \in Runners, s # t PROVE EventFits(s)'
      BY <2>1, <2>2 DEF EventInv, EventFitsRun, EventFits
    <2>3. EventFits(t)'
      BY <1>1 DEF EventInv, EventFitsRun, EventFits, OrderTypes, is_terminal, OperationReturns
    <2> QED
      BY <2>2, <2>3 DEF EventFitsRun
  <1>14. ToldInPlace'
    BY ToldStands DEF EventInv, OperationReturns
  <1>15. RunFitsTold'
    <2>1. ASSUME NEW s \in Runners, s # t PROVE RunFits(s)'
      <3>1. /\ running'[s] = running[s] /\ emitting'[s] = emitting[s] /\ subject'[s] = subject[s]
            /\ subject[s] \in {"name", "id"}
        BY <1>1, <2>1 DEF EventInv, OrderTypes, OperationReturns
      <3>2. UNCHANGED told
        BY DEF OperationReturns
      <3> QED
        BY <3>1, <3>2, ToldStands DEF EventInv, RunFitsTold, RunFits
    <2>2. RunFits(t)'
      <3>1. subject'[t] \in {"name", "id"} /\ UNCHANGED told
        BY <1>1 DEF EventInv, OrderTypes, OperationReturns
      <3> QED
        BY <1>1, <3>1, ToldStands DEF EventInv, RunFitsTold, RunFits, OrderTypes, EventFitsRun, EventFits,
           is_terminal, OperationReturns
    <2> QED
      BY <2>1, <2>2 DEF RunFitsTold
  <1> QED
    BY <1>10, <1>11, <1>12, <1>13, <1>14, <1>15 DEF EventInv

\* An event is numbered under the lock.
LEMMA EmitKeepsOrder ==
    ASSUME EventInv, NEW t \in Runners, emit(t)
    PROVE  EventInv'
  <1>0. /\ emitting \in [Runners -> Events] /\ next_sequence + 1 \in Nat
        /\ emitting' = [emitting EXCEPT ![t].sequence = next_sequence + 1]
    BY DEF EventInv, OrderTypes, emit
  <1>1. PICK e \in [Runners -> Events] :
          /\ emitting' = e /\ e[t].sequence = next_sequence + 1 /\ e[t].op = emitting[t].op
          /\ e[t].body = emitting[t].body
          /\ e[t].subject = emitting[t].subject /\ \A s \in Runners : s # t => e[s] = emitting[s]
    BY <1>0 DEF Events
  <1>2. /\ emitting[t].body # "none" /\ holder = {} /\ holder' = {t}
        /\ next_sequence' = next_sequence + 1
        /\ UNCHANGED <<running, subject, reports, noticed, told>>
    BY DEF emit
  <1>10. OrderTypes'
    BY <1>0, <1>1, <1>2 DEF EventInv, OrderTypes
  <1>11. LockIsHeld'
    BY <1>0, <1>1, <1>2 DEF EventInv, OrderTypes, LockIsHeld
  <1>12. ToldInOrder'
    <2>1. \A i \in 1..Len(told) : told[i].sequence \in Nat
      BY DEF EventInv, OrderTypes, ToldEvents, Events
    <2> QED
      BY <1>0, <1>2, <2>1 DEF EventInv, OrderTypes, ToldInOrder
  <1>13. EventFitsRun'
    BY <1>1, <1>2 DEF EventInv, EventFitsRun, EventFits, is_terminal
  <1>14. ToldInPlace'
    BY <1>2, ToldStands DEF EventInv
  <1>15. RunFitsTold'
    BY <1>1, <1>2, ToldStands DEF EventInv, RunFitsTold, RunFits, OrderTypes
  <1> QED
    BY <1>10, <1>11, <1>12, <1>13, <1>14, <1>15 DEF EventInv

\* The runner has no event any more.
LEMMA Silenced ==
    ASSUME EventInv, NEW t \in Runners, emitting' = [emitting EXCEPT ![t] = NoEvent]
    PROVE  /\ emitting' \in [Runners -> Events]
           /\ emitting'[t] = NoEvent /\ emitting'[t].sequence = 0 /\ emitting'[t].op = {}
           /\ emitting'[t].body = "none"
           /\ \A s \in Runners : s # t => emitting'[s] = emitting[s]
  <1>1. emitting \in [Runners -> Events]
    BY DEF EventInv, OrderTypes
  <1>2. NoEvent \in Events /\ NoEvent.sequence = 0 /\ NoEvent.op = {} /\ NoEvent.body = "none"
    BY DEF Events, NoEvent
  <1> QED
    BY <1>1, <1>2

\* The observer takes the event of the one who holds the lock.
LEMMA ObservedKeepsOrder ==
    ASSUME EventInv, NEW t \in Runners, Observed(t)
    PROVE  EventInv'
  <1>1. PICK e \in [Runners -> Events] :
          /\ emitting' = e /\ e[t] = NoEvent /\ e[t].sequence = 0 /\ e[t].op = {} /\ e[t].body = "none"
          /\ \A s \in Runners : s # t => e[s] = emitting[s]
    BY Silenced DEF Observed
  <1>2. emitting[t] \in Events /\ emitting[t].sequence > 0 /\ emitting[t].body # "none"
    BY DEF EventInv, OrderTypes, EventFitsRun, EventFits, NoEvent, Observed
  <1>3. emitting[t] \in ToldEvents
    BY <1>2 DEF Events, ToldEvents
  <1>4. /\ told' \in Seq(ToldEvents) /\ Len(told) \in Nat /\ Len(told') = Len(told) + 1
        /\ \A i \in 1..Len(told) : told'[i] = told[i]
        /\ told'[Len(told) + 1] = emitting[t]
        /\ \A i \in 1..Len(told') : i \in 1..Len(told) \/ i = Len(told) + 1
    BY <1>3 DEF EventInv, OrderTypes, Observed
  <1>5. t \in holder /\ emitting[t].sequence = next_sequence /\ holder' = {} /\ holder # {}
    BY <1>2 DEF EventInv, LockIsHeld, Observed
  <1>6. UNCHANGED <<next_sequence, running, subject, reports, noticed>>
    BY DEF Observed
  <1>7. \A i \in 1..Len(told) : told[i].sequence \in Nat
    BY DEF EventInv, OrderTypes, ToldEvents, Events
  <1>10. OrderTypes'
    BY <1>1, <1>4, <1>5, <1>6 DEF EventInv, OrderTypes
  <1>11. LockIsHeld'
    <2>1. \A s \in Runners : s # t => s \notin holder
      BY <1>5 DEF EventInv, LockIsHeld
    <2>2. \A s \in Runners : ~(emitting'[s].sequence > 0)
      BY <1>1, <2>1 DEF EventInv, LockIsHeld
    <2> QED
      BY <2>2, <1>5 DEF LockIsHeld
  <1>12. ToldInOrder'
    <2>1. next_sequence \in Nat /\ \A i \in 1..Len(told) : told[i].sequence < next_sequence
      BY <1>5 DEF EventInv, OrderTypes, ToldInOrder
    <2>2. \A i \in 1..Len(told') : told'[i].sequence <= next_sequence
      BY <1>4, <1>5, <1>7, <2>1
    <2>3. ASSUME NEW i \in 1..Len(told') - 1 PROVE told'[i].sequence < told'[i + 1].sequence
      <3>1. CASE i = Len(told)
        BY <3>1, <2>1, <1>4, <1>5
      <3>2. CASE i # Len(told)
        <4>1. i \in 1..Len(told) - 1 /\ i + 1 \in 1..Len(told) /\ i \in 1..Len(told)
          BY <3>2, <1>4
        <4> QED
          BY <4>1, <1>4 DEF EventInv, ToldInOrder
      <3> QED
        BY <3>1, <3>2
    <2> QED
      BY <2>2, <2>3, <1>5, <1>6 DEF ToldInOrder
  <1>13. EventFitsRun'
    BY <1>1, <1>6 DEF EventInv, EventFitsRun, EventFits, is_terminal
  <1>14. ToldInPlace'
    <2> SUFFICES ASSUME NEW s \in Runners
                 PROVE  /\ \A i \in 1..Len(told') : OfRun(s, i)' =>
                             \E j \in 1..i : OfRun(s, j)' /\ told'[j].body = "started"
                        /\ \A i, j \in 1..Len(told') : OfRun(s, i)' /\ Ended(s, j)' => i <= j
      BY DEF ToldInPlace
    <2>1. \A i \in 1..Len(told) : /\ (OfRun(s, i)' <=> OfRun(s, i)) /\ (Ended(s, i)' <=> Ended(s, i))
                                  /\ told'[i].body = told[i].body
      BY <1>4 DEF OfRun, Ended
    <2>2. told'[Len(told) + 1].op = {s} <=> (s = t /\ emitting[t].body # "notice")
      BY <1>2, <1>4 DEF OfRun, EventInv, EventFitsRun, EventFits
    <2>3. ASSUME NEW i \in 1..Len(told'), OfRun(s, i)'
          PROVE  \E j \in 1..i : OfRun(s, j)' /\ told'[j].body = "started"
      <3>1. CASE i \in 1..Len(told)
        <4>1. PICK j \in 1..i : OfRun(s, j) /\ told[j].body = "started"
          BY <3>1, <2>1, <2>3 DEF EventInv, ToldInPlace
        <4> QED
          BY <3>1, <4>1, <2>1, <1>4
      <3>2. CASE i = Len(told) + 1
        <4>1. s = t /\ emitting[t].body # "notice"
          BY <3>2, <2>2, <2>3 DEF OfRun
        <4>2. CASE emitting[t].body = "started"
          BY <4>2, <3>2, <2>3, <1>4
        <4>3. CASE emitting[t].body # "started"
          <5>1. running[t] \in {"working", "ended"}
            BY <4>1, <4>3, <1>2 DEF EventInv, EventFitsRun, EventFits, Events, EventBodies, is_terminal
          <5>2. PICK j \in 1..Len(told) : OfRun(t, j) /\ told[j].body = "started"
            BY <5>1 DEF EventInv, RunFits, RunFitsTold, StartTold
          <5> QED
            BY <5>2, <4>1, <3>2, <2>1, <1>4
        <4> QED
          BY <4>2, <4>3
      <3> QED
        BY <3>1, <3>2, <1>4
    <2>4. ASSUME NEW i \in 1..Len(told'), NEW j \in 1..Len(told'), OfRun(s, i)', Ended(s, j)'
          PROVE  i <= j
      <3>1. CASE j = Len(told) + 1
        BY <3>1, <1>4
      <3>2. CASE j \in 1..Len(told) /\ i \in 1..Len(told)
        BY <3>2, <2>1, <2>4 DEF EventInv, ToldInPlace
      <3>3. CASE j \in 1..Len(told) /\ i = Len(told) + 1
        <4>1. s = t /\ EndTold(t)
          BY <3>3, <2>1, <2>2, <2>4 DEF EndTold, OfRun
        <4> QED
          BY <4>1, <1>2 DEF EventInv, RunFitsTold, RunFits
      <3> QED
        BY <3>1, <3>2, <3>3, <1>4
    <2> QED
      BY <2>3, <2>4
  <1>15. RunFitsTold'
    <2>0. Len(told) + 1 \in 1..Len(told')
      BY <1>4
    <2>1. ASSUME NEW s \in Runners, s # t
          PROVE  /\ (StartTold(s)' <=> StartTold(s)) /\ (NothingTold(s)' <=> NothingTold(s))
                 /\ (EndTold(s)' <=> EndTold(s))
                 /\ \A w : EndToldAs(s, w)' <=> EndToldAs(s, w)
      <3>1. \A i \in 1..Len(told') : told'[i].op = {s} => i \in 1..Len(told)
        <4>1. emitting[t].op # {s}
          BY <2>1 DEF EventInv, EventFitsRun, EventFits
        <4> QED
          BY <4>1, <1>4
      <3>2. \A i \in 1..Len(told) : i \in 1..Len(told') /\ told'[i] = told[i]
        BY <1>4
      <3> QED
        BY <3>1, <3>2 DEF StartTold, NothingTold, EndTold, EndToldAs, OfRun, Ended
    <2>2. StartTold(t) => StartTold(t)'
      BY <1>4 DEF StartTold, OfRun
    <2>3. emitting[t].body = "started" => StartTold(t)'
      BY <1>4, <2>0 DEF StartTold, OfRun, EventInv, EventFitsRun, EventFits
    <2>4. is_terminal(emitting[t].body) => EndToldAs(t, subject[t])' 
      BY <1>4, <1>6, <2>0 DEF EndToldAs, Ended, EventInv, EventFitsRun, EventFits, is_terminal
    <2>5. EndTold(t)' => is_terminal(emitting[t].body)
      <3> SUFFICES ASSUME NEW j \in 1..Len(told'), Ended(t, j)' PROVE is_terminal(emitting[t].body)
        BY DEF EndTold
      <3>1. CASE j \in 1..Len(told)
        <4>1. EndTold(t)
          BY <3>1, <1>4 DEF EndTold, Ended
        <4> QED
          BY <4>1, <1>2 DEF EventInv, RunFitsTold, RunFits
      <3>2. CASE j = Len(told) + 1
        BY <3>2, <1>4 DEF Ended
      <3> QED
        BY <3>1, <3>2, <1>4
    <2>6. /\ is_terminal(emitting[t].body) => running[t] = "ended"
          /\ emitting[t].body = "started" => running[t] = "started"
          /\ emitting[t].body \in {"progress", "notice"} => running[t] = "working"
          /\ emitting[t].body \in {"progress", "notice", "started"} \/ is_terminal(emitting[t].body)
      BY <1>2 DEF EventInv, EventFitsRun, EventFits, Events, EventBodies, is_terminal
    <2>7. \A s \in Runners : s # t => emitting'[s].body = emitting[s].body
      BY <1>1
    <2>8. emitting'[t].body = "none" /\ running' = running /\ subject' = subject
      BY <1>1, <1>6
    <2>9. ASSUME NEW s \in Runners, s # t PROVE RunFits(s)'
      BY <2>1, <2>7, <2>8, <2>9 DEF EventInv, RunFitsTold, RunFits
    <2>10. RunFits(t)'
      BY <2>2, <2>3, <2>4, <2>5, <2>6, <2>8 DEF EventInv, RunFitsTold, RunFits
    <2> QED
      BY <2>9, <2>10 DEF RunFitsTold
  <1> QED
    BY <1>10, <1>11, <1>12, <1>13, <1>14, <1>15 DEF EventInv

\* A run that is dropped takes its event and the lock along.
LEMMA RunDroppedKeepsOrder ==
    ASSUME EventInv, NEW t \in Runners, RunDropped(t)
    PROVE  EventInv'
  <1>1. PICK e \in [Runners -> Events] :
          /\ emitting' = e /\ e[t] = NoEvent /\ e[t].sequence = 0 /\ e[t].op = {} /\ e[t].body = "none"
          /\ \A s \in Runners : s # t => e[s] = emitting[s]
    BY Silenced DEF RunDropped
  <1>10. OrderTypes'
    BY <1>1 DEF EventInv, OrderTypes, RunDropped
  <1>11. LockIsHeld'
    BY <1>1 DEF EventInv, LockIsHeld, OrderTypes, RunDropped
  <1>12. ToldInOrder'
    BY <1>1 DEF EventInv, ToldInOrder, LockIsHeld, OrderTypes, RunDropped
  <1>13. EventFitsRun'
    <2>1. /\ \A s \in Runners : s # t => emitting'[s] = emitting[s]
          /\ \A s \in Runners : s # t => running'[s] = running[s] /\ subject'[s] = subject[s]
      BY <1>1 DEF EventInv, OrderTypes, RunDropped
    <2>2. ASSUME NEW s \in Runners, s # t PROVE EventFits(s)'
      BY <2>1, <2>2 DEF EventInv, EventFitsRun, EventFits
    <2>3. EventFits(t)'
      BY <1>1 DEF EventInv, EventFitsRun, EventFits, OrderTypes, is_terminal, RunDropped
    <2> QED
      BY <2>2, <2>3 DEF EventFitsRun
  <1>14. ToldInPlace'
    BY ToldStands DEF EventInv, RunDropped
  <1>15. RunFitsTold'
    <2>1. ASSUME NEW s \in Runners, s # t PROVE RunFits(s)'
      <3>1. /\ running'[s] = running[s] /\ emitting'[s] = emitting[s] /\ subject'[s] = subject[s]
            /\ subject[s] \in {"name", "id"}
        BY <1>1, <2>1 DEF EventInv, OrderTypes, RunDropped
      <3>2. UNCHANGED told
        BY DEF RunDropped
      <3> QED
        BY <3>1, <3>2, ToldStands DEF EventInv, RunFitsTold, RunFits
    <2>2. RunFits(t)'
      <3>1. subject'[t] \in {"name", "id"} /\ UNCHANGED told
        BY <1>1 DEF EventInv, OrderTypes, RunDropped
      <3> QED
        BY <1>1, <3>1, ToldStands DEF EventInv, RunFitsTold, RunFits, OrderTypes, EventFitsRun, EventFits,
           is_terminal, RunDropped
    <2> QED
      BY <2>1, <2>2 DEF RunFitsTold
  <1> QED
    BY <1>10, <1>11, <1>12, <1>13, <1>14, <1>15 DEF EventInv

\* Every step of the operations keeps the order of events.
LEMMA OrderStep ==
    EventInv /\ OrderNext => EventInv'
  <1> SUFFICES ASSUME EventInv, NEW t \in Runners,
                      \/ run(t) \/ OperationBegins(t) \/ set_subject(t) \/ progress(t) \/ notice(t)
                      \/ OperationEnds(t) \/ OperationReturns(t) \/ emit(t) \/ Observed(t)
                      \/ RunDropped(t)
               PROVE  EventInv'
    BY DEF OrderNext
  <1> QED
    BY RunKeepsOrder, OperationBeginsKeepsOrder, SetSubjectKeepsOrder, ProgressKeepsOrder,
       NoticeKeepsOrder, OperationEndsKeepsOrder, OperationReturnsKeepsOrder, EmitKeepsOrder,
       ObservedKeepsOrder, RunDroppedKeepsOrder

\* What the invariant says of the events that were told.
LEMMA OrderHolds ==
    EventInv => OrderTypeOK /\ EventsInOrder
  <1> SUFFICES ASSUME EventInv PROVE OrderTypeOK /\ EventsInOrder
    OBVIOUS
  <1>1. told \in Seq(ToldEvents) /\ Len(told) \in Nat /\ DOMAIN told = 1..Len(told)
    BY DEF EventInv, OrderTypes
  <1>2. \A i \in 1..Len(told) : told[i].body \in EventBodies
    BY <1>1 DEF ToldEvents
  <1>3. OrderTypeOK
    BY <1>1, <1>2 DEF EventInv, OrderTypes, OrderTypeOK, Events
  <1>4. \A t \in Runners, i \in DOMAIN told : i \in Positions(t, Terminal) <=> Ended(t, i)
    BY <1>1, <1>2 DEF Positions, Terminal, Ended
  <1>5. \A t \in Runners, i \in DOMAIN told :
          /\ i \in Positions(t, EventBodies) <=> OfRun(t, i)
          /\ i \in Positions(t, {"started"}) <=> OfRun(t, i) /\ told[i].body = "started"
    BY <1>1, <1>2 DEF Positions, OfRun
  <1>6. \A t \in Runners : \A b : Positions(t, b) \subseteq DOMAIN told
    BY DEF Positions
  <1>7. \A i \in 1..Len(told) - 1 : told[i].sequence < told[i + 1].sequence
    BY DEF EventInv, ToldInOrder
  <1>8. ASSUME NEW t \in Runners, NEW i \in Positions(t, EventBodies)
        PROVE  /\ \E j \in Positions(t, {"started"}) : j <= i
               /\ \A j \in Positions(t, Terminal) : i <= j
    <2>1. i \in 1..Len(told) /\ OfRun(t, i)
      BY <1>1, <1>5, <1>6
    <2>2. PICK j \in 1..i : OfRun(t, j) /\ told[j].body = "started"
      BY <2>1 DEF EventInv, ToldInPlace
    <2>3. j \in 1..Len(told) /\ j <= i
      BY <2>1, <1>1
    <2>4. j \in Positions(t, {"started"})
      BY <2>2, <2>3, <1>1, <1>5
    <2>5. ASSUME NEW k \in Positions(t, Terminal) PROVE i <= k
      <3>1. k \in 1..Len(told) /\ Ended(t, k)
        BY <1>1, <1>4, <1>6
      <3> QED
        BY <3>1, <2>1 DEF EventInv, ToldInPlace
    <2> QED
      BY <2>3, <2>4, <2>5
  <1>9. ASSUME NEW t \in Runners, running[t] = "returned"
        PROVE  \E i \in Positions(t, Terminal) : /\ Positions(t, Terminal) = {i}
                                                 /\ told[i].subject = subject[t]
    <2>1. emitting[t].body = "none"
      BY <1>9 DEF EventInv, EventFitsRun, EventFits, OrderTypes, Events, EventBodies, is_terminal
    <2>2. PICK i \in 1..Len(told) : Ended(t, i) /\ told[i].subject = subject[t]
      BY <2>1, <1>9 DEF EventInv, RunFits, RunFitsTold, EndToldAs
    <2>3. i \in Positions(t, Terminal)
      BY <2>2, <1>1, <1>4
    <2>4. ASSUME NEW k \in Positions(t, Terminal) PROVE k = i
      <3>1. k \in 1..Len(told) /\ Ended(t, k)
        BY <1>1, <1>4, <1>6
      <3>2. OfRun(t, k) /\ OfRun(t, i)
        BY <3>1, <2>2 DEF OfRun, Ended
      <3>3. k <= i /\ i <= k
        BY <3>1, <3>2, <2>2 DEF EventInv, ToldInPlace
      <3> QED
        BY <3>1, <3>3
    <2>5. Positions(t, Terminal) = {i}
      BY <2>3, <2>4
    <2> QED
      BY <2>2, <2>3, <2>5
  <1> QED
    BY <1>3, <1>7, <1>8, <1>9 DEF EventsInOrder

-----------------------------------------------------------------------------
\* An observer gets the events of an operation in the order of their numbers: what
\* EventContext::emit and EventEmitter::run promise, whoever emits and whatever is dropped.
THEOREM EventsStayOrdered ==
    MCSpec => []EventsAreOrdered
  <1> DEFINE I == part = "order" => EventInv
  <1>1. MCInit => I
    BY OrderInitially DEF MCInit
  <1>2. I /\ [MCNext]_mcVars => I'
    <2> SUFFICES ASSUME I, [MCNext]_mcVars, part' = "order" PROVE EventInv'
      OBVIOUS
    <2>1. CASE UNCHANGED <<part, orderVars>>
      <3>1. EventInv /\ UNCHANGED orderVars
        BY <2>1
      <3>2. OrderTypes' /\ LockIsHeld' /\ ToldInOrder'
        BY <3>1 DEF orderVars, EventInv, OrderTypes, LockIsHeld, ToldInOrder
      <3>3. EventFitsRun'
        BY <3>1 DEF orderVars, EventInv, EventFitsRun, EventFits
      <3>4. ToldInPlace'
        BY <3>1, ToldStands DEF orderVars, EventInv
      <3>5. RunFitsTold'
        BY <3>1, ToldStands DEF orderVars, EventInv, OrderTypes, RunFitsTold, RunFits
      <3> QED
        BY <3>2, <3>3, <3>4, <3>5 DEF EventInv
    <2>2. CASE OfData("order", OrderNext, <<outputVars, daytonaExecVars, archiveVars, facetVars>>)
      BY <2>2, OrderStep DEF OfData
    <2> QED
      BY <2>1, <2>2 DEF MCNext, mcVars, dataParts, OfFence, OfData, OfGit
  <1>3. I => EventsAreOrdered
    BY OrderHolds DEF EventsAreOrdered
  <1> QED
    BY <1>1, <1>2, <1>3, PTL DEF MCSpec

-----------------------------------------------------------------------------
\* DerivedGit: which steps an ambient call is at.
AmbientSteps == {"url", "path", "open", "write", "mv", "forget", "add", "rm"}

\* A call is at a step of its verb; the number of an ambient call is its own.
GitCallFits(c) ==
    /\ gitCall[c].at = "idle" => gitCall[c].op = "none"
    /\ gitCall[c].op \in Ambient => gitCall[c].at \in AmbientSteps /\ gitCall[c].n \in 1..calls
    /\ gitCall[c].at \in AmbientSteps => gitCall[c].op \in Ambient
    /\ gitCall[c].at \in {"url", "open", "write", "mv", "add"} => gitCall[c].op = "set"
    /\ gitCall[c].at = "rm" => gitCall[c].op = "clear"
    /\ gitCall[c].at = "write" => gitCall[c].fd # 0
GitCallsFit == \A c \in Callers : GitCallFits(c)

NumbersDiffer ==
    \A c, d \in AmbientCallers : c # d => gitCall[c].n # gitCall[d].n

\* Every helper entry was added by a call that is over.
HelpersAreCounted ==
    IsFiniteSet(AmbientCallers) /\ helpers.own + Cardinality(AmbientCallers) <= calls

\* The inodes that have a name are older than the one a call will make.
InodesAreOlder ==
    /\ store <= calls /\ temp <= calls /\ (store # 0 => store # temp)
    /\ \A c \in AmbientCallers : gitCall[c].at \in {"url", "path", "open"} =>
         gitCall[c].n # store /\ gitCall[c].n # temp

\* An ambient call that runs alone has the store to itself.
AloneFits(c) ==
    /\ \A d \in AmbientCallers : d = c
    /\ gitCall[c].at = "write" => gitCall[c].fd = temp
    /\ gitCall[c].at = "mv" => temp # 0 /\ content[temp] = gitCall[c].n
    /\ gitCall[c].op = "set" /\ gitCall[c].at \in {"forget", "add"} =>
         store # 0 /\ content[store] = gitCall[c].n
    /\ gitCall[c].op = "clear" /\ gitCall[c].at = "forget" => store = 0 /\ temp = 0
    /\ gitCall[c].at = "add" => helpers.own = 0
AloneIsAlone == \A c \in AmbientCallers : alone[c] => AloneFits(c)

\* Without an overlap every ambient call is alone and the store is whole.
NotLapped ==
    lapped \/ ((\A c \in AmbientCallers : alone[c]) /\ (store # 0 => content[store] # 0))

LastIsSettled ==
    last.op # "none" => AmbientCallers = {} /\ AmbientSettled

GitInv ==
    /\ GitTypeOK /\ GitCallsFit /\ NumbersDiffer /\ HelpersAreCounted /\ InodesAreOlder
    /\ AloneIsAlone /\ NotLapped /\ LastIsSettled

-----------------------------------------------------------------------------
\* Ambient credentials.  The calls in the types of DerivedGit.
GitCalls == [op : Ambient \cup {"none", "clone", "sync"}, at : GitSteps,
             n : 0..MaxCalls, fd : 0..MaxCalls, pin : BOOLEAN, branch : BOOLEAN]

\* Caller c's call becomes k and the others stay.
CallBecomes(c, k) ==
    /\ gitCall' \in [Callers -> GitCalls] /\ gitCall'[c] = k
    /\ \A d \in Callers : d # c => gitCall'[d] = gitCall[d]

\* A call that is replaced.
LEMMA CallReplaced ==
    ASSUME GitTypeOK, NEW c \in Callers, NEW k \in GitCalls, gitCall' = [gitCall EXCEPT ![c] = k]
    PROVE  CallBecomes(c, k)
  BY DEF CallBecomes, GitTypeOK, GitCalls

\* A call that goes on.
LEMMA CallGoes ==
    ASSUME GitTypeOK, NEW c \in Callers, NEW s \in GitSteps, GitGoes(c, s)
    PROVE  \E k \in GitCalls : CallBecomes(c, k) /\ k.at = s /\ k.fd = gitCall[c].fd
                                 /\ k.op = gitCall[c].op /\ k.n = gitCall[c].n
  <1> DEFINE k == [gitCall[c] EXCEPT !.at = s]
  <1>0. gitCall \in [Callers -> GitCalls] /\ gitCall[c] \in GitCalls
    BY DEF GitTypeOK, GitCalls
  <1>1. k \in GitCalls /\ k.at = s /\ k.fd = gitCall[c].fd /\ k.op = gitCall[c].op
        /\ k.n = gitCall[c].n
    BY <1>0 DEF GitCalls
  <1>2. gitCall' = [gitCall EXCEPT ![c] = k]
    BY <1>0 DEF GitGoes
  <1> HIDE DEF k
  <1>3. CallBecomes(c, k)
    BY <1>1, <1>2, CallReplaced
  <1> QED
    BY <1>1, <1>3

OpenedAt(c, s, f) == [gitCall EXCEPT ![c].at = s, ![c].fd = f]

\* A call that goes on with a file it opened.
LEMMA CallOpens ==
    ASSUME GitTypeOK, NEW c \in Callers, NEW s \in GitSteps, NEW f \in 0..MaxCalls,
           gitCall' = OpenedAt(c, s, f)
    PROVE  \E k \in GitCalls : CallBecomes(c, k) /\ k.at = s /\ k.fd = f
                                 /\ k.op = gitCall[c].op /\ k.n = gitCall[c].n
  <1> DEFINE k == [gitCall[c] EXCEPT !.at = s, !.fd = f]
  <1>0. gitCall \in [Callers -> GitCalls] /\ gitCall[c] \in GitCalls
    BY DEF GitTypeOK, GitCalls
  <1>1. k \in GitCalls /\ k.at = s /\ k.fd = f /\ k.op = gitCall[c].op
        /\ k.n = gitCall[c].n
    BY <1>0 DEF GitCalls
  <1>2. gitCall' = [gitCall EXCEPT ![c] = k]
    BY <1>0 DEF OpenedAt
  <1> HIDE DEF k
  <1>3. CallBecomes(c, k)
    BY <1>1, <1>2, CallReplaced
  <1> QED
    BY <1>1, <1>3

\* A call that returns.
LEMMA CallReturns ==
    ASSUME GitTypeOK, NEW c \in Callers, GitReturns(c)
    PROVE  \E k \in GitCalls : CallBecomes(c, k) /\ k.at = "idle" /\ k.op = "none"
  <1>1. NoGitCall \in GitCalls /\ NoGitCall.at = "idle" /\ NoGitCall.op = "none"
    BY GitAssumption DEF NoGitCall, GitCalls, GitSteps, Ambient
  <1> QED
    BY <1>1, CallReplaced DEF GitReturns

\* The callers of ambient calls.
LEMMA AmbientMembers ==
    /\ \A d : d \in AmbientCallers <=> d \in Callers /\ gitCall[d].op \in Ambient
    /\ AmbientCallers \subseteq Callers
  BY DEF AmbientCallers

\* A call that stays what it is keeps the ambient callers,
LEMMA AmbientStay ==
    ASSUME NEW c \in Callers, NEW k, CallBecomes(c, k), k.op = gitCall[c].op
    PROVE  AmbientCallers' = AmbientCallers
  BY DEF AmbientCallers, CallBecomes

\* one that ends leaves them.
LEMMA AmbientLeave ==
    ASSUME NEW c \in Callers, NEW k, CallBecomes(c, k), k.op \notin Ambient
    PROVE  AmbientCallers' = AmbientCallers \ {c}
  BY DEF AmbientCallers, CallBecomes

\* Fewer callers, not more entries.
LEMMA CountsLeave ==
    ASSUME GitTypeOK, HelpersAreCounted, NEW c \in Callers, AmbientCallers' = AmbientCallers \ {c},
           helpers'.own \in Nat, calls' \in Nat, calls' >= calls,
           helpers'.own <= helpers.own
           \/ (c \in AmbientCallers /\ helpers'.own = helpers.own + 1)
    PROVE  HelpersAreCounted'
  <1>1. /\ IsFiniteSet(AmbientCallers \ {c})
        /\ Cardinality(AmbientCallers \ {c}) =
             IF c \in AmbientCallers THEN Cardinality(AmbientCallers) - 1
             ELSE Cardinality(AmbientCallers)
    BY FS_RemoveElement DEF HelpersAreCounted
  <1>2. Cardinality(AmbientCallers) \in Nat
    BY FS_CardinalityType DEF HelpersAreCounted
  <1>3. helpers.own \in Nat /\ calls \in Nat
    BY GitAssumption DEF GitTypeOK
  <1> QED
    BY <1>1, <1>2, <1>3 DEF HelpersAreCounted

\* The store, the ambient bookkeeping and the ambient calls of others stand.
LEMMA LeavesAmbient ==
    ASSUME GitInv, NEW c \in Callers, NEW k \in GitCalls, CallBecomes(c, k), k.op \notin Ambient,
           k.at \notin AmbientSteps, k.at = "idle" => k.op = "none",
           UNCHANGED <<storeVars, alone, lapped, last>>, GitTypeOK', calls' >= calls
    PROVE  GitInv'
  <1>1. AmbientCallers' = AmbientCallers \ {c}
    BY AmbientLeave
  <1>2. \A d \in AmbientCallers' : d \in AmbientCallers /\ d # c /\ d \in Callers /\ gitCall'[d] = gitCall[d]
    BY <1>1, AmbientMembers DEF CallBecomes
  <1>3. calls \in Nat /\ calls' \in Nat /\ gitCall \in [Callers -> GitCalls]
    BY GitAssumption DEF GitInv, GitTypeOK, GitCalls
  <1>4. GitCallsFit'
    <2>1. ASSUME NEW d \in Callers, d # c PROVE GitCallFits(d)'
      <3>1. gitCall'[d] = gitCall[d] /\ GitCallFits(d) /\ gitCall[d] \in GitCalls
        BY <2>1, <1>3 DEF CallBecomes, GitInv, GitCallsFit
      <3> QED
        BY <3>1, <1>3 DEF GitCallFits, GitCalls
    <2>2. GitCallFits(c)'
      BY DEF GitCallFits, CallBecomes, AmbientSteps
    <2> QED
      BY <2>1, <2>2 DEF GitCallsFit
  <1>5. NumbersDiffer'
    BY <1>2 DEF GitInv, NumbersDiffer
  <1>6. HelpersAreCounted'
    <2>1. helpers' = helpers /\ helpers.own \in Nat
      BY GitAssumption DEF storeVars, GitInv, GitTypeOK
    <2> QED
      BY <1>1, <1>3, <2>1, CountsLeave DEF GitInv
  <1>7. InodesAreOlder'
    BY <1>2, <1>3 DEF GitInv, InodesAreOlder, storeVars, GitTypeOK
  <1>8. AloneIsAlone'
    BY <1>2 DEF GitInv, AloneIsAlone, AloneFits, storeVars
  <1>9. NotLapped'
    BY <1>2 DEF GitInv, NotLapped, storeVars
  <1>10. LastIsSettled'
    BY <1>1 DEF GitInv, LastIsSettled, AmbientSettled, storeVars
  <1> QED
    BY <1>4, <1>5, <1>6, <1>7, <1>8, <1>9, <1>10 DEF GitInv

\* A command fails and its call ends.
LEMMA CommandFailsKeepsGit ==
    ASSUME GitInv, NEW c \in Callers, CommandFails(c)
    PROVE  GitInv'
  <1>1. GitTypeOK /\ GitReturns(c)
    BY DEF GitInv, CommandFails
  <1>2. PICK k \in GitCalls : CallBecomes(c, k) /\ k.at = "idle" /\ k.op = "none"
    BY <1>1, CallReturns
  <1>3. k.op \notin Ambient /\ k.at \notin AmbientSteps
    BY <1>1, <1>2 DEF GitInv, GitCallsFit, GitCallFits, AmbientSteps, Ambient
  <1>4. UNCHANGED <<storeVars, alone, lapped, last>> /\ UNCHANGED calls
    BY DEF CommandFails, Continues
  <1>5. GitTypeOK'
    <2>1. gitCall' \in [Callers -> GitCalls]
      BY <1>2 DEF CallBecomes
    <2>2. calls \in Nat /\ cuts' \in 0..MaxCuts
      BY <1>1, GitAssumption DEF GitTypeOK, CommandFails, Continues
    <2> QED
      BY <1>1, <1>4, <2>1, <2>2 DEF GitTypeOK, GitCalls, CommandFails, storeVars, repoVars
  <1>6. calls' >= calls
    BY <1>1, <1>4, GitAssumption DEF GitTypeOK
  <1> QED
    BY <1>2, <1>3, <1>4, <1>5, <1>6, LeavesAmbient

\* A plain clone.
LEMMA PlainCloneKeepsGit ==
    ASSUME GitInv, NEW c \in Callers, PlainClone(c)
    PROVE  GitInv'
  <1>1. GitTypeOK /\ GitReturns(c)
    BY DEF GitInv, PlainClone
  <1>2. PICK k \in GitCalls : CallBecomes(c, k) /\ k.at = "idle" /\ k.op = "none"
    BY <1>1, CallReturns
  <1>3. k.op \notin Ambient /\ k.at \notin AmbientSteps
    BY <1>1, <1>2 DEF GitInv, GitCallsFit, GitCallFits, AmbientSteps, Ambient
  <1>4. UNCHANGED <<storeVars, alone, lapped, last>> /\ UNCHANGED calls
    BY DEF PlainClone, Continues
  <1>5. GitTypeOK'
    <2>1. gitCall' \in [Callers -> GitCalls]
      BY <1>2 DEF CallBecomes
    <2>2. calls \in Nat /\ cuts' \in 0..MaxCuts
      BY <1>1, GitAssumption DEF GitTypeOK, PlainClone, Continues
    <2> QED
      BY <1>1, <1>4, <2>1, <2>2 DEF GitTypeOK, GitCalls, PlainClone, storeVars, repoVars
  <1>6. calls' >= calls
    BY <1>1, <1>4, GitAssumption DEF GitTypeOK
  <1> QED
    BY <1>2, <1>3, <1>4, <1>5, <1>6, LeavesAmbient

\* The pin is checked out.
LEMMA AttachPinnedBranchKeepsGit ==
    ASSUME GitInv, NEW c \in Callers, attach_pinned_branch(c)
    PROVE  GitInv'
  <1>1. GitTypeOK /\ GitReturns(c)
    BY DEF GitInv, attach_pinned_branch
  <1>2. PICK k \in GitCalls : CallBecomes(c, k) /\ k.at = "idle" /\ k.op = "none"
    BY <1>1, CallReturns
  <1>3. k.op \notin Ambient /\ k.at \notin AmbientSteps
    BY <1>1, <1>2 DEF GitInv, GitCallsFit, GitCallFits, AmbientSteps, Ambient
  <1>4. UNCHANGED <<storeVars, alone, lapped, last>> /\ UNCHANGED calls
    BY DEF attach_pinned_branch, Continues
  <1>5. GitTypeOK'
    <2>1. gitCall' \in [Callers -> GitCalls]
      BY <1>2 DEF CallBecomes
    <2>2. calls \in Nat /\ cuts' \in 0..MaxCuts
      BY <1>1, GitAssumption DEF GitTypeOK, attach_pinned_branch, Continues
    <2> QED
      BY <1>1, <1>4, <2>1, <2>2 DEF GitTypeOK, GitCalls, attach_pinned_branch, storeVars, repoVars
  <1>6. calls' >= calls
    BY <1>1, <1>4, GitAssumption DEF GitTypeOK
  <1> QED
    BY <1>2, <1>3, <1>4, <1>5, <1>6, LeavesAmbient

\* A push, a pull or a fetch.
LEMMA NetworkCommandKeepsGit ==
    ASSUME GitInv, NEW c \in Callers, NetworkCommand(c)
    PROVE  GitInv'
  <1>1. GitTypeOK /\ GitReturns(c)
    BY DEF GitInv, NetworkCommand
  <1>2. PICK k \in GitCalls : CallBecomes(c, k) /\ k.at = "idle" /\ k.op = "none"
    BY <1>1, CallReturns
  <1>3. k.op \notin Ambient /\ k.at \notin AmbientSteps
    BY <1>1, <1>2 DEF GitInv, GitCallsFit, GitCallFits, AmbientSteps, Ambient
  <1>4. UNCHANGED <<storeVars, alone, lapped, last>> /\ UNCHANGED calls
    BY DEF NetworkCommand, Continues
  <1>5. GitTypeOK'
    <2>1. gitCall' \in [Callers -> GitCalls]
      BY <1>2 DEF CallBecomes
    <2>2. calls \in Nat /\ cuts' \in 0..MaxCuts
      BY <1>1, GitAssumption DEF GitTypeOK, NetworkCommand, Continues
    <2> QED
      BY <1>1, <1>4, <2>1, <2>2 DEF GitTypeOK, GitCalls, NetworkCommand, storeVars, repoVars
  <1>6. calls' >= calls
    BY <1>1, <1>4, GitAssumption DEF GitTypeOK
  <1> QED
    BY <1>2, <1>3, <1>4, <1>5, <1>6, LeavesAmbient

\* A pinned clone makes its repository,
LEMMA ClonePinnedKeepsGit ==
    ASSUME GitInv, NEW c \in Callers, clone_pinned(c)
    PROVE  GitInv'
  <1>1. GitTypeOK /\ GitGoes(c, "remote") /\ gitCall[c].at = "init"
    BY DEF GitInv, clone_pinned, Continues
  <1>2. PICK k \in GitCalls : CallBecomes(c, k) /\ k.at = "remote" /\ k.op = gitCall[c].op
    BY <1>1, CallGoes DEF GitSteps
  <1>3. k.op \notin Ambient /\ k.at \notin AmbientSteps
    BY <1>1, <1>2 DEF GitInv, GitCallsFit, GitCallFits, AmbientSteps, Ambient
  <1>4. UNCHANGED <<storeVars, alone, lapped, last>> /\ UNCHANGED calls
    BY DEF clone_pinned, Continues
  <1>5. GitTypeOK'
    <2>1. gitCall' \in [Callers -> GitCalls]
      BY <1>2 DEF CallBecomes
    <2>2. calls \in Nat /\ cuts' \in 0..MaxCuts
      BY <1>1, GitAssumption DEF GitTypeOK, clone_pinned, Continues
    <2> QED
      BY <1>1, <1>4, <2>1, <2>2 DEF GitTypeOK, GitCalls, clone_pinned, storeVars, repoVars
  <1>6. calls' >= calls
    BY <1>1, <1>4, GitAssumption DEF GitTypeOK
  <1> QED
    BY <1>2, <1>3, <1>4, <1>5, <1>6, LeavesAmbient

\* fetches the pin,
LEMMA FetchesPinKeepsGit ==
    ASSUME GitInv, NEW c \in Callers, FetchesPin(c)
    PROVE  GitInv'
  <1>1. GitTypeOK /\ GitGoes(c, "checkout") /\ gitCall[c].at = "fetch"
    BY DEF GitInv, FetchesPin, Continues
  <1>2. PICK k \in GitCalls : CallBecomes(c, k) /\ k.at = "checkout" /\ k.op = gitCall[c].op
    BY <1>1, CallGoes DEF GitSteps
  <1>3. k.op \notin Ambient /\ k.at \notin AmbientSteps
    BY <1>1, <1>2 DEF GitInv, GitCallsFit, GitCallFits, AmbientSteps, Ambient
  <1>4. UNCHANGED <<storeVars, alone, lapped, last>> /\ UNCHANGED calls
    BY DEF FetchesPin, Continues
  <1>5. GitTypeOK'
    <2>1. gitCall' \in [Callers -> GitCalls]
      BY <1>2 DEF CallBecomes
    <2>2. calls \in Nat /\ cuts' \in 0..MaxCuts
      BY <1>1, GitAssumption DEF GitTypeOK, FetchesPin, Continues
    <2> QED
      BY <1>1, <1>4, <2>1, <2>2 DEF GitTypeOK, GitCalls, FetchesPin, storeVars, repoVars
  <1>6. calls' >= calls
    BY <1>1, <1>4, GitAssumption DEF GitTypeOK
  <1> QED
    BY <1>2, <1>3, <1>4, <1>5, <1>6, LeavesAmbient

\* adds its remote, or fails where there is one.
LEMMA AddsRemoteKeepsGit ==
    ASSUME GitInv, NEW c \in Callers, AddsRemote(c)
    PROVE  GitInv'
  <1>1. GitTypeOK /\ gitCall[c].at = "remote" /\ (GitGoes(c, "fetch") \/ GitReturns(c))
    BY DEF GitInv, AddsRemote
  <1>2. PICK k \in GitCalls : CallBecomes(c, k) /\ k.at \in {"idle", "fetch"}
                              /\ (k.op = gitCall[c].op \/ k.op = "none") /\ (k.at = "idle" => k.op = "none")
    BY <1>1, CallGoes, CallReturns DEF GitSteps
  <1>3. k.op \notin Ambient /\ k.at \notin AmbientSteps
    BY <1>1, <1>2 DEF GitInv, GitCallsFit, GitCallFits, AmbientSteps, Ambient
  <1>4. UNCHANGED <<storeVars, alone, lapped, last>> /\ UNCHANGED calls
    BY DEF AddsRemote
  <1>5. GitTypeOK'
    <2>1. gitCall' \in [Callers -> GitCalls]
      BY <1>2 DEF CallBecomes
    <2> QED
      BY <1>1, <1>4, <2>1 DEF GitTypeOK, GitCalls, AddsRemote, storeVars, repoVars
  <1>6. calls' >= calls
    BY <1>1, <1>4, GitAssumption DEF GitTypeOK
  <1> QED
    BY <1>2, <1>3, <1>4, <1>5, <1>6, LeavesAmbient

\* Starting a clone, a push, a pull or a fetch.
LEMMA BeginsKeepsGit ==
    ASSUME GitInv, NEW c \in Callers, clone_into(c) \/ credential_rewrite(c)
    PROVE  GitInv'
  <1>0. GitTypeOK /\ calls < MaxCalls
    BY DEF GitInv, clone_into, credential_rewrite
  <1>1. calls + 1 \in 0..MaxCalls /\ calls \in Nat
    BY <1>0, GitAssumption DEF GitTypeOK
  <1>2. PICK k \in GitCalls : CallBecomes(c, k) /\ k.at \in {"clone", "init", "sync"}
                              /\ k.op \in {"clone", "sync"}
    <2>1. CASE clone_into(c)
      <3>1. PICK o \in CloneOptions :
              gitCall' = [gitCall EXCEPT ![c] = [NoGitCall EXCEPT
                !.op = "clone", !.n = calls + 1, !.at = IF o.commit \/ o.tag THEN "init" ELSE "clone",
                !.pin = o.commit \/ o.tag, !.branch = o.branch]]
        BY <2>1 DEF clone_into
      <3> DEFINE r == [NoGitCall EXCEPT
                !.op = "clone", !.n = calls + 1, !.at = IF o.commit \/ o.tag THEN "init" ELSE "clone",
                !.pin = o.commit \/ o.tag, !.branch = o.branch]
      <3>2. (o.commit \/ o.tag) \in BOOLEAN /\ o.branch \in BOOLEAN
        BY DEF CloneOptions
      <3>3. NoGitCall \in GitCalls
        BY GitAssumption DEF NoGitCall, GitCalls, GitSteps
      <3>4. r \in GitCalls /\ r.at \in {"clone", "init"} /\ r.op = "clone"
        BY <1>1, <3>2, <3>3 DEF GitCalls, GitSteps
      <3> HIDE DEF r
      <3> QED
        BY <1>0, <3>1, <3>4, CallReplaced DEF r
    <2>2. CASE credential_rewrite(c)
      <3> DEFINE r == [NoGitCall EXCEPT !.op = "sync", !.at = "sync"]
      <3>1. gitCall' = [gitCall EXCEPT ![c] = r]
        BY <2>2 DEF credential_rewrite
      <3>2. NoGitCall \in GitCalls
        BY GitAssumption DEF NoGitCall, GitCalls, GitSteps
      <3>3. r \in GitCalls /\ r.at = "sync" /\ r.op = "sync"
        BY <3>2 DEF GitCalls, GitSteps
      <3> HIDE DEF r
      <3> QED
        BY <1>0, <3>1, <3>3, CallReplaced
    <2> QED
      BY <2>1, <2>2
  <1>3. k.op \notin Ambient /\ k.at \notin AmbientSteps /\ k.at # "idle"
    BY <1>2 DEF Ambient, AmbientSteps
  <1>4. UNCHANGED <<storeVars, alone, lapped, last>> /\ calls' = calls + 1
    BY DEF clone_into, credential_rewrite
  <1>6. calls' >= calls
    BY <1>1, <1>4
  <1>5. GitTypeOK'
    <2>1. gitCall' \in [Callers -> GitCalls]
      BY <1>2 DEF CallBecomes
    <2> QED
      BY <1>0, <1>1, <1>4, <2>1 DEF GitTypeOK, GitCalls, clone_into, credential_rewrite, storeVars, repoVars
  <1> QED
    BY <1>2, <1>3, <1>4, <1>5, <1>6, LeavesAmbient

\* The numbers of the calls and the inodes.
LEMMA GitNumbers ==
    ASSUME GitTypeOK
    PROVE  /\ MaxCalls \in Nat /\ calls \in Nat /\ store \in Nat /\ temp \in Nat
           /\ helpers.own \in Nat /\ gitCall \in [Callers -> GitCalls]
           /\ \A c \in Callers : gitCall[c].n \in Nat /\ gitCall[c].fd \in Nat
           /\ content \in [1..MaxCalls -> 0..MaxCalls]
           /\ store # 0 => store \in 1..MaxCalls
           /\ temp # 0 => temp \in 1..MaxCalls
  BY GitAssumption DEF GitTypeOK, GitCalls

\* An ambient call that goes on: what its step has to keep.
LEMMA AmbientGoes ==
    ASSUME GitInv, NEW c \in Callers, NEW k \in GitCalls, CallBecomes(c, k), k.op = gitCall[c].op,
           k.n = gitCall[c].n, c \in AmbientCallers, k.at \in AmbientSteps,
           k.at \in {"url", "open", "write", "mv", "add"} => k.op = "set",
           k.at = "rm" => k.op = "clear", k.at = "write" => k.fd # 0,
           UNCHANGED <<calls, alone, lapped, last>>, helpers'.own \in 0..helpers.own
    PROVE  /\ AmbientCallers' = AmbientCallers /\ GitCallsFit' /\ NumbersDiffer'
           /\ HelpersAreCounted' /\ LastIsSettled'
           /\ \A d \in Callers : gitCall'[d].op = gitCall[d].op /\ gitCall'[d].n = gitCall[d].n
  <1>1. AmbientCallers' = AmbientCallers
    BY AmbientStay
  <1>2. gitCall'[c] = k /\ \A d \in Callers : d # c => gitCall'[d] = gitCall[d]
    BY DEF CallBecomes
  <1>3. \A d \in Callers : gitCall'[d].op = gitCall[d].op /\ gitCall'[d].n = gitCall[d].n
    BY <1>2
  <1>4. GitCallsFit'
    <2>1. ASSUME NEW d \in Callers, d # c PROVE GitCallFits(d)'
      BY <2>1, <1>2 DEF GitCallFits, GitInv, GitCallsFit
    <2>2. GitCallFits(c)'
      <3>1. GitCallFits(c) /\ gitCall[c].op \in Ambient
        BY AmbientMembers DEF GitInv, GitCallsFit
      <3> QED
        BY <1>2, <3>1 DEF GitCallFits, AmbientSteps
    <2> QED
      BY <2>1, <2>2 DEF GitCallsFit
  <1>5. NumbersDiffer'
    BY <1>1, <1>3, AmbientMembers DEF GitInv, NumbersDiffer
  <1>6. HelpersAreCounted'
    <2>1. Cardinality(AmbientCallers) \in Nat
      BY FS_CardinalityType DEF GitInv, HelpersAreCounted
    <2>2. helpers.own \in Nat /\ calls \in Nat
      BY GitNumbers DEF GitInv
    <2> QED
      BY <1>1, <2>1, <2>2 DEF GitInv, HelpersAreCounted
  <1>7. LastIsSettled'
    BY <1>1 DEF GitInv, LastIsSettled
  <1> QED
    BY <1>1, <1>3, <1>4, <1>5, <1>6, <1>7

\* The origin can carry a credential.
LEMMA StoreEntryKeeps ==
    ASSUME GitInv, NEW c \in Callers, store_entry(c), GitGoes(c, "path")
    PROVE  GitInv'
  <1>0. GitTypeOK /\ gitCall[c].at = "url" /\ c \in AmbientCallers
    <2>1. GitTypeOK /\ gitCall[c].at = "url" /\ GitCallFits(c)
      BY DEF GitInv, GitCallsFit, store_entry
    <2> QED
      BY <2>1, AmbientMembers DEF GitCallFits, AmbientSteps
  <1>1. gitCall[c].n \in 1..calls /\ gitCall[c].op \in Ambient
        /\ (gitCall[c].at \in {"url", "open", "write", "mv", "add"} => gitCall[c].op = "set")
        /\ (gitCall[c].at = "rm" => gitCall[c].op = "clear")
        /\ (gitCall[c].at = "write" => gitCall[c].fd # 0)
    BY <1>0, AmbientMembers DEF GitInv, GitCallsFit, GitCallFits
  <1>20. GitGoes(c, "path")
    BY DEF store_entry, Continues
  <1>2. PICK k \in GitCalls : CallBecomes(c, k) /\ k.at = ("path") /\ k.fd = gitCall[c].fd
                               /\ k.op = gitCall[c].op /\ k.n = gitCall[c].n
    BY <1>0, <1>20, CallGoes DEF GitSteps
  <1>3. UNCHANGED <<calls, cuts, alone, lapped, last>> /\ UNCHANGED repoVars
    BY DEF store_entry, Continues
  <1>4. helpers'.own \in 0..helpers.own /\ helpers' \in [own : 0..MaxCalls, foreign : BOOLEAN]
        /\ helpers' = helpers
    BY <1>0, GitNumbers DEF store_entry, storeVars, GitTypeOK
  <1>5. k.at \in AmbientSteps /\ (k.at \in {"url", "open", "write", "mv", "add"} => k.op = "set")
        /\ (k.at = "rm" => k.op = "clear") /\ (k.at = "write" => k.fd # 0)
    BY <1>0, <1>1, <1>2 DEF AmbientSteps, Ambient
  <1>6. /\ AmbientCallers' = AmbientCallers /\ GitCallsFit' /\ NumbersDiffer'
        /\ HelpersAreCounted' /\ LastIsSettled'
        /\ \A d \in Callers : gitCall'[d].op = gitCall[d].op /\ gitCall'[d].n = gitCall[d].n
    BY <1>0, <1>2, <1>3, <1>4, <1>5, AmbientGoes
  <1>7. gitCall'[c] = k /\ (\A d \in Callers : d # c => gitCall'[d] = gitCall[d])
        /\ gitCall' \in [Callers -> GitCalls]
    BY <1>2 DEF CallBecomes
  <1>8. GitTypeOK'
    BY <1>0, <1>1, <1>3, <1>4, <1>7, GitNumbers DEF GitTypeOK, GitCalls, repoVars, storeVars, store_entry
  <1>9. InodesAreOlder'
    <2>1. \A d \in AmbientCallers : d # c => gitCall[d].n # gitCall[c].n
      BY <1>0 DEF GitInv, NumbersDiffer
    <2>2. \A d \in AmbientCallers : gitCall[d].n # 0
      BY AmbientMembers DEF GitInv, GitCallsFit, GitCallFits
    <2> QED
      BY <1>0, <1>1, <1>2, <1>3, <1>6, <1>7, <2>1, <2>2, GitNumbers, AmbientMembers
      DEF GitInv, InodesAreOlder, storeVars, store_entry
  <1>10. AloneIsAlone'
    <2> SUFFICES ASSUME NEW d \in AmbientCallers, alone[d] PROVE AloneFits(d)'
      BY <1>3, <1>6 DEF AloneIsAlone
    <2>1. AloneFits(d) /\ d = c /\ \A e \in AmbientCallers : e = c
      BY <1>0 DEF GitInv, AloneIsAlone, AloneFits
    <2> QED
      BY <1>0, <1>1, <1>2, <1>4, <1>6, <1>7, <2>1, GitNumbers
      DEF AloneFits, GitInv, InodesAreOlder, storeVars, store_entry
  <1>11. NotLapped'
    BY <1>0, <1>1, <1>2, <1>3, <1>6, GitNumbers, AmbientMembers
    DEF GitInv, NotLapped, AloneIsAlone, AloneFits, InodesAreOlder, storeVars, store_entry
  <1> QED
    BY <1>6, <1>8, <1>9, <1>10, <1>11 DEF GitInv

\* The path of the store.
LEMMA CredentialStorePathKeeps ==
    ASSUME GitInv, NEW c \in Callers, credential_store_path(c)
    PROVE  GitInv'
  <1>0. GitTypeOK /\ gitCall[c].at = "path" /\ c \in AmbientCallers
    <2>1. GitTypeOK /\ gitCall[c].at = "path" /\ GitCallFits(c)
      BY DEF GitInv, GitCallsFit, credential_store_path
    <2> QED
      BY <2>1, AmbientMembers DEF GitCallFits, AmbientSteps
  <1>1. gitCall[c].n \in 1..calls /\ gitCall[c].op \in Ambient
        /\ (gitCall[c].at \in {"url", "open", "write", "mv", "add"} => gitCall[c].op = "set")
        /\ (gitCall[c].at = "rm" => gitCall[c].op = "clear")
        /\ (gitCall[c].at = "write" => gitCall[c].fd # 0)
    BY <1>0, AmbientMembers DEF GitInv, GitCallsFit, GitCallFits
  <1>20. GitGoes(c, IF gitCall[c].op = "set" THEN "open" ELSE "rm")
    BY DEF credential_store_path, Continues
  <1>2. PICK k \in GitCalls : CallBecomes(c, k) /\ k.at = (IF gitCall[c].op = "set" THEN "open" ELSE "rm") /\ k.fd = gitCall[c].fd
                               /\ k.op = gitCall[c].op /\ k.n = gitCall[c].n
    BY <1>0, <1>20, CallGoes DEF GitSteps
  <1>3. UNCHANGED <<calls, cuts, alone, lapped, last>> /\ UNCHANGED repoVars
    BY DEF credential_store_path, Continues
  <1>4. helpers'.own \in 0..helpers.own /\ helpers' \in [own : 0..MaxCalls, foreign : BOOLEAN]
        /\ helpers' = helpers
    BY <1>0, GitNumbers DEF credential_store_path, storeVars, GitTypeOK
  <1>5. k.at \in AmbientSteps /\ (k.at \in {"url", "open", "write", "mv", "add"} => k.op = "set")
        /\ (k.at = "rm" => k.op = "clear") /\ (k.at = "write" => k.fd # 0)
    BY <1>0, <1>1, <1>2 DEF AmbientSteps, Ambient
  <1>6. /\ AmbientCallers' = AmbientCallers /\ GitCallsFit' /\ NumbersDiffer'
        /\ HelpersAreCounted' /\ LastIsSettled'
        /\ \A d \in Callers : gitCall'[d].op = gitCall[d].op /\ gitCall'[d].n = gitCall[d].n
    BY <1>0, <1>2, <1>3, <1>4, <1>5, AmbientGoes
  <1>7. gitCall'[c] = k /\ (\A d \in Callers : d # c => gitCall'[d] = gitCall[d])
        /\ gitCall' \in [Callers -> GitCalls]
    BY <1>2 DEF CallBecomes
  <1>8. GitTypeOK'
    BY <1>0, <1>1, <1>3, <1>4, <1>7, GitNumbers DEF GitTypeOK, GitCalls, repoVars, storeVars, credential_store_path
  <1>9. InodesAreOlder'
    <2>1. \A d \in AmbientCallers : d # c => gitCall[d].n # gitCall[c].n
      BY <1>0 DEF GitInv, NumbersDiffer
    <2>2. \A d \in AmbientCallers : gitCall[d].n # 0
      BY AmbientMembers DEF GitInv, GitCallsFit, GitCallFits
    <2> QED
      BY <1>0, <1>1, <1>2, <1>3, <1>6, <1>7, <2>1, <2>2, GitNumbers, AmbientMembers
      DEF GitInv, InodesAreOlder, storeVars, credential_store_path
  <1>10. AloneIsAlone'
    <2> SUFFICES ASSUME NEW d \in AmbientCallers, alone[d] PROVE AloneFits(d)'
      BY <1>3, <1>6 DEF AloneIsAlone
    <2>1. AloneFits(d) /\ d = c /\ \A e \in AmbientCallers : e = c
      BY <1>0 DEF GitInv, AloneIsAlone, AloneFits
    <2> QED
      BY <1>0, <1>1, <1>2, <1>4, <1>6, <1>7, <2>1, GitNumbers
      DEF AloneFits, GitInv, InodesAreOlder, storeVars, credential_store_path
  <1>11. NotLapped'
    BY <1>0, <1>1, <1>2, <1>3, <1>6, GitNumbers, AmbientMembers
    DEF GitInv, NotLapped, AloneIsAlone, AloneFits, InodesAreOlder, storeVars, credential_store_path
  <1> QED
    BY <1>6, <1>8, <1>9, <1>10, <1>11 DEF GitInv

\* The temporary file is made or truncated.
LEMMA StoreOpensKeeps ==
    ASSUME GitInv, NEW c \in Callers, StoreOpens(c)
    PROVE  GitInv'
  <1>0. GitTypeOK /\ gitCall[c].at = "open" /\ c \in AmbientCallers
    <2>1. GitTypeOK /\ gitCall[c].at = "open" /\ GitCallFits(c)
      BY DEF GitInv, GitCallsFit, StoreOpens
    <2> QED
      BY <2>1, AmbientMembers DEF GitCallFits, AmbientSteps
  <1>1. gitCall[c].n \in 1..calls /\ gitCall[c].op \in Ambient
        /\ (gitCall[c].at \in {"url", "open", "write", "mv", "add"} => gitCall[c].op = "set")
        /\ (gitCall[c].at = "rm" => gitCall[c].op = "clear")
        /\ (gitCall[c].at = "write" => gitCall[c].fd # 0)
    BY <1>0, AmbientMembers DEF GitInv, GitCallsFit, GitCallFits
  <1>20. PICK inode : /\ inode = (IF temp # 0 THEN temp ELSE gitCall[c].n)
                      /\ temp' = inode /\ content' = [content EXCEPT ![inode] = 0]
                      /\ gitCall' = OpenedAt(c, "write", inode)
    BY Zenon DEF StoreOpens, OpenedAt
  <1>21. inode \in 1..MaxCalls /\ inode # 0 /\ inode \in 0..MaxCalls /\ (temp # 0 => inode = temp)
         /\ (temp = 0 => inode = gitCall[c].n) /\ inode <= calls
    BY <1>0, <1>1, <1>20, GitNumbers DEF GitInv, InodesAreOlder, GitTypeOK
  <1>2. PICK k \in GitCalls : CallBecomes(c, k) /\ k.at = "write" /\ k.fd = inode
                               /\ k.op = gitCall[c].op /\ k.n = gitCall[c].n
    <2>1. "write" \in GitSteps
      BY DEF GitSteps
    <2>2. gitCall' = OpenedAt(c, "write", inode)
      BY <1>20
    <2>3. GitTypeOK /\ inode \in 0..MaxCalls
      BY <1>0, <1>21
    <2> QED
      BY <2>1, <2>2, <2>3, CallOpens
  <1>3. UNCHANGED <<calls, cuts, alone, lapped, last>> /\ UNCHANGED repoVars
    BY DEF StoreOpens, Continues
  <1>4. helpers'.own \in 0..helpers.own /\ helpers' \in [own : 0..MaxCalls, foreign : BOOLEAN]
        /\ helpers' = helpers
    BY <1>0, GitNumbers DEF StoreOpens, storeVars, GitTypeOK
  <1>5. k.at \in AmbientSteps /\ (k.at \in {"url", "open", "write", "mv", "add"} => k.op = "set")
        /\ (k.at = "rm" => k.op = "clear") /\ (k.at = "write" => k.fd # 0)
    BY <1>0, <1>1, <1>2, <1>20, <1>21 DEF AmbientSteps, Ambient
  <1>6. /\ AmbientCallers' = AmbientCallers /\ GitCallsFit' /\ NumbersDiffer'
        /\ HelpersAreCounted' /\ LastIsSettled'
        /\ \A d \in Callers : gitCall'[d].op = gitCall[d].op /\ gitCall'[d].n = gitCall[d].n
    BY <1>0, <1>2, <1>3, <1>4, <1>5, AmbientGoes
  <1>7. gitCall'[c] = k /\ (\A d \in Callers : d # c => gitCall'[d] = gitCall[d])
        /\ gitCall' \in [Callers -> GitCalls]
    BY <1>2 DEF CallBecomes
  <1>8. GitTypeOK'
    BY <1>0, <1>1, <1>3, <1>4, <1>7, <1>20, <1>21, GitNumbers DEF GitTypeOK, GitCalls, repoVars, storeVars, StoreOpens
  <1>9. InodesAreOlder'
    <2>1. \A d \in AmbientCallers : d # c => gitCall[d].n # gitCall[c].n
      BY <1>0 DEF GitInv, NumbersDiffer
    <2>2. \A d \in AmbientCallers : gitCall[d].n # 0
      BY AmbientMembers DEF GitInv, GitCallsFit, GitCallFits
    <2> QED
      BY <1>0, <1>1, <1>2, <1>3, <1>6, <1>7, <1>20, <1>21, <2>1, <2>2, GitNumbers, AmbientMembers
      DEF GitInv, InodesAreOlder, storeVars, StoreOpens
  <1>10. AloneIsAlone'
    <2> SUFFICES ASSUME NEW d \in AmbientCallers, alone[d] PROVE AloneFits(d)'
      BY <1>3, <1>6 DEF AloneIsAlone
    <2>1. AloneFits(d) /\ d = c /\ \A e \in AmbientCallers : e = c
      BY <1>0 DEF GitInv, AloneIsAlone, AloneFits
    <2> QED
      BY <1>0, <1>1, <1>2, <1>4, <1>6, <1>7, <1>20, <1>21, <2>1, GitNumbers
      DEF AloneFits, GitInv, InodesAreOlder, storeVars, StoreOpens
  <1>11. NotLapped'
    BY <1>0, <1>1, <1>2, <1>3, <1>6, <1>20, <1>21, GitNumbers, AmbientMembers
    DEF GitInv, NotLapped, AloneIsAlone, AloneFits, InodesAreOlder, storeVars, StoreOpens
  <1> QED
    BY <1>6, <1>8, <1>9, <1>10, <1>11 DEF GitInv

\* The entry is written to what was opened.
LEMMA StoreWritesKeeps ==
    ASSUME GitInv, NEW c \in Callers, StoreWrites(c)
    PROVE  GitInv'
  <1>0. GitTypeOK /\ gitCall[c].at = "write" /\ c \in AmbientCallers
    <2>1. GitTypeOK /\ gitCall[c].at = "write" /\ GitCallFits(c)
      BY DEF GitInv, GitCallsFit, StoreWrites
    <2> QED
      BY <2>1, AmbientMembers DEF GitCallFits, AmbientSteps
  <1>1. gitCall[c].n \in 1..calls /\ gitCall[c].op \in Ambient
        /\ (gitCall[c].at \in {"url", "open", "write", "mv", "add"} => gitCall[c].op = "set")
        /\ (gitCall[c].at = "rm" => gitCall[c].op = "clear")
        /\ (gitCall[c].at = "write" => gitCall[c].fd # 0)
    BY <1>0, AmbientMembers DEF GitInv, GitCallsFit, GitCallFits
  <1>20. GitGoes(c, "mv")
    BY DEF StoreWrites, Continues
  <1>2. PICK k \in GitCalls : CallBecomes(c, k) /\ k.at = ("mv") /\ k.fd = gitCall[c].fd
                               /\ k.op = gitCall[c].op /\ k.n = gitCall[c].n
    BY <1>0, <1>20, CallGoes DEF GitSteps
  <1>3. UNCHANGED <<calls, cuts, alone, lapped, last>> /\ UNCHANGED repoVars
    BY DEF StoreWrites, Continues
  <1>4. helpers'.own \in 0..helpers.own /\ helpers' \in [own : 0..MaxCalls, foreign : BOOLEAN]
        /\ helpers' = helpers
    BY <1>0, GitNumbers DEF StoreWrites, storeVars, GitTypeOK
  <1>5. k.at \in AmbientSteps /\ (k.at \in {"url", "open", "write", "mv", "add"} => k.op = "set")
        /\ (k.at = "rm" => k.op = "clear") /\ (k.at = "write" => k.fd # 0)
    BY <1>0, <1>1, <1>2 DEF AmbientSteps, Ambient
  <1>6. /\ AmbientCallers' = AmbientCallers /\ GitCallsFit' /\ NumbersDiffer'
        /\ HelpersAreCounted' /\ LastIsSettled'
        /\ \A d \in Callers : gitCall'[d].op = gitCall[d].op /\ gitCall'[d].n = gitCall[d].n
    BY <1>0, <1>2, <1>3, <1>4, <1>5, AmbientGoes
  <1>7. gitCall'[c] = k /\ (\A d \in Callers : d # c => gitCall'[d] = gitCall[d])
        /\ gitCall' \in [Callers -> GitCalls]
    BY <1>2 DEF CallBecomes
  <1>8. GitTypeOK'
    BY <1>0, <1>1, <1>3, <1>4, <1>7, GitNumbers DEF GitTypeOK, GitCalls, repoVars, storeVars, StoreWrites
  <1>9. InodesAreOlder'
    <2>1. \A d \in AmbientCallers : d # c => gitCall[d].n # gitCall[c].n
      BY <1>0 DEF GitInv, NumbersDiffer
    <2>2. \A d \in AmbientCallers : gitCall[d].n # 0
      BY AmbientMembers DEF GitInv, GitCallsFit, GitCallFits
    <2> QED
      BY <1>0, <1>1, <1>2, <1>3, <1>6, <1>7, <2>1, <2>2, GitNumbers, AmbientMembers
      DEF GitInv, InodesAreOlder, storeVars, StoreWrites
  <1>10. AloneIsAlone'
    <2> SUFFICES ASSUME NEW d \in AmbientCallers, alone[d] PROVE AloneFits(d)'
      BY <1>3, <1>6 DEF AloneIsAlone
    <2>1. AloneFits(d) /\ d = c /\ \A e \in AmbientCallers : e = c
      BY <1>0 DEF GitInv, AloneIsAlone, AloneFits
    <2> QED
      BY <1>0, <1>1, <1>2, <1>4, <1>6, <1>7, <2>1, GitNumbers
      DEF AloneFits, GitInv, InodesAreOlder, storeVars, StoreWrites
  <1>11. NotLapped'
    BY <1>0, <1>1, <1>2, <1>3, <1>6, GitNumbers, AmbientMembers
    DEF GitInv, NotLapped, AloneIsAlone, AloneFits, InodesAreOlder, storeVars, StoreWrites
  <1> QED
    BY <1>6, <1>8, <1>9, <1>10, <1>11 DEF GitInv

\* The temporary file takes the place of the store.
LEMMA StoreMovesKeeps ==
    ASSUME GitInv, NEW c \in Callers, StoreMoves(c), temp # 0
    PROVE  GitInv'
  <1>0. GitTypeOK /\ gitCall[c].at = "mv" /\ c \in AmbientCallers
    <2>1. GitTypeOK /\ gitCall[c].at = "mv" /\ GitCallFits(c)
      BY DEF GitInv, GitCallsFit, StoreMoves
    <2> QED
      BY <2>1, AmbientMembers DEF GitCallFits, AmbientSteps
  <1>1. gitCall[c].n \in 1..calls /\ gitCall[c].op \in Ambient
        /\ (gitCall[c].at \in {"url", "open", "write", "mv", "add"} => gitCall[c].op = "set")
        /\ (gitCall[c].at = "rm" => gitCall[c].op = "clear")
        /\ (gitCall[c].at = "write" => gitCall[c].fd # 0)
    BY <1>0, AmbientMembers DEF GitInv, GitCallsFit, GitCallFits
  <1>20. GitGoes(c, "forget")
    BY DEF StoreMoves, Continues
  <1>2. PICK k \in GitCalls : CallBecomes(c, k) /\ k.at = ("forget") /\ k.fd = gitCall[c].fd
                               /\ k.op = gitCall[c].op /\ k.n = gitCall[c].n
    BY <1>0, <1>20, CallGoes DEF GitSteps
  <1>3. UNCHANGED <<calls, cuts, alone, lapped, last>> /\ UNCHANGED repoVars
    BY DEF StoreMoves, Continues
  <1>4. helpers'.own \in 0..helpers.own /\ helpers' \in [own : 0..MaxCalls, foreign : BOOLEAN]
        /\ helpers' = helpers
    BY <1>0, GitNumbers DEF StoreMoves, storeVars, GitTypeOK
  <1>5. k.at \in AmbientSteps /\ (k.at \in {"url", "open", "write", "mv", "add"} => k.op = "set")
        /\ (k.at = "rm" => k.op = "clear") /\ (k.at = "write" => k.fd # 0)
    BY <1>0, <1>1, <1>2 DEF AmbientSteps, Ambient
  <1>6. /\ AmbientCallers' = AmbientCallers /\ GitCallsFit' /\ NumbersDiffer'
        /\ HelpersAreCounted' /\ LastIsSettled'
        /\ \A d \in Callers : gitCall'[d].op = gitCall[d].op /\ gitCall'[d].n = gitCall[d].n
    BY <1>0, <1>2, <1>3, <1>4, <1>5, AmbientGoes
  <1>7. gitCall'[c] = k /\ (\A d \in Callers : d # c => gitCall'[d] = gitCall[d])
        /\ gitCall' \in [Callers -> GitCalls]
    BY <1>2 DEF CallBecomes
  <1>8. GitTypeOK'
    BY <1>0, <1>1, <1>3, <1>4, <1>7, GitNumbers DEF GitTypeOK, GitCalls, repoVars, storeVars, StoreMoves
  <1>9. InodesAreOlder'
    <2>1. \A d \in AmbientCallers : d # c => gitCall[d].n # gitCall[c].n
      BY <1>0 DEF GitInv, NumbersDiffer
    <2>2. \A d \in AmbientCallers : gitCall[d].n # 0
      BY AmbientMembers DEF GitInv, GitCallsFit, GitCallFits
    <2> QED
      BY <1>0, <1>1, <1>2, <1>3, <1>6, <1>7, <2>1, <2>2, GitNumbers, AmbientMembers
      DEF GitInv, InodesAreOlder, storeVars, StoreMoves
  <1>10. AloneIsAlone'
    <2> SUFFICES ASSUME NEW d \in AmbientCallers, alone[d] PROVE AloneFits(d)'
      BY <1>3, <1>6 DEF AloneIsAlone
    <2>1. AloneFits(d) /\ d = c /\ \A e \in AmbientCallers : e = c
      BY <1>0 DEF GitInv, AloneIsAlone, AloneFits
    <2> QED
      BY <1>0, <1>1, <1>2, <1>4, <1>6, <1>7, <2>1, GitNumbers
      DEF AloneFits, GitInv, InodesAreOlder, storeVars, StoreMoves
  <1>11. NotLapped'
    BY <1>0, <1>1, <1>2, <1>3, <1>6, GitNumbers, AmbientMembers
    DEF GitInv, NotLapped, AloneIsAlone, AloneFits, InodesAreOlder, storeVars, StoreMoves
  <1> QED
    BY <1>6, <1>8, <1>9, <1>10, <1>11 DEF GitInv

\* The entries of the store are forgotten.
LEMMA ForgetHelperKeeps ==
    ASSUME GitInv, NEW c \in Callers, forget_helper(c), gitCall[c].op = "set"
    PROVE  GitInv'
  <1>0. GitTypeOK /\ gitCall[c].at = "forget" /\ c \in AmbientCallers
    <2>1. GitTypeOK /\ gitCall[c].at = "forget" /\ GitCallFits(c)
      BY DEF GitInv, GitCallsFit, forget_helper
    <2> QED
      BY <2>1, AmbientMembers DEF GitCallFits, AmbientSteps
  <1>1. gitCall[c].n \in 1..calls /\ gitCall[c].op \in Ambient
        /\ (gitCall[c].at \in {"url", "open", "write", "mv", "add"} => gitCall[c].op = "set")
        /\ (gitCall[c].at = "rm" => gitCall[c].op = "clear")
        /\ (gitCall[c].at = "write" => gitCall[c].fd # 0)
    BY <1>0, AmbientMembers DEF GitInv, GitCallsFit, GitCallFits
  <1>20. GitGoes(c, "add")
    BY DEF forget_helper, Continues
  <1>2. PICK k \in GitCalls : CallBecomes(c, k) /\ k.at = ("add") /\ k.fd = gitCall[c].fd
                               /\ k.op = gitCall[c].op /\ k.n = gitCall[c].n
    BY <1>0, <1>20, CallGoes DEF GitSteps
  <1>3. UNCHANGED <<calls, cuts, alone, lapped, last>> /\ UNCHANGED repoVars
    BY DEF forget_helper, Continues
  <1>4. helpers'.own \in 0..helpers.own /\ helpers' \in [own : 0..MaxCalls, foreign : BOOLEAN]
        /\ helpers'.own = 0
    <2>1. helpers \in [own : 0..MaxCalls, foreign : BOOLEAN] /\ helpers' = [helpers EXCEPT !.own = 0]
      BY <1>0 DEF GitTypeOK, forget_helper
    <2>2. helpers.own \in Nat /\ MaxCalls \in Nat
      BY <1>0, GitNumbers
    <2> QED
      BY <2>1, <2>2
  <1>5. k.at \in AmbientSteps /\ (k.at \in {"url", "open", "write", "mv", "add"} => k.op = "set")
        /\ (k.at = "rm" => k.op = "clear") /\ (k.at = "write" => k.fd # 0)
    BY <1>0, <1>1, <1>2 DEF AmbientSteps, Ambient
  <1>6. /\ AmbientCallers' = AmbientCallers /\ GitCallsFit' /\ NumbersDiffer'
        /\ HelpersAreCounted' /\ LastIsSettled'
        /\ \A d \in Callers : gitCall'[d].op = gitCall[d].op /\ gitCall'[d].n = gitCall[d].n
    BY <1>0, <1>2, <1>3, <1>4, <1>5, AmbientGoes
  <1>7. gitCall'[c] = k /\ (\A d \in Callers : d # c => gitCall'[d] = gitCall[d])
        /\ gitCall' \in [Callers -> GitCalls]
    BY <1>2 DEF CallBecomes
  <1>8. GitTypeOK'
    BY <1>0, <1>1, <1>3, <1>4, <1>7, GitNumbers DEF GitTypeOK, GitCalls, repoVars, storeVars, forget_helper
  <1>9. InodesAreOlder'
    <2>1. \A d \in AmbientCallers : d # c => gitCall[d].n # gitCall[c].n
      BY <1>0 DEF GitInv, NumbersDiffer
    <2>2. \A d \in AmbientCallers : gitCall[d].n # 0
      BY AmbientMembers DEF GitInv, GitCallsFit, GitCallFits
    <2> QED
      BY <1>0, <1>1, <1>2, <1>3, <1>6, <1>7, <2>1, <2>2, GitNumbers, AmbientMembers
      DEF GitInv, InodesAreOlder, storeVars, forget_helper
  <1>10. AloneIsAlone'
    <2> SUFFICES ASSUME NEW d \in AmbientCallers, alone[d] PROVE AloneFits(d)'
      BY <1>3, <1>6 DEF AloneIsAlone
    <2>1. AloneFits(d) /\ d = c /\ \A e \in AmbientCallers : e = c
      BY <1>0 DEF GitInv, AloneIsAlone, AloneFits
    <2> QED
      BY <1>0, <1>1, <1>2, <1>4, <1>6, <1>7, <2>1, GitNumbers
      DEF AloneFits, GitInv, InodesAreOlder, storeVars, forget_helper
  <1>11. NotLapped'
    BY <1>0, <1>1, <1>2, <1>3, <1>6, GitNumbers, AmbientMembers
    DEF GitInv, NotLapped, AloneIsAlone, AloneFits, InodesAreOlder, storeVars, forget_helper
  <1> QED
    BY <1>6, <1>8, <1>9, <1>10, <1>11 DEF GitInv

\* A clear removes store and temporary file.
LEMMA RemovesStoreKeeps ==
    ASSUME GitInv, NEW c \in Callers, RemovesStore(c)
    PROVE  GitInv'
  <1>0. GitTypeOK /\ gitCall[c].at = "rm" /\ c \in AmbientCallers
    <2>1. GitTypeOK /\ gitCall[c].at = "rm" /\ GitCallFits(c)
      BY DEF GitInv, GitCallsFit, RemovesStore
    <2> QED
      BY <2>1, AmbientMembers DEF GitCallFits, AmbientSteps
  <1>1. gitCall[c].n \in 1..calls /\ gitCall[c].op \in Ambient
        /\ (gitCall[c].at \in {"url", "open", "write", "mv", "add"} => gitCall[c].op = "set")
        /\ (gitCall[c].at = "rm" => gitCall[c].op = "clear")
        /\ (gitCall[c].at = "write" => gitCall[c].fd # 0)
    BY <1>0, AmbientMembers DEF GitInv, GitCallsFit, GitCallFits
  <1>20. GitGoes(c, "forget")
    BY DEF RemovesStore, Continues
  <1>2. PICK k \in GitCalls : CallBecomes(c, k) /\ k.at = ("forget") /\ k.fd = gitCall[c].fd
                               /\ k.op = gitCall[c].op /\ k.n = gitCall[c].n
    BY <1>0, <1>20, CallGoes DEF GitSteps
  <1>3. UNCHANGED <<calls, cuts, alone, lapped, last>> /\ UNCHANGED repoVars
    BY DEF RemovesStore, Continues
  <1>4. helpers'.own \in 0..helpers.own /\ helpers' \in [own : 0..MaxCalls, foreign : BOOLEAN]
        /\ helpers' = helpers
    BY <1>0, GitNumbers DEF RemovesStore, storeVars, GitTypeOK
  <1>5. k.at \in AmbientSteps /\ (k.at \in {"url", "open", "write", "mv", "add"} => k.op = "set")
        /\ (k.at = "rm" => k.op = "clear") /\ (k.at = "write" => k.fd # 0)
    BY <1>0, <1>1, <1>2 DEF AmbientSteps, Ambient
  <1>6. /\ AmbientCallers' = AmbientCallers /\ GitCallsFit' /\ NumbersDiffer'
        /\ HelpersAreCounted' /\ LastIsSettled'
        /\ \A d \in Callers : gitCall'[d].op = gitCall[d].op /\ gitCall'[d].n = gitCall[d].n
    BY <1>0, <1>2, <1>3, <1>4, <1>5, AmbientGoes
  <1>7. gitCall'[c] = k /\ (\A d \in Callers : d # c => gitCall'[d] = gitCall[d])
        /\ gitCall' \in [Callers -> GitCalls]
    BY <1>2 DEF CallBecomes
  <1>8. GitTypeOK'
    BY <1>0, <1>1, <1>3, <1>4, <1>7, GitNumbers DEF GitTypeOK, GitCalls, repoVars, storeVars, RemovesStore
  <1>9. InodesAreOlder'
    <2>1. \A d \in AmbientCallers : d # c => gitCall[d].n # gitCall[c].n
      BY <1>0 DEF GitInv, NumbersDiffer
    <2>2. \A d \in AmbientCallers : gitCall[d].n # 0
      BY AmbientMembers DEF GitInv, GitCallsFit, GitCallFits
    <2> QED
      BY <1>0, <1>1, <1>2, <1>3, <1>6, <1>7, <2>1, <2>2, GitNumbers, AmbientMembers
      DEF GitInv, InodesAreOlder, storeVars, RemovesStore
  <1>10. AloneIsAlone'
    <2> SUFFICES ASSUME NEW d \in AmbientCallers, alone[d] PROVE AloneFits(d)'
      BY <1>3, <1>6 DEF AloneIsAlone
    <2>1. AloneFits(d) /\ d = c /\ \A e \in AmbientCallers : e = c
      BY <1>0 DEF GitInv, AloneIsAlone, AloneFits
    <2> QED
      BY <1>0, <1>1, <1>2, <1>4, <1>6, <1>7, <2>1, GitNumbers
      DEF AloneFits, GitInv, InodesAreOlder, storeVars, RemovesStore
  <1>11. NotLapped'
    BY <1>0, <1>1, <1>2, <1>3, <1>6, GitNumbers, AmbientMembers
    DEF GitInv, NotLapped, AloneIsAlone, AloneFits, InodesAreOlder, storeVars, RemovesStore
  <1> QED
    BY <1>6, <1>8, <1>9, <1>10, <1>11 DEF GitInv

\* An ambient call returns.
LEMMA SettlesKeeps ==
    ASSUME GitInv, NEW c \in Callers, c \in AmbientCallers, Settles(c), GitTypeOK',
           UNCHANGED <<content, store, temp>>, helpers'.own \in Nat,
           helpers'.own <= helpers.own \/ helpers'.own = helpers.own + 1,
           alone[c] /\ gitCall[c].op = "set" =>
             store # 0 /\ content[store] = gitCall[c].n /\ helpers'.own = 1,
           alone[c] /\ gitCall[c].op = "clear" => store = 0 /\ temp = 0 /\ helpers'.own = 0
    PROVE  GitInv'
  <1>0. GitTypeOK /\ GitReturns(c) /\ UNCHANGED <<calls, cuts, alone, lapped>>
    BY DEF GitInv, Settles
  <1>1. PICK k \in GitCalls : CallBecomes(c, k) /\ k.at = "idle" /\ k.op = "none"
    BY <1>0, CallReturns
  <1>2. AmbientCallers' = AmbientCallers \ {c}
    BY <1>1, AmbientLeave DEF Ambient
  <1>3. /\ gitCall'[c] = k /\ \A d \in Callers : d # c => gitCall'[d] = gitCall[d]
    BY <1>1 DEF CallBecomes
  <1>4. \A d \in AmbientCallers' : d \in AmbientCallers /\ d # c /\ gitCall'[d] = gitCall[d]
    BY <1>2, <1>3, AmbientMembers
  <1>5. calls \in Nat /\ calls' = calls /\ helpers.own \in Nat
    BY <1>0, GitNumbers
  <1>6. GitCallsFit'
    <2>1. ASSUME NEW d \in Callers, d # c PROVE GitCallFits(d)'
      BY <2>1, <1>3, <1>5 DEF GitCallFits, GitInv, GitCallsFit
    <2>2. GitCallFits(c)'
      BY <1>1, <1>3 DEF GitCallFits, AmbientSteps, Ambient
    <2> QED
      BY <2>1, <2>2 DEF GitCallsFit
  <1>7. NumbersDiffer'
    BY <1>4 DEF GitInv, NumbersDiffer
  <1>8. HelpersAreCounted'
    BY <1>0, <1>2, <1>5, CountsLeave DEF GitInv
  <1>9. InodesAreOlder'
    BY <1>4, <1>5 DEF GitInv, InodesAreOlder
  <1>10. AloneIsAlone'
    <2> SUFFICES ASSUME NEW d \in AmbientCallers', alone[d] PROVE FALSE
      BY <1>0 DEF AloneIsAlone
    <2> QED
      BY <1>4 DEF GitInv, AloneIsAlone, AloneFits
  <1>11. NotLapped'
    BY <1>0, <1>4 DEF GitInv, NotLapped
  <1>12. LastIsSettled'
    <2>1. CASE alone[c]
      <3>1. AmbientCallers = {c} /\ gitCall[c].op \in Ambient
        BY <2>1, AmbientMembers DEF GitInv, AloneIsAlone, AloneFits
      <3>2. AmbientCallers' = {}
        BY <3>1, <1>2
      <3>3. last' = [op |-> gitCall[c].op, n |-> gitCall[c].n]
        BY <2>1 DEF Settles
      <3>4. last'.op = gitCall[c].op /\ last'.n = gitCall[c].n
        BY <3>3
      <3> QED
        BY <3>2, <3>4, <2>1 DEF LastIsSettled, AmbientSettled
    <2>2. CASE ~alone[c]
      <3>1. last' = last /\ last.op = "none"
        BY <2>2 DEF Settles, GitInv, LastIsSettled
      <3> QED
        BY <3>1 DEF LastIsSettled
    <2> QED
      BY <2>1, <2>2
  <1> QED
    BY <1>6, <1>7, <1>8, <1>9, <1>10, <1>11, <1>12 DEF GitInv

\* A clear is over when its entries are forgotten, a set when its entry is added.
LEMMA LastStepKeeps ==
    ASSUME GitInv, NEW c \in Callers,
           AddsHelper(c) \/ (forget_helper(c) /\ gitCall[c].op # "set")
    PROVE  GitInv'
  <1>0. GitTypeOK /\ GitCallFits(c) /\ gitCall[c].at \in {"forget", "add"}
    BY DEF GitInv, GitCallsFit, AddsHelper, forget_helper
  <1>1. c \in AmbientCallers /\ gitCall[c].op \in Ambient
        /\ (gitCall[c].at = "add" => gitCall[c].op = "set")
    BY <1>0, AmbientMembers DEF GitCallFits, AmbientSteps
  <1>2. Settles(c) /\ UNCHANGED <<repoVars, content, store, temp>>
    BY DEF AddsHelper, forget_helper
  <1>3. helpers \in [own : 0..MaxCalls, foreign : BOOLEAN] /\ helpers.own \in Nat /\ MaxCalls \in Nat
    BY <1>0, GitNumbers DEF GitTypeOK
  <1>4. helpers.own + 1 \in 0..MaxCalls
    <2>1. c \in AmbientCallers /\ IsFiniteSet(AmbientCallers)
          /\ helpers.own + Cardinality(AmbientCallers) <= calls
      BY <1>1 DEF GitInv, HelpersAreCounted
    <2>2. Cardinality(AmbientCallers) \in Nat /\ Cardinality(AmbientCallers) # 0
      BY <2>1, FS_CardinalityType, FS_EmptySet
    <2>3. calls \in 0..MaxCalls
      BY <1>0 DEF GitTypeOK
    <2> QED
      BY <2>1, <2>2, <2>3, <1>3
  <1>5. \/ gitCall[c].at = "add" /\ helpers' = [helpers EXCEPT !.own = helpers.own + 1]
        \/ gitCall[c].at = "forget" /\ gitCall[c].op = "clear" /\ helpers' = [helpers EXCEPT !.own = 0]
    BY <1>1 DEF AddsHelper, forget_helper, Ambient
  <1>6. /\ helpers' \in [own : 0..MaxCalls, foreign : BOOLEAN]
        /\ \/ gitCall[c].at = "add" /\ helpers'.own = helpers.own + 1
           \/ gitCall[c].at = "forget" /\ gitCall[c].op = "clear" /\ helpers'.own = 0
    BY <1>3, <1>4, <1>5
  <1>7. helpers'.own \in Nat /\ (helpers'.own <= helpers.own \/ helpers'.own = helpers.own + 1)
    BY <1>3, <1>6
  <1>8. GitTypeOK'
    <2>1. gitCall' \in [Callers -> GitCalls]
      BY <1>0, <1>2, CallReturns DEF Settles, CallBecomes
    <2>2. gitCall[c].n \in 0..MaxCalls
      BY <1>0 DEF GitTypeOK
    <2>3. last' \in [op : Ambient \cup {"none"}, n : 0..MaxCalls]
      BY <1>0, <1>1, <1>2, <2>2 DEF Settles, GitTypeOK
    <2> QED
      BY <1>0, <1>2, <1>6, <2>1, <2>3 DEF GitTypeOK, GitCalls, Settles, repoVars
  <1>9. alone[c] => AloneFits(c)
    BY <1>1 DEF GitInv, AloneIsAlone
  <1>10. alone[c] /\ gitCall[c].op = "set" =>
           store # 0 /\ content[store] = gitCall[c].n /\ helpers'.own = 1
    BY <1>0, <1>3, <1>6, <1>9 DEF AloneFits
  <1>11. alone[c] /\ gitCall[c].op = "clear" => store = 0 /\ temp = 0 /\ helpers'.own = 0
    BY <1>0, <1>1, <1>6, <1>9 DEF AloneFits
  <1> QED
    BY <1>1, <1>2, <1>7, <1>8, <1>10, <1>11, SettlesKeeps

\* A call that ends early: no http origin, nothing to move.
LEMMA EndsEarlyKeeps ==
    ASSUME GitInv, NEW c \in Callers, GitReturns(c), store_entry(c) \/ (StoreMoves(c) /\ temp = 0)
    PROVE  GitInv'
  <1>1. GitTypeOK /\ GitReturns(c)
    BY DEF GitInv
  <1>2. PICK k \in GitCalls : CallBecomes(c, k) /\ k.at = "idle" /\ k.op = "none"
    BY <1>1, CallReturns
  <1>3. k.op \notin Ambient /\ k.at \notin AmbientSteps
    BY <1>2 DEF AmbientSteps, Ambient
  <1>4. UNCHANGED <<storeVars, alone, lapped, last>> /\ UNCHANGED <<calls, cuts, repoVars>>
    BY DEF store_entry, StoreMoves, storeVars
  <1>5. GitTypeOK'
    <2>1. gitCall' \in [Callers -> GitCalls]
      BY <1>2 DEF CallBecomes
    <2> QED
      BY <1>1, <1>4, <2>1 DEF GitTypeOK, GitCalls, storeVars, repoVars
  <1>6. calls' >= calls
    BY <1>1, <1>4, GitAssumption DEF GitTypeOK
  <1> QED
    BY <1>2, <1>3, <1>4, <1>5, <1>6, LeavesAmbient

\* An ambient call begins: it is alone unless another one is under way.
LEMMA SetAmbientKeeps ==
    ASSUME GitInv, NEW c \in Callers, set_ambient_credentials(c)
    PROVE  GitInv'
  <1>0. GitTypeOK /\ calls < MaxCalls /\ GitCallFits(c) /\ gitCall[c].at = "idle"
    BY DEF GitInv, GitCallsFit, set_ambient_credentials
  <1>1. calls + 1 \in 0..MaxCalls /\ calls \in Nat /\ MaxCalls \in Nat
    BY <1>0, GitAssumption DEF GitTypeOK
  <1>2. PICK k \in GitCalls : CallBecomes(c, k) /\ k.at \in {"url", "path"} /\ k.op \in Ambient
                              /\ k.n = calls + 1 /\ (k.at = "url" => k.op = "set")
    <2>1. PICK o \in Ambient : gitCall' = [gitCall EXCEPT ![c] = [NoGitCall EXCEPT
             !.op = o, !.n = calls + 1, !.at = IF o = "set" THEN "url" ELSE "path"]]
      BY DEF set_ambient_credentials
    <2> DEFINE r == [NoGitCall EXCEPT
             !.op = o, !.n = calls + 1, !.at = IF o = "set" THEN "url" ELSE "path"]
    <2>2. NoGitCall \in GitCalls
      BY <1>1 DEF NoGitCall, GitCalls, GitSteps
    <2>3. r \in GitCalls /\ r.at = (IF o = "set" THEN "url" ELSE "path") /\ r.op = o /\ r.n = calls + 1
      BY <1>1, <2>2 DEF GitCalls, GitSteps
    <2>4. gitCall' = [gitCall EXCEPT ![c] = r]
      BY <2>1
    <2> HIDE DEF r
    <2>5. CallBecomes(c, r)
      BY <1>0, <2>3, <2>4, CallReplaced
    <2> QED
      BY <2>3, <2>5
  <1>3. /\ gitCall'[c] = k /\ (\A d \in Callers : d # c => gitCall'[d] = gitCall[d])
        /\ gitCall' \in [Callers -> GitCalls]
    BY <1>2 DEF CallBecomes
  <1>4. c \notin AmbientCallers
    BY <1>0, AmbientMembers DEF GitCallFits, Ambient
  <1>5. AmbientCallers' = AmbientCallers \cup {c}
    BY <1>2, <1>3 DEF AmbientCallers
  <1>6. /\ calls' = calls + 1 /\ UNCHANGED <<repoVars, storeVars, cuts>> /\ last' = NoneSettled
        /\ alone' = [d \in Callers |-> IF d = c THEN AmbientCallers = {}
                                       ELSE alone[d] /\ d \notin AmbientCallers]
        /\ lapped' = (lapped \/ AmbientCallers # {})
    BY DEF set_ambient_credentials
  <1>7. \A d \in AmbientCallers : d # c /\ d \in Callers /\ gitCall'[d] = gitCall[d]
        /\ gitCall[d].n \in 1..calls
    BY <1>3, <1>4, AmbientMembers DEF GitInv, GitCallsFit, GitCallFits
  <1>8. GitTypeOK'
    <2>1. alone' \in [Callers -> BOOLEAN] /\ lapped' \in BOOLEAN
      BY <1>0, <1>6 DEF GitTypeOK
    <2>2. last' \in [op : Ambient \cup {"none"}, n : 0..MaxCalls]
      BY <1>1, <1>6 DEF NoneSettled
    <2> QED
      BY <1>0, <1>1, <1>3, <1>6, <2>1, <2>2 DEF GitTypeOK, GitCalls, storeVars, repoVars
  <1>9. GitCallsFit'
    <2>1. ASSUME NEW d \in Callers, d # c PROVE GitCallFits(d)'
      <3>1. gitCall[d].n \in Nat
        BY <1>0, GitNumbers
      <3> QED
        BY <2>1, <3>1, <1>1, <1>3, <1>6 DEF GitCallFits, GitInv, GitCallsFit
    <2>2. GitCallFits(c)'
      BY <1>1, <1>2, <1>3, <1>6 DEF GitCallFits, AmbientSteps
    <2> QED
      BY <2>1, <2>2 DEF GitCallsFit
  <1>10. NumbersDiffer'
    BY <1>1, <1>2, <1>3, <1>5, <1>7 DEF GitInv, NumbersDiffer
  <1>11. HelpersAreCounted'
    <2>1. IsFiniteSet(AmbientCallers) /\ helpers.own + Cardinality(AmbientCallers) <= calls
      BY DEF GitInv, HelpersAreCounted
    <2>2. /\ IsFiniteSet(AmbientCallers \cup {c})
          /\ Cardinality(AmbientCallers \cup {c}) = Cardinality(AmbientCallers) + 1
      BY <2>1, <1>4, FS_AddElement
    <2>3. Cardinality(AmbientCallers) \in Nat /\ helpers.own \in Nat /\ helpers' = helpers
      BY <2>1, <1>0, <1>6, FS_CardinalityType, GitNumbers DEF storeVars
    <2> QED
      BY <2>1, <2>2, <2>3, <1>1, <1>5, <1>6 DEF HelpersAreCounted
  <1>12. InodesAreOlder'
    <2>1. UNCHANGED <<store, temp>> /\ store \in Nat /\ temp \in Nat
      BY <1>0, <1>6, GitNumbers DEF storeVars
    <2> QED
      BY <2>1, <1>1, <1>2, <1>3, <1>5, <1>6, <1>7 DEF GitInv, InodesAreOlder
  <1>13. AloneIsAlone'
    <2>1. \A d \in AmbientCallers : ~alone'[d]
      BY <1>6, <1>7
    <2>2. ASSUME alone'[c] PROVE AloneFits(c)'
      <3>1. AmbientCallers = {}
        BY <2>2, <1>6
      <3> QED
        BY <3>1, <1>2, <1>3, <1>5 DEF AloneFits
    <2> QED
      BY <2>1, <2>2, <1>5 DEF AloneIsAlone
  <1>14. NotLapped'
    BY <1>5, <1>6 DEF GitInv, NotLapped, storeVars
  <1>15. LastIsSettled'
    BY <1>6 DEF LastIsSettled, NoneSettled
  <1> QED
    BY <1>8, <1>9, <1>10, <1>11, <1>12, <1>13, <1>14, <1>15 DEF GitInv

\* The first state.
LEMMA GitInitially ==
    GitInit => GitInv
  <1> SUFFICES ASSUME GitInit PROVE GitInv
    OBVIOUS
  <1>1. NoGitCall \in GitCalls /\ NoGitCall.at = "idle" /\ NoGitCall.op = "none"
    BY GitAssumption DEF NoGitCall, GitCalls, GitSteps
  <1>2. GitTypeOK
    <2>1. gitCall \in [Callers -> GitCalls]
      BY <1>1 DEF GitInit
    <2>2. helpers \in [own : 0..MaxCalls, foreign : BOOLEAN]
      BY GitAssumption DEF GitInit
    <2>3. last \in [op : Ambient \cup {"none"}, n : 0..MaxCalls]
      BY GitAssumption DEF GitInit, NoneSettled
    <2>4. /\ origin \in {"http", "ssh"} /\ target \in {"absent", "inited", "remote", "fetched", "ready"}
          /\ head \in {"none", "tip", "pin", "branch"}
      BY DEF GitInit
    <2>5. content \in [1..MaxCalls -> 0..MaxCalls] /\ store \in 0..MaxCalls /\ temp \in 0..MaxCalls
      <3>1. 0 \in 0..MaxCalls
        BY GitAssumption
      <3> QED
        BY <3>1 DEF GitInit
    <2>6. calls \in 0..MaxCalls /\ cuts \in 0..MaxCuts
      BY GitAssumption DEF GitInit
    <2>8. lapped \in BOOLEAN
      BY DEF GitInit
    <2>7. alone \in [Callers -> BOOLEAN]
      BY DEF GitInit
    <2> QED
      BY <2>1, <2>2, <2>3, <2>4, <2>5, <2>6, <2>7, <2>8 DEF GitTypeOK, GitCalls
  <1>3. \A c \in Callers : gitCall[c].at = "idle" /\ gitCall[c].op = "none"
    BY <1>1 DEF GitInit
  <1>4. AmbientCallers = {}
    BY <1>3 DEF AmbientCallers, Ambient
  <1>5. GitCallsFit
    BY <1>3 DEF GitCallsFit, GitCallFits, Ambient, AmbientSteps
  <1>6. HelpersAreCounted
    BY <1>4, FS_EmptySet DEF GitInit, HelpersAreCounted
  <1>7. InodesAreOlder
    BY <1>4 DEF GitInit, InodesAreOlder
  <1>8. LastIsSettled
    BY DEF GitInit, NoneSettled, LastIsSettled
  <1> QED
    BY <1>2, <1>4, <1>5, <1>6, <1>7, <1>8 DEF GitInv, NumbersDiffer, AloneIsAlone, NotLapped, GitInit

\* Every git command keeps it.
LEMMA GitStep ==
    GitInv /\ GitNext => GitInv'
  <1> SUFFICES ASSUME GitInv, NEW c \in Callers,
                      \/ set_ambient_credentials(c) \/ AmbientStep(c) \/ CommandFails(c)
                      \/ clone_into(c) \/ CloneStep(c) \/ credential_rewrite(c) \/ NetworkCommand(c)
               PROVE  GitInv'
    BY DEF GitNext
  <1>1. CASE AmbientStep(c)
    <2>1. CASE store_entry(c)
      <3>1. GitGoes(c, "path") \/ GitReturns(c)
        BY <2>1 DEF store_entry
      <3> QED
        BY <2>1, <3>1, StoreEntryKeeps, EndsEarlyKeeps
    <2>2. CASE StoreMoves(c)
      <3>1. temp = 0 => GitReturns(c)
        BY <2>2 DEF StoreMoves
      <3> QED
        BY <2>2, <3>1, StoreMovesKeeps, EndsEarlyKeeps
    <2>3. CASE forget_helper(c)
      BY <2>3, ForgetHelperKeeps, LastStepKeeps
    <2> QED
      BY <1>1, <2>1, <2>2, <2>3, CredentialStorePathKeeps, StoreOpensKeeps, StoreWritesKeeps,
         LastStepKeeps, RemovesStoreKeeps DEF AmbientStep
  <1>2. CASE CloneStep(c)
    BY <1>2, PlainCloneKeepsGit, ClonePinnedKeepsGit, AddsRemoteKeepsGit, FetchesPinKeepsGit,
       AttachPinnedBranchKeepsGit DEF CloneStep
  <1> QED
    BY <1>1, <1>2, SetAmbientKeeps, CommandFailsKeepsGit, BeginsKeepsGit, NetworkCommandKeepsGit

\* What the invariant says of the ambient credentials.
LEMMA GitHolds ==
    GitInv => GitTypeOK /\ AmbientCredentialsHold
  <1> SUFFICES ASSUME GitInv PROVE AmbientCredentialsHold
    BY DEF GitInv
  <1>1. AmbientSettled
    BY DEF GitInv, LastIsSettled, AmbientSettled
  <1>2. HalfStore => lapped
    BY DEF GitInv, NotLapped, HalfStore
  <1> QED
    BY <1>1, <1>2 DEF AmbientCredentialsHold

\* A step of another component.
LEMMA GitRests ==
    ASSUME GitInv, UNCHANGED gitVars
    PROVE  GitInv'
  <1>1. /\ UNCHANGED <<origin, target, head, content, store, temp, helpers, gitCall>>
        /\ UNCHANGED <<calls, cuts, alone, lapped, last>> /\ AmbientCallers' = AmbientCallers
    BY DEF gitVars, AmbientCallers
  <1>2. GitTypeOK'
    BY <1>1 DEF GitInv, GitTypeOK
  <1>3. GitCallsFit' /\ NumbersDiffer' /\ HelpersAreCounted' /\ InodesAreOlder'
    BY <1>1 DEF GitInv, GitCallsFit, GitCallFits, NumbersDiffer, HelpersAreCounted, InodesAreOlder
  <1>4. AloneIsAlone' /\ NotLapped' /\ LastIsSettled'
    BY <1>1 DEF GitInv, AloneIsAlone, AloneFits, NotLapped, LastIsSettled, AmbientSettled
  <1> QED
    BY <1>2, <1>3, <1>4 DEF GitInv

-----------------------------------------------------------------------------
\* The failures an attempt may end in, as its caller sees them.
AppError(e) == [kind |-> "app", error |-> e]
AnswersOf(e) == {into_wire(AppError(e))} \cup Skewed(into_wire(AppError(e)))
Answers == UNION {AnswersOf(e) : e \in Failures}
SeenErrors == Failures \cup {into_error(w) : w \in Answers}
Reasons == {"none", "transient_infra", "token_replication"}
AttemptReports == [retry_reason : Reasons, failure : {NoValue} \cup {Some(x) : x \in SeenErrors}]

\* A git failure comes out of the wire as it went in, but for an unknown kind.
LEMMA GitCrosses ==
    ASSUME NEW k, NEW x, NEW p, x = NoValue \/ \E f : x = Some(f)
    PROVE  into_error(into_wire(AppError(GitFailure(k, x, p)))) =
             GitFailure(IF k \in GitFailureKinds THEN k ELSE "unclassified", x, p)
  <1> DEFINE e == GitFailure(k, x, p)
             y == IF x.present THEN Some(exec_detail(x.value)) ELSE NoValue
             g == [kind |-> k, exec |-> y, provider |-> p]
             w == into_wire(AppError(e))
  <1>1. e.kind = "git" /\ e.fields.git = [kind |-> k, exec |-> x, provider |-> p]
    BY DEF GitFailure, Error
  <1>2. detail_of(e) = [git |-> g]
    BY <1>1 DEF detail_of
  <1>3. w.data.present /\ w.data.value.report.kind = "git" /\ w.data.value.detail = detail_of(e)
    BY <1>1 DEF into_wire, from_error, AppError, Some, ErrorReport
  <1>4. x = NoValue => ~x.present /\ y = NoValue /\ ~y.present
    BY DEF NoValue
  <1>5. ASSUME NEW f, x = Some(f)
        PROVE  x.present /\ y = Some(exec_detail(f)) /\ y.present /\ exec_failure(y.value) = x
    BY <1>5 DEF Some, exec_failure, exec_detail
  <1>6. NeededFields("git") = {"git"} /\ "git" \in ErrorKinds /\ "git" \in DOMAIN [git |-> g]
    BY DEF NeededFields, ErrorKinds
  <1>7. (IF g.exec.present THEN exec_failure(g.exec.value) ELSE NoValue) = x
    BY <1>4, <1>5
  <1>8. typed_error(w.data.value.report, [git |-> g]) =
          Some(GitFailure(IF g.kind \in GitFailureKinds THEN g.kind ELSE "unclassified",
                          IF g.exec.present THEN exec_failure(g.exec.value) ELSE NoValue, g.provider))
    <2> HIDE DEF g, w
    <2> QED
      BY <1>3, <1>6 DEF typed_error
  <1>9. w.data.present /\ into_error(w) = typed_error(w.data.value.report, [git |-> g]).value
    <2>1. typed_error(w.data.value.report, [git |-> g]).present
      BY <1>8 DEF Some
    <2> HIDE DEF g, w
    <2> QED
      BY <2>1, <1>2, <1>3 DEF into_error
  <1> QED
    BY <1>7, <1>8, <1>9 DEF Some

\* Of the other kinds the kind comes out, or a provider error.
LEMMA KindCrosses ==
    ASSUME NEW v, v.data.value.report.kind # "git"
    PROVE  into_error(v).kind \in {v.data.value.report.kind, "provider"}
  <1> DEFINE r == v.data.value.report
             d == v.data.value.detail
  <1>1. r.kind # "git"
    OBVIOUS
  <1>2. typed_error(r, d).present => typed_error(r, d).value.kind = r.kind
    <2> HIDE DEF r, d
    <2>1. r.kind = "exec" => typed_error(r, d) = NoValue
                             \/ typed_error(r, d) = Some(Error("exec", [exec |-> exec_failure(d.exec).value], 0))
      BY DEF typed_error, ErrorKinds
    <2>2. r.kind # "exec" => typed_error(r, d) = NoValue
                             \/ typed_error(r, d) = Some(Error(r.kind, [f \in NeededFields(r.kind) |-> d[f]],
                                                         remote_cause(r.kind, r.causes)))
      BY <1>1 DEF typed_error
    <2>3. ~NoValue.present
      BY DEF NoValue
    <2> QED
      BY <2>1, <2>2, <2>3 DEF Some, Error
  <1>3. CASE v.data.present /\ typed_error(r, d).present
    <2>1. into_error(v) = typed_error(r, d).value
      BY <1>3 DEF into_error
    <2> QED
      BY <1>2, <1>3, <2>1
  <1>4. CASE ~(v.data.present /\ typed_error(r, d).present)
    <2>1. into_error(v).kind = "provider"
      BY <1>4 DEF into_error, Error
    <2> QED
      BY <2>1
  <1> QED
    BY <1>3, <1>4

\* What decides on another attempt.
LEMMA ReasonFacts ==
    /\ \A k, a : decide(k, a) \in Reasons
    /\ \A k, a : decide(k, a) # "none" => k \in {"remote_unavailable", "auth_rejected"}
    /\ \A e : e.kind = "git" =>
         retry_reason(e) = IF e.fields.git.exec.present /\ e.fields.git.exec.value.termination # "exited"
                           THEN "none" ELSE decide(e.fields.git.kind, CredentialAge)
    /\ \A e : e.kind \in {"rate_limited", "overloaded"} => retry_reason(e) = "transient_infra"
    /\ \A e : e.kind \notin {"git", "rate_limited", "overloaded"} => retry_reason(e) = "none"
  <1>1. \A k, a : decide(k, a) \in Reasons
    BY DEF decide, Reasons
  <1>2. \A k, a : decide(k, a) # "none" => k \in {"remote_unavailable", "auth_rejected"}
    BY DEF decide
  <1>3. \A e : e.kind = "git" =>
         retry_reason(e) = IF e.fields.git.exec.present /\ e.fields.git.exec.value.termination # "exited"
                           THEN "none" ELSE decide(e.fields.git.kind, CredentialAge)
    BY DEF retry_reason
  <1>4. \A e : e.kind \in {"rate_limited", "overloaded"} => retry_reason(e) = "transient_infra"
    BY DEF retry_reason
  <1>5. \A e : e.kind \notin {"git", "rate_limited", "overloaded"} => retry_reason(e) = "none"
    BY DEF retry_reason
  <1> QED
    BY <1>1, <1>2, <1>3, <1>4, <1>5

\* A reason is one of three.
LEMMA ReasonTypes ==
    \A e : retry_reason(e) \in Reasons
  <1> SUFFICES ASSUME NEW e PROVE retry_reason(e) \in Reasons
    OBVIOUS
  <1>1. "none" \in Reasons /\ "transient_infra" \in Reasons
    BY DEF Reasons
  <1>2. e.kind = "git" \/ e.kind \in {"rate_limited", "overloaded"}
        \/ e.kind \notin {"git", "rate_limited", "overloaded"}
    OBVIOUS
  <1> QED
    BY <1>1, <1>2, ReasonFacts

\* The failure was worth another attempt: no command was cut short in it.
WorthRetry(e) ==
    /\ e.kind \in {"git", "rate_limited", "overloaded"}
    /\ e.kind = "git" =>
          /\ e.fields.git.kind \in {"remote_unavailable", "auth_rejected"}
          /\ \/ ~e.fields.git.exec.present
             \/ e.fields.git.exec.value.termination = "exited"

\* What a reason says of the failure that has it.
LEMMA ReasonIsWorth ==
    ASSUME NEW e, retry_reason(e) # "none"
    PROVE  WorthRetry(e)
  BY ReasonFacts DEF WorthRetry

\* The answer that carries a failure.
LEMMA AnswerShape ==
    ASSUME NEW e
    PROVE  /\ into_wire(AppError(e)) = from_error(e)
           /\ from_error(e).data.present
           /\ from_error(e).data.value.report.kind = e.kind
           /\ from_error(e).data.value.detail = detail_of(e)
  <1>1. into_wire(AppError(e)) = from_error(e)
    BY DEF into_wire, AppError
  <1>2. ErrorReport(e).kind = e.kind
    BY DEF ErrorReport
  <1> QED
    BY <1>1, <1>2 DEF from_error, Some

\* The failures an attempt meets: git's own, and others that name no git.
LEMMA FailureShape ==
    ASSUME NEW e \in Failures
    PROVE  \/ \E k, x, p : e = GitFailure(k, x, p) /\ (x = NoValue \/ \E f : x = Some(f))
           \/ e.kind # "git" /\ (e.kind = "overloaded" => "limit" \in DOMAIN e.fields)
  <1>1. CASE e \in CommandFailures
    <2>1. PICK o, s : e = from_command(o, s, {})
      BY <1>1 DEF CommandFailures
    <2> QED
      BY <2>1 DEF from_command
  <1>2. CASE e \in ProviderFailures
    <2>1. PICK o, s : e = from_provider(o, s)
      BY <1>2 DEF ProviderFailures
    <2> QED
      BY <2>1 DEF from_provider
  <1>3. CASE e \in OtherFailures
    <2>1. CASE \E k \in {"rate_limited", "overloaded", "timeout", "io"} : e = PlainError(k)
      <3>1. PICK k \in {"rate_limited", "overloaded", "timeout", "io"} : e = PlainError(k)
        BY <2>1
      <3>2. e.kind = k /\ DOMAIN e.fields = NeededFields(k)
        BY <3>1 DEF PlainError, Error
      <3>3. NeededFields("overloaded") = {"limit"}
        BY DEF NeededFields
      <3> QED
        BY <3>2, <3>3
    <2>2. CASE e = Error("exec", [exec |-> ExecFailure("killed", Absent)], 0)
      BY <2>2 DEF Error
    <2> QED
      BY <1>3, <2>1, <2>2 DEF OtherFailures
  <1> QED
    BY <1>1, <1>2, <1>3 DEF Failures

\* A failure crosses the wire unharmed between versions that agree,
LEMMA PlainCrossing ==
    ASSUME NEW e \in Failures
    PROVE  retry_reason(into_error(into_wire(AppError(e)))) = retry_reason(e)
  <1> DEFINE w == into_wire(AppError(e))
  <1> SUFFICES retry_reason(into_error(w)) = retry_reason(e)
    OBVIOUS
  <1>1. CASE \E k, x, p : e = GitFailure(k, x, p) /\ (x = NoValue \/ \E f : x = Some(f))
    <2>1. PICK k, x, p : e = GitFailure(k, x, p) /\ (x = NoValue \/ \E f : x = Some(f))
      BY <1>1
    <2> DEFINE j == IF k \in GitFailureKinds THEN k ELSE "unclassified"
    <2>2. into_error(w) = GitFailure(j, x, p)
      BY <2>1, GitCrosses
    <2>3. \A i : GitFailure(i, x, p).kind = "git" /\ GitFailure(i, x, p).fields.git.kind = i
                 /\ GitFailure(i, x, p).fields.git.exec = x
      BY DEF GitFailure, Error
    <2>4. decide(j, CredentialAge) = decide(k, CredentialAge)
      <3>1. CASE k \in GitFailureKinds
        BY <3>1
      <3>2. CASE k \notin GitFailureKinds
        <4>1. k \notin {"remote_unavailable", "auth_rejected"} /\ j \notin {"remote_unavailable", "auth_rejected"}
          BY <3>2 DEF GitFailureKinds
        <4> QED
          BY <4>1, ReasonFacts
      <3> QED
        BY <3>1, <3>2
    <2> HIDE DEF j, w
    <2> QED
      BY <2>1, <2>2, <2>3, <2>4, ReasonFacts
  <1>2. CASE e.kind # "git" /\ (e.kind = "overloaded" => "limit" \in DOMAIN e.fields)
    <2>1. w.data.value.report.kind = e.kind /\ w.data.present /\ w.data.value.detail = detail_of(e)
      BY AnswerShape
    <2>2. into_error(w).kind \in {e.kind, "provider"}
      BY <1>2, <2>1, KindCrosses
    <2>3. CASE e.kind = "rate_limited"
      <3>1. NeededFields("rate_limited") = {} /\ "rate_limited" \in ErrorKinds
        BY DEF NeededFields, ErrorKinds
      <3>2. \A r, d : r.kind = "rate_limited" =>
              typed_error(r, d) = Some(Error("rate_limited", [f \in {} |-> d[f]], remote_cause("rate_limited", r.causes)))
        BY <3>1 DEF typed_error
      <3>3. typed_error(w.data.value.report, w.data.value.detail).present
            /\ typed_error(w.data.value.report, w.data.value.detail).value.kind = "rate_limited"
        BY <2>1, <2>3, <3>2 DEF Some, Error
      <3>4. into_error(w).kind = "rate_limited"
        BY <2>1, <3>3 DEF into_error
      <3> HIDE DEF w
      <3> QED
        BY <3>4, <2>3, ReasonFacts
    <2>4. CASE e.kind = "overloaded"
      <3>1. NeededFields("overloaded") = {"limit"} /\ "overloaded" \in ErrorKinds
        BY DEF NeededFields, ErrorKinds
      <3>2. \A r, d : r.kind = "overloaded" /\ "limit" \in DOMAIN d /\ "not_started" \in DOMAIN d
                      /\ d["not_started"] =>
              typed_error(r, d) = Some(Error("overloaded", [f \in {"limit"} |-> d[f]], remote_cause("overloaded", r.causes)))
        BY <3>1 DEF typed_error
      <3>3. detail_of(e) = [limit |-> e.fields.limit, not_started |-> TRUE]
        BY <2>4 DEF detail_of
      <3>4. typed_error(w.data.value.report, w.data.value.detail).present
            /\ typed_error(w.data.value.report, w.data.value.detail).value.kind = "overloaded"
        <4>1. "limit" \in DOMAIN detail_of(e) /\ "not_started" \in DOMAIN detail_of(e)
              /\ detail_of(e)["not_started"]
          BY <3>3
        <4> HIDE DEF w
        <4>2. typed_error(w.data.value.report, w.data.value.detail) =
                Some(Error("overloaded", [f \in {"limit"} |-> w.data.value.detail[f]],
                           remote_cause("overloaded", w.data.value.report.causes)))
          BY <2>1, <2>4, <3>2, <4>1
        <4> QED
          BY <4>2 DEF Some, Error
      <3>5. into_error(w).kind = "overloaded"
        BY <2>1, <3>4 DEF into_error
      <3> HIDE DEF w
      <3> QED
        BY <3>5, <2>4, ReasonFacts
    <2>5. CASE e.kind \notin {"rate_limited", "overloaded"}
      <3> HIDE DEF w
      <3> QED
        BY <2>5, <2>2, <1>2, ReasonFacts
    <2> QED
      BY <2>3, <2>4, <2>5
  <1> QED
    BY <1>1, <1>2, FailureShape

\* and one of another version turns it at most into one that is not retried.
LEMMA SkewedCrossing ==
    ASSUME NEW e \in Failures, NEW v \in AnswersOf(e), retry_reason(into_error(v)) # "none"
    PROVE  WorthRetry(e)
  <1> DEFINE w == into_wire(AppError(e))
  <1>0. /\ w = from_error(e) /\ w.data.present /\ w.data.value.report.kind = e.kind
        /\ w.data.value.detail = detail_of(e)
    BY AnswerShape
  <1>1. CASE v = w
    BY <1>1, PlainCrossing, ReasonIsWorth
  <1>2. CASE v = [w EXCEPT !.data.value.report.kind = "future"]
    <2>1. v.data.value.report.kind = "future"
      BY <1>2, <1>0 DEF from_error, Some, ErrorReport
    <2>2. into_error(v).kind \in {"future", "provider"}
      BY <2>1, KindCrosses
    <2> QED
      BY <2>2, ReasonFacts
  <1>3. CASE e.kind = "git" /\ v = [w EXCEPT !.data.value.detail.git.kind = "future"]
    <2>1. PICK k, x, p : e = GitFailure(k, x, p) /\ (x = NoValue \/ \E f : x = Some(f))
      BY <1>3, FailureShape
    <2>2. e.fields.git = [kind |-> k, exec |-> x, provider |-> p]
      BY <2>1 DEF GitFailure, Error
    <2>3. PICK g : detail_of(e) = [git |-> g] /\ g = [kind |-> k, exec |-> g.exec, provider |-> p]
      <3>1. detail_of(e) = [git |-> [kind |-> k, exec |-> IF x.present THEN Some(exec_detail(x.value)) ELSE NoValue,
                                     provider |-> p]]
        BY <1>3, <2>2 DEF detail_of
      <3> QED
        BY <3>1
    <2>4. v.data.present /\ v.data.value.report.kind = "git"
          /\ v.data.value.detail = [git |-> [g EXCEPT !.kind = "future"]]
      <3>1. w.data.value.detail.git = g /\ w.data.value.detail = [git |-> g]
        BY <1>0, <2>3
      <3>2. w = [code |-> "application",
                 data |-> [present |-> TRUE, value |-> [report |-> ErrorReport(e), detail |-> [git |-> g]]]]
        BY <1>0, <2>3 DEF from_error, Some
      <3>3. ErrorReport(e).kind = "git"
        BY <1>3 DEF ErrorReport
      <3> HIDE DEF w
      <3>4. v.data = [present |-> TRUE, value |-> [report |-> ErrorReport(e),
                        detail |-> [git |-> [g EXCEPT !.kind = "future"]]]]
        BY <1>3, <3>2
      <3> QED
        BY <3>3, <3>4
    <2> DEFINE h == [g EXCEPT !.kind = "future"]
    <2>5. h.kind = "future" /\ h.kind \notin GitFailureKinds
      BY <2>3 DEF GitFailureKinds
    <2>6. NeededFields("git") = {"git"} /\ "git" \in ErrorKinds
      BY DEF NeededFields, ErrorKinds
    <2> HIDE DEF h
    <2>7. typed_error(v.data.value.report, [git |-> h]) =
            Some(GitFailure("unclassified", IF h.exec.present THEN exec_failure(h.exec.value) ELSE NoValue,
                            h.provider))
      BY <2>4, <2>5, <2>6 DEF typed_error
    <2>8. into_error(v).kind = "git" /\ into_error(v).fields.git.kind = "unclassified"
      <3>1. typed_error(v.data.value.report, v.data.value.detail).present
        BY <2>4, <2>7 DEF Some, h
      <3>2. into_error(v) = typed_error(v.data.value.report, [git |-> h]).value
        BY <2>4, <3>1 DEF into_error, h
      <3> QED
        BY <3>2, <2>7 DEF Some, GitFailure, Error
    <2>9. decide("unclassified", CredentialAge) = "none"
      BY ReasonFacts
    <2> QED
      BY <2>8, <2>9, ReasonFacts
  <1>4. CASE e.kind = "overloaded"
    BY <1>4 DEF WorthRetry
  <1> QED
    BY <1>0, <1>1, <1>2, <1>3, <1>4 DEF AnswersOf, Skewed

-----------------------------------------------------------------------------
\* The invariant of the loop: its types,
RetryTypes ==
    /\ policy \in [max_attempts : {0, 1, MaxAttempts}, factor : {1, 3}, max : {2},
                   max_elapsed : Elapses, per_attempt_timeout : {Absent, 1}]
    /\ peer \in {"local", "plugin", "skewed"}
    /\ now \in Nat /\ wakes \in Nat /\ began \in 0..now /\ allowed \in Nat \cup {Absent}
    /\ stage \in {"looping", "running", "failed", "sleeping", "done"}
    /\ attempts \in Seq(AttemptReports) /\ failures \in Seq(SeenErrors)
    /\ stage = "sleeping" => began <= wakes

\* what a failed attempt left,
RaisedFits ==
    stage = "failed" =>
      \E e \in Failures : /\ raised = Some(e)
                          /\ peer # "local" => \E v \in Crossings(e) : wire = Some(v)

\* why another one may begin,
LoopGoesOn ==
    stage = "sleeping" \/ (stage \in {"looping", "running"} /\ Len(attempts) # 0) =>
      WorthRetry(raised.value) /\ Len(attempts) < max_attempts

DeadlineAhead ==
    stage = "running" => (deadline # Absent => began < deadline)

\* and where the failures are told.
FailureTold(i) == attempts[i].failure = Some(failures[i])
FailuresTold ==
    /\ stage # "done" =>
         Len(failures) = Len(attempts) /\ \A i \in 1..Len(failures) : FailureTold(i)
    /\ stage = "done" /\ reported.how # "panic" =>
         /\ Len(failures) <= Len(attempts)
         /\ \A i \in 1..Len(failures) :
              FailureTold(i) \/ (i = Len(failures) /\ reported.error = Some(failures[i]))

RetryInv == RetryTypes /\ RaisedFits /\ LoopGoesOn /\ DeadlineAhead /\ FailuresTold

\* A failure as the caller of the attempt sees it.
LEMMA SeenFits ==
    ASSUME RetryInv, stage = "failed"
    PROVE  /\ Seen \in SeenErrors
           /\ retry_reason(Seen) # "none" => WorthRetry(raised.value)
           /\ peer = "plugin" => retry_reason(Seen) = retry_reason(raised.value)
  <1>1. PICK e \in Failures : /\ raised = Some(e)
                              /\ peer # "local" => \E v \in Crossings(e) : wire = Some(v)
    BY DEF RetryInv, RaisedFits
  <1>2. raised.value = e
    BY <1>1 DEF Some
  <1>3. CASE peer = "local"
    <2>1. Seen = e
      BY <1>2, <1>3 DEF Seen
    <2> QED
      BY <1>2, <1>3, <2>1, ReasonIsWorth DEF SeenErrors
  <1>4. CASE peer # "local"
    <2>1. PICK v \in Crossings(e) : wire = Some(v)
      BY <1>1, <1>4
    <2>2. Seen = into_error(v)
      BY <1>4, <2>1 DEF Seen, Some
    <2>3. v \in AnswersOf(e) /\ (peer = "plugin" => v = into_wire(AppError(e)))
      BY DEF Crossings, AnswersOf, AppError
    <2>4. v \in Answers
      BY <2>3 DEF Answers
    <2> QED
      BY <1>2, <2>2, <2>3, <2>4, PlainCrossing, SkewedCrossing DEF SeenErrors
  <1> QED
    BY <1>3, <1>4

\* An attempt is reported.
LEMMA FinishedFits ==
    ASSUME RetryInv, NEW r \in Reasons, NEW f \in {NoValue} \cup {Some(x) : x \in SeenErrors},
           attempts' = Finished(r, f)
    PROVE  /\ attempts' \in Seq(AttemptReports) /\ Len(attempts') = Len(attempts) + 1
           /\ \A i \in 1..Len(attempts) : attempts'[i] = attempts[i]
           /\ attempts'[Len(attempts) + 1].failure = f /\ Len(attempts) \in Nat
  <1>1. attempts \in Seq(AttemptReports)
    BY DEF RetryInv, RetryTypes
  <1> DEFINE a == [retry_reason |-> r, failure |-> f]
  <1>2. a \in AttemptReports /\ a.failure = f /\ attempts' = Append(attempts, a)
    BY DEF AttemptReports, Finished
  <1> HIDE DEF a
  <1> QED
    BY <1>1, <1>2

\* A failure is noted.
LEMMA NotedFits ==
    ASSUME RetryInv, NEW e \in SeenErrors, failures' = Append(failures, e)
    PROVE  /\ failures' \in Seq(SeenErrors) /\ Len(failures') = Len(failures) + 1
           /\ \A i \in 1..Len(failures) : failures'[i] = failures[i]
           /\ failures'[Len(failures) + 1] = e /\ Len(failures) \in Nat
  BY DEF RetryInv, RetryTypes

\* The first state of the loop.
LEMMA RetryInitially ==
    RetryInit => RetryInv
  <1> SUFFICES ASSUME RetryInit PROVE RetryInv
    OBVIOUS
  <1>1. RetryTypes
    BY DEF RetryInit, RetryTypes
  <1>2. Len(attempts) = 0 /\ Len(failures) = 0
    BY DEF RetryInit
  <1> QED
    BY <1>1, <1>2 DEF RetryInit, RetryInv, RaisedFits, LoopGoesOn, DeadlineAhead, FailuresTold

\* The times of a policy.
LEMMA PolicyTimes ==
    ASSUME RetryInv
    PROVE  /\ deadline \in {Absent, 0, 3} /\ now \in Nat /\ Remaining \in Int
           /\ deadline # Absent => Remaining \in Nat /\ (Remaining # 0 => now < deadline)
           /\ attempt_timeout \in Nat \cup {Absent}
           /\ attempt_timeout # 0 /\ deadline # Absent => now < deadline
           /\ max_attempts \in {1, MaxAttempts} /\ max_attempts \in Nat /\ MaxAttempts \in Nat
  <1>1. deadline \in {Absent, 0, 3} /\ now \in Nat /\ policy.per_attempt_timeout \in {Absent, 1}
        /\ policy.max_attempts \in {0, 1, MaxAttempts}
    BY DEF RetryInv, RetryTypes, deadline, Elapses
  <1>2. deadline # Absent => Remaining \in Nat /\ (Remaining # 0 => now < deadline)
    BY <1>1 DEF Remaining
  <1>3. Remaining \in Int
    BY <1>1 DEF Remaining, Absent
  <1>4. deadline = Absent => attempt_timeout = policy.per_attempt_timeout
    BY DEF attempt_timeout
  <1>5. deadline # Absent => \/ attempt_timeout = Remaining
                             \/ policy.per_attempt_timeout # Absent
                                /\ attempt_timeout = MinOf(policy.per_attempt_timeout, Remaining)
    <2>1. deadline # Absent /\ policy.per_attempt_timeout = Absent => attempt_timeout = Remaining
      BY DEF attempt_timeout
    <2>2. deadline # Absent /\ policy.per_attempt_timeout # Absent =>
            attempt_timeout = MinOf(policy.per_attempt_timeout, Remaining)
      BY DEF attempt_timeout
    <2> QED
      BY <2>1, <2>2
  <1>6. attempt_timeout \in Nat \cup {Absent}
    BY <1>1, <1>2, <1>4, <1>5 DEF MinOf
  <1>7. attempt_timeout # 0 /\ deadline # Absent => Remaining # 0
    BY <1>1, <1>2, <1>5 DEF MinOf
  <1>8. max_attempts \in {1, MaxAttempts} /\ max_attempts \in Nat /\ MaxAttempts \in Nat
    BY <1>1, RetryAssumption DEF max_attempts
  <1> QED
    BY <1>1, <1>2, <1>3, <1>6, <1>7, <1>8

\* The loop gives up before an attempt.
LEMMA AttemptRefusedKeeps ==
    ASSUME RetryInv, AttemptRefused
    PROVE  RetryInv'
  <1>1. RetryTypes'
    BY DEF RetryInv, RetryTypes, AttemptRefused
  <1>2. FailuresTold'
    BY DEF RetryInv, RetryTypes, FailuresTold, FailureTold, AttemptRefused
  <1> QED
    BY <1>1, <1>2 DEF RetryInv, AttemptRefused, RaisedFits, LoopGoesOn, DeadlineAhead

\* An attempt begins, its time not up.
LEMMA AttemptBeginsKeeps ==
    ASSUME RetryInv, AttemptBegins
    PROVE  RetryInv'
  <1>1. RetryTypes'
    BY PolicyTimes DEF RetryInv, RetryTypes, AttemptBegins
  <1>2. FailuresTold'
    BY DEF RetryInv, RetryTypes, FailuresTold, FailureTold, AttemptBegins
  <1>3. DeadlineAhead'
    BY PolicyTimes DEF AttemptBegins, DeadlineAhead, deadline
  <1>4. LoopGoesOn'
    BY DEF RetryInv, AttemptBegins, LoopGoesOn, max_attempts
  <1> QED
    BY <1>1, <1>2, <1>3, <1>4 DEF RetryInv, AttemptBegins, RaisedFits

\* An attempt succeeds.
LEMMA AttemptSucceedsKeeps ==
    ASSUME RetryInv, AttemptSucceeds
    PROVE  RetryInv'
  <1>0. "none" \in Reasons /\ NoValue \in {NoValue} \cup {Some(x) : x \in SeenErrors}
    BY DEF Reasons
  <1>1. attempts' = Finished("none", NoValue)
    BY DEF AttemptSucceeds
  <1>2. /\ attempts' \in Seq(AttemptReports) /\ Len(attempts') = Len(attempts) + 1
        /\ \A i \in 1..Len(attempts) : attempts'[i] = attempts[i]
        /\ Len(attempts) \in Nat
    BY <1>0, <1>1, FinishedFits
  <1>3. now' \in Nat /\ now' >= now
    BY DEF AttemptSucceeds, RetryInv, RetryTypes
  <1>4. RetryTypes'
    BY <1>2, <1>3 DEF RetryInv, RetryTypes, AttemptSucceeds
  <1>5. FailuresTold'
    BY <1>2 DEF RetryInv, RetryTypes, FailuresTold, FailureTold, AttemptSucceeds
  <1> QED
    BY <1>4, <1>5 DEF RetryInv, AttemptSucceeds, RaisedFits, LoopGoesOn, DeadlineAhead

\* An attempt fails and its failure comes to the loop.
LEMMA AttemptFailsKeeps ==
    ASSUME RetryInv, AttemptFails
    PROVE  RetryInv'
  <1>1. PICK e \in Failures : raised' = Some(e) /\ now' \in Nat /\ now' >= now
    <2>1. StoppedFailures \subseteq Failures
      BY DEF StoppedFailures, Failures
    <2>2. now \in Nat /\ allowed \in Nat \cup {Absent}
      BY DEF RetryInv, RetryTypes
    <2> QED
      BY <2>1, <2>2 DEF AttemptFails
  <1>2. raised'.value = e
    BY <1>1 DEF Some
  <1>3. peer # "local" => \E v \in Crossings(e) : wire' = Some(v)
    BY <1>2 DEF AttemptFails
  <1>4. \A x : Crossings(x)' = Crossings(x)
    BY DEF Crossings, AttemptFails
  <1>5. RaisedFits'
    BY <1>1, <1>3, <1>4 DEF RaisedFits, AttemptFails
  <1>6. RetryTypes'
    BY <1>1 DEF RetryInv, RetryTypes, AttemptFails
  <1>7. FailuresTold'
    BY DEF RetryInv, RetryTypes, FailuresTold, FailureTold, AttemptFails
  <1> QED
    BY <1>5, <1>6, <1>7 DEF RetryInv, AttemptFails, LoopGoesOn, DeadlineAhead

\* The delay panics.
LEMMA DelayPanicsKeeps ==
    ASSUME RetryInv, DelayPanics
    PROVE  RetryInv'
  <1>1. Seen \in SeenErrors /\ failures' = Append(failures, Seen)
    BY SeenFits DEF DelayPanics
  <1>2. failures' \in Seq(SeenErrors)
    BY <1>1, NotedFits
  <1>3. RetryTypes'
    BY <1>2 DEF RetryInv, RetryTypes, DelayPanics
  <1>4. reported'.how = "panic" /\ stage' = "done"
    BY DEF DelayPanics, Returned
  <1> QED
    BY <1>3, <1>4 DEF RetryInv, RaisedFits, LoopGoesOn, DeadlineAhead, FailuresTold

\* The loop returns the failure.
LEMMA GivesUpKeeps ==
    ASSUME RetryInv, GivesUp
    PROVE  RetryInv'
  <1>0. stage = "failed" /\ Seen \in SeenErrors /\ retry_reason(Seen) \in Reasons
        /\ NoValue \in {NoValue} \cup {Some(x) : x \in SeenErrors}
    BY SeenFits, ReasonTypes DEF GivesUp
  <1>1. attempts' = Finished(retry_reason(Seen), NoValue) /\ failures' = Append(failures, Seen)
    BY DEF GivesUp
  <1>2. /\ attempts' \in Seq(AttemptReports) /\ Len(attempts') = Len(attempts) + 1
        /\ \A i \in 1..Len(attempts) : attempts'[i] = attempts[i]
        /\ Len(attempts) \in Nat
    BY <1>0, <1>1, FinishedFits
  <1>3. /\ failures' \in Seq(SeenErrors) /\ Len(failures') = Len(failures) + 1
        /\ \A i \in 1..Len(failures) : failures'[i] = failures[i]
        /\ failures'[Len(failures) + 1] = Seen /\ Len(failures) \in Nat
    BY <1>0, <1>1, NotedFits
  <1>4. RetryTypes'
    BY <1>2, <1>3 DEF RetryInv, RetryTypes, GivesUp
  <1>5. reported'.error = Some(Seen) /\ stage' = "done"
    BY DEF GivesUp, Returned
  <1>6. FailuresTold'
    <2>1. Len(failures) = Len(attempts) /\ \A i \in 1..Len(failures) : FailureTold(i)
      BY <1>0 DEF RetryInv, FailuresTold
    <2>2. \A i \in 1..Len(failures) : attempts'[i].failure = Some(failures'[i])
      BY <2>1, <1>2, <1>3 DEF FailureTold
    <2>3. \A i \in 1..Len(failures') : i \in 1..Len(failures) \/ i = Len(failures')
      BY <1>3
    <2>4. reported'.error = Some(failures'[Len(failures')])
      BY <1>3, <1>5
    <2>5. Len(failures') <= Len(attempts')
      BY <2>1, <1>2, <1>3
    <2> QED
      BY <2>2, <2>3, <2>4, <2>5, <1>5 DEF FailuresTold, FailureTold
  <1> QED
    BY <1>4, <1>5, <1>6 DEF RetryInv, RaisedFits, LoopGoesOn, DeadlineAhead

\* Another attempt is worth it and within the budget.
LEMMA RetriesLaterKeeps ==
    ASSUME RetryInv, RetriesLater
    PROVE  RetryInv'
  <1>0. stage = "failed" /\ Seen \in SeenErrors /\ retry_reason(Seen) \in Reasons
        /\ Some(Seen) \in {NoValue} \cup {Some(x) : x \in SeenErrors}
    BY SeenFits, ReasonTypes DEF RetriesLater
  <1>1. attempts' = Finished(retry_reason(Seen), Some(Seen)) /\ failures' = Append(failures, Seen)
    BY DEF RetriesLater
  <1>2. /\ attempts' \in Seq(AttemptReports) /\ Len(attempts') = Len(attempts) + 1
        /\ \A i \in 1..Len(attempts) : attempts'[i] = attempts[i]
        /\ attempts'[Len(attempts) + 1].failure = Some(Seen) /\ Len(attempts) \in Nat
    BY <1>0, <1>1, FinishedFits
  <1>3. /\ failures' \in Seq(SeenErrors) /\ Len(failures') = Len(failures) + 1
        /\ \A i \in 1..Len(failures) : failures'[i] = failures[i]
        /\ failures'[Len(failures) + 1] = Seen /\ Len(failures) \in Nat
    BY <1>0, <1>1, NotedFits
  <1>4. retry_reason(Seen) # "none" /\ ~(Attempt >= max_attempts) /\ Delay = retry_delay(Attempt)
        /\ Delay # Absent
    BY DEF RetriesLater, Delay
  <1>5. Len(attempts) + 1 < max_attempts /\ max_attempts = MaxAttempts /\ Len(attempts) \in 0..MaxAttempts
    BY <1>2, <1>4, PolicyTimes DEF Attempt
  <1>6. Delay \in Nat
    <2>1. policy.factor \in {1, 3} /\ policy.max = 2
      BY DEF RetryInv, RetryTypes
    <2>2. RawDelay(Attempt) \in Nat
      <3>1. Attempt - 1 = Len(attempts)
        BY <1>2 DEF Attempt
      <3>2. policy.factor ^ Len(attempts) \in Nat
        BY <2>1, <1>5, PowersAssumption
      <3> QED
        BY <3>1, <3>2 DEF RawDelay
    <2>3. delay_after(Attempt) \in Nat
      BY <2>1, <2>2 DEF delay_after, MinOf
    <2> QED
      BY <2>3, <1>4 DEF retry_delay
  <1>7. now \in Nat /\ wakes' = now + Delay /\ wakes' \in Nat /\ began <= wakes' /\ began' = began
    <2>1. now \in Nat /\ began \in 0..now
      BY DEF RetryInv, RetryTypes
    <2>2. wakes' = now + Delay /\ began' = began
      BY DEF RetriesLater
    <2> QED
      BY <2>1, <2>2, <1>6
  <1>8. RetryTypes'
    BY <1>2, <1>3, <1>7 DEF RetryInv, RetryTypes, RetriesLater
  <1>9. LoopGoesOn'
    <2>1. WorthRetry(raised.value) /\ raised' = raised
      BY <1>0, <1>4, SeenFits DEF RetriesLater
    <2>2. max_attempts' = max_attempts
      BY DEF RetriesLater, max_attempts
    <2> QED
      BY <2>1, <2>2, <1>2, <1>5 DEF LoopGoesOn
  <1>10. FailuresTold'
    <2>1. Len(failures) = Len(attempts) /\ \A i \in 1..Len(failures) : FailureTold(i)
      BY <1>0 DEF RetryInv, FailuresTold
    <2>2. \A i \in 1..Len(failures) : attempts'[i].failure = Some(failures'[i])
      BY <2>1, <1>2, <1>3 DEF FailureTold
    <2>3. \A i \in 1..Len(failures') : i \in 1..Len(failures) \/ i = Len(failures) + 1
      BY <1>3
    <2>4. stage' = "sleeping" /\ Len(failures') = Len(attempts')
      BY <2>1, <1>2, <1>3 DEF RetriesLater
    <2> QED
      BY <2>1, <2>2, <2>3, <2>4, <1>2, <1>3 DEF FailuresTold, FailureTold
  <1> QED
    BY <1>8, <1>9, <1>10 DEF RetryInv, RaisedFits, DeadlineAhead, RetriesLater

\* The sleep is over.
LEMMA WakesKeeps ==
    ASSUME RetryInv, Wakes
    PROVE  RetryInv'
  <1>1. now' \in Nat /\ now' >= wakes /\ wakes \in Nat /\ began <= wakes
    BY DEF RetryInv, RetryTypes, Wakes
  <1>2. RetryTypes'
    BY <1>1 DEF RetryInv, RetryTypes, Wakes
  <1>3. FailuresTold'
    BY DEF RetryInv, RetryTypes, FailuresTold, FailureTold, Wakes
  <1>4. LoopGoesOn'
    BY DEF RetryInv, LoopGoesOn, Wakes, max_attempts
  <1> QED
    BY <1>2, <1>3, <1>4 DEF RetryInv, RaisedFits, DeadlineAhead, Wakes

\* Every step of the loop keeps the invariant.
LEMMA RetryStep ==
    RetryInv /\ RetryNext => RetryInv'
  BY AttemptRefusedKeeps, AttemptBeginsKeeps, AttemptSucceedsKeeps, AttemptFailsKeeps,
     DelayPanicsKeeps, GivesUpKeeps, RetriesLaterKeeps, WakesKeeps DEF RetryNext

\* A step of another component.
LEMMA RetryRests ==
    ASSUME RetryInv, UNCHANGED retryVars
    PROVE  RetryInv'
  <1>1. RetryTypes'
    BY DEF RetryInv, RetryTypes, retryVars
  <1>2. RaisedFits'
    <2>1. \A x : Crossings(x)' = Crossings(x)
      BY DEF Crossings, retryVars
    <2> QED
      BY <2>1 DEF RetryInv, RaisedFits, retryVars
  <1>3. LoopGoesOn' /\ DeadlineAhead' /\ FailuresTold'
    BY DEF RetryInv, LoopGoesOn, DeadlineAhead, FailuresTold, FailureTold, max_attempts, deadline,
       retryVars
  <1> QED
    BY <1>1, <1>2, <1>3 DEF RetryInv

\* What the invariant says of retries.
LEMMA RetryHolds ==
    RetryInv => RetryTypeOK /\ RetryIsSafe /\ ReportIsComplete
  <1> SUFFICES ASSUME RetryInv PROVE RetryTypeOK /\ RetryIsSafe /\ ReportIsComplete
    OBVIOUS
  <1>0. attempts \in Seq(AttemptReports) /\ failures \in Seq(SeenErrors) /\ Len(failures) \in Nat
        /\ DOMAIN failures = 1..Len(failures) /\ DOMAIN attempts = 1..Len(attempts)
    BY DEF RetryInv, RetryTypes
  <1>1. RetryTypeOK
    <2>0. \A i \in DOMAIN attempts : attempts[i] \in AttemptReports
      BY <1>0
    <2>1. \A i \in DOMAIN attempts : attempts[i].retry_reason \in Reasons
      BY <2>0 DEF AttemptReports
    <2> QED
      BY <2>1 DEF RetryTypeOK, RetryInv, RetryTypes, Reasons
  <1>2. RetryIsSafe
    <2> SUFFICES ASSUME stage = "running", attempts # <<>> PROVE RetryIsSafe
      BY DEF RetryIsSafe
    <2>1. Len(attempts) # 0
      BY <1>0
    <2>2. WorthRetry(raised.value) /\ Len(attempts) < max_attempts
      BY <2>1 DEF RetryInv, LoopGoesOn
    <2>3. deadline # Absent => began < deadline
      BY DEF RetryInv, DeadlineAhead
    <2> QED
      BY <2>2, <2>3 DEF RetryIsSafe, WorthRetry
  <1>3. ReportIsComplete
    <2>1. \A x : Some(x).present /\ Some(x).value = x
      BY DEF Some
    <2>2. stage = "done" /\ reported.how # "panic" =>
            \A i \in DOMAIN failures :
              \/ attempts[i].failure.present /\ attempts[i].failure.value = failures[i]
              \/ i = Len(failures) /\ reported.error = Some(failures[i])
      BY <1>0, <2>1 DEF RetryInv, FailuresTold, FailureTold
    <2>3. stage = "failed" /\ peer = "plugin" => retry_reason(Seen) = retry_reason(raised.value)
      BY SeenFits
    <2> QED
      BY <2>2, <2>3 DEF ReportIsComplete
  <1> QED
    BY <1>1, <1>2, <1>3
-----------------------------------------------------------------------------
\* A git command is repeated only where that is safe and within its policy, its report keeps
\* every attempt, and ambient credentials are those of the last call that set or removed
\* them, for every policy, clock, number of callers and order of their steps.
THEOREM GitStaysSafe ==
    MCSpec => []GitIsSafe
  <1> DEFINE I == (part = "git" => GitInv) /\ (part = "retry" => RetryInv)
  <1>1. MCInit => I
    BY GitInitially, RetryInitially DEF MCInit
  <1>2. I /\ [MCNext]_mcVars => I'
    <2> SUFFICES ASSUME I, [MCNext]_mcVars PROVE I'
      OBVIOUS
    <2>1. ASSUME part' = "git" PROVE GitInv'
      <3>1. CASE UNCHANGED <<part, gitVars>>
        <4>1. GitInv /\ UNCHANGED gitVars
          BY <2>1, <3>1
        <4> QED
          BY <4>1, GitRests
      <3>2. CASE OfGit("git", GitNext, <<retryVars, listenerVars>>)
        BY <3>2, GitStep DEF OfGit
      <3> QED
        BY <2>1, <3>1, <3>2 DEF MCNext, mcVars, gitParts, OfFence, OfData, OfGit
    <2>2. ASSUME part' = "retry" PROVE RetryInv'
      <3>1. CASE UNCHANGED <<part, retryVars>>
        <4>1. RetryInv /\ UNCHANGED retryVars
          BY <2>2, <3>1
        <4> QED
          BY <4>1, RetryRests
      <3>2. CASE OfGit("retry", RetryNext, <<gitVars, listenerVars>>)
        BY <3>2, RetryStep DEF OfGit
      <3> QED
        BY <2>2, <3>1, <3>2 DEF MCNext, mcVars, gitParts, OfFence, OfData, OfGit
    <2> QED
      BY <2>1, <2>2
  <1>3. I => GitIsSafe
    BY GitHolds, RetryHolds DEF GitIsSafe
  <1> QED
    BY <1>1, <1>2, <1>3, PTL DEF MCSpec


-----------------------------------------------------------------------------
\* ChannelListener.  An expectation's operation waits, and nothing was sent to it;
EntriesWait ==
    \A o \in expectations :
      /\ opening[o] = "waiting" /\ oneshot[o] = "empty"
      /\ \A c \in Connections : admitting[c] = "matched" => claim[c].id # o

\* a connection that matched is the only one of its operation, which has no channel yet;
MatchesFit ==
    \A c \in Connections : admitting[c] = "matched" =>
      /\ claim[c].trusted /\ claim[c].open /\ claim[c].token = claim[c].id
      /\ oneshot[claim[c].id] \notin Connections
      /\ opening[claim[c].id] \notin {"new", "checked"}
MatchesDiffer ==
    \A c, d \in Connections :
      admitting[c] = "matched" /\ admitting[d] = "matched" /\ claim[c].id = claim[d].id => c = d

\* a channel that was handed over is its operation's own;
ChannelsFit ==
    \A o \in Expecters : oneshot[o] \in Connections =>
      claim[oneshot[o]] = [trusted |-> TRUE, open |-> TRUE, id |-> o, token |-> o]

\* before an operation registers nothing was sent to it.
NewAreEmpty ==
    \A o \in Expecters : opening[o] \in {"new", "checked"} => oneshot[o] = "empty"

WaitersFit ==
    \A o \in Expecters : opening[o] = "waiting" /\ oneshot[o] = "empty" =>
      o \in expectations \/ \E c \in Connections : admitting[c] = "matched" /\ claim[c].id = o

Measuring == {c \in Connections : admitting[c] = "measuring"}

PermitsHold ==
    /\ Cardinality(IoHeld) <= ActiveIo /\ Cardinality(OpenHeld) <= PendingOpens
    /\ Cardinality(Handshaking) <= Handshakes

RegistryInv ==
    /\ ListenerTypeOK /\ EntriesWait /\ MatchesFit /\ MatchesDiffer /\ ChannelsFit /\ NewAreEmpty
    /\ WaitersFit
ListenerInv == RegistryInv /\ PermitsHold /\ SamplesAddUp

-----------------------------------------------------------------------------
\* The sets behind the budgets are finite.
LEMMA HeldAreFinite ==
    ASSUME ListenerTypeOK
    PROVE  /\ IsFiniteSet(IoHeld) /\ IsFiniteSet(OpenHeld) /\ IsFiniteSet(Handshaking)
           /\ IsFiniteSet(Measuring)
           /\ Cardinality(IoHeld) \in Nat /\ Cardinality(OpenHeld) \in Nat
           /\ Cardinality(Handshaking) \in Nat /\ Cardinality(Measuring) \in Nat
           /\ OpenHeld \subseteq Expecters
  <1>1. IoHeld \subseteq Expecters /\ Handshaking \subseteq Connections /\ Measuring \subseteq Connections
    BY DEF IoHeld, Handshaking, Measuring
  <1>2. OpenHeld \subseteq Expecters
    BY DEF OpenHeld, ListenerTypeOK, Claims
  <1>3. IsFiniteSet(IoHeld) /\ IsFiniteSet(OpenHeld) /\ IsFiniteSet(Handshaking) /\ IsFiniteSet(Measuring)
    BY <1>1, <1>2, FS_Subset, ListenerAssumption
  <1> QED
    BY <1>2, <1>3, FS_CardinalityType

\* Nobody takes a permit.
LEMMA PermitsStay ==
    ASSUME ListenerTypeOK, PermitsHold, IoHeld' \subseteq IoHeld, OpenHeld' \subseteq OpenHeld,
           Handshaking' \subseteq Handshaking
    PROVE  PermitsHold'
  <1>1. /\ IsFiniteSet(IoHeld) /\ IsFiniteSet(OpenHeld) /\ IsFiniteSet(Handshaking)
        /\ Cardinality(IoHeld) \in Nat /\ Cardinality(OpenHeld) \in Nat /\ Cardinality(Handshaking) \in Nat
    BY HeldAreFinite
  <1>2. /\ IsFiniteSet(IoHeld') /\ IsFiniteSet(OpenHeld') /\ IsFiniteSet(Handshaking')
        /\ Cardinality(IoHeld') <= Cardinality(IoHeld)
        /\ Cardinality(OpenHeld') <= Cardinality(OpenHeld)
        /\ Cardinality(Handshaking') <= Cardinality(Handshaking)
    BY <1>1, FS_Subset
  <1>3. Cardinality(IoHeld') \in Nat /\ Cardinality(OpenHeld') \in Nat /\ Cardinality(Handshaking') \in Nat
    BY <1>2, FS_CardinalityType
  <1>4. ActiveIo \in Nat /\ PendingOpens \in Nat /\ Handshakes \in Nat
    BY ListenerAssumption
  <1> QED
    BY <1>1, <1>2, <1>3, <1>4 DEF PermitsHold

\* Nothing is measured or drained.
LEMMA SamplesStay ==
    ASSUME SamplesAddUp, Measuring' = Measuring, UNCHANGED measurements
    PROVE  SamplesAddUp'
  BY DEF SamplesAddUp, Measuring, measurements

\* What a oneshot tells is no connection.
LEMMA TellsNoConnection == "closed" \notin Connections /\ "empty" \notin Connections
  <1>1. Connections \cap {"empty", "closed"} = {}
    BY ListenerAssumption
  <1> QED
    BY <1>1

\* Oneshots are at most closed.
LEMMA ChannelsStay ==
    ASSUME ChannelsFit, claim' = claim,
           \A p \in Expecters : oneshot'[p] = oneshot[p] \/ oneshot'[p] = "closed"
    PROVE  ChannelsFit'
  <1> SUFFICES ASSUME NEW p \in Expecters, oneshot'[p] \in Connections
               PROVE  claim'[oneshot'[p]] = [trusted |-> TRUE, open |-> TRUE, id |-> p, token |-> p]
    BY DEF ChannelsFit
  <1>1. oneshot'[p] = oneshot[p]
    BY TellsNoConnection
  <1> QED
    BY <1>1 DEF ChannelsFit

\* Nobody new matches.
LEMMA MatchesStay ==
    ASSUME ListenerTypeOK, MatchesFit, claim' = claim,
           \A p \in Expecters : oneshot'[p] = oneshot[p] \/ oneshot'[p] = "closed",
           \A p \in Expecters : opening'[p] \in {"new", "checked"} => opening[p] \in {"new", "checked"},
           \A c \in Connections : admitting'[c] = "matched" => admitting[c] = "matched"
    PROVE  MatchesFit'
  <1> SUFFICES ASSUME NEW c \in Connections, admitting'[c] = "matched"
               PROVE  /\ claim[c].trusted /\ claim[c].open /\ claim[c].token = claim[c].id
                      /\ oneshot'[claim[c].id] \notin Connections
                      /\ opening'[claim[c].id] \notin {"new", "checked"}
    BY DEF MatchesFit
  <1>1. claim[c].id \in Expecters /\ admitting[c] = "matched"
    BY DEF ListenerTypeOK, Claims
  <1>2. claim[c].trusted /\ claim[c].open /\ claim[c].token = claim[c].id
    BY <1>1 DEF MatchesFit
  <1>3. oneshot'[claim[c].id] \notin Connections
    BY <1>1, TellsNoConnection DEF MatchesFit
  <1>4. opening'[claim[c].id] \notin {"new", "checked"}
    BY <1>1 DEF MatchesFit
  <1> QED
    BY <1>2, <1>3, <1>4

\* An operation looks whether anybody accepts.
LEMMA ExpectChecksKeeps ==
    ASSUME ListenerInv, NEW o \in Expecters, ExpectChecks(o)
    PROVE  ListenerInv'
  <1>0. RegistryInv /\ PermitsHold /\ SamplesAddUp /\ ExpectChecks(o)
    BY DEF ListenerInv
  <1>1. ListenerTypeOK'
    BY <1>0 DEF RegistryInv, ListenerTypeOK, ExpectChecks, listenerTasks, registry, handshakes, measurements
  <1>2. EntriesWait'
    BY <1>0 DEF RegistryInv, EntriesWait, ListenerTypeOK, ExpectChecks, listenerTasks, registry, handshakes, measurements
  <1>3. MatchesFit'
    <2>1. claim' = claim /\ \A p \in Expecters : oneshot'[p] = oneshot[p] \/ oneshot'[p] = "closed"
      BY <1>0 DEF RegistryInv, ListenerTypeOK, ExpectChecks, listenerTasks, registry, handshakes, measurements
    <2>2. \A p \in Expecters : opening'[p] \in {"new", "checked"} => opening[p] \in {"new", "checked"}
      BY <1>0 DEF RegistryInv, ListenerTypeOK, ExpectChecks, listenerTasks, registry, handshakes, measurements
    <2>3. \A e \in Connections : admitting'[e] = "matched" => admitting[e] = "matched"
      BY <1>0 DEF RegistryInv, ListenerTypeOK, ExpectChecks, listenerTasks, registry, handshakes, measurements
    <2> QED
      BY <1>0, <2>1, <2>2, <2>3, MatchesStay DEF RegistryInv
  <1>4. MatchesDiffer'
    BY <1>0 DEF RegistryInv, MatchesDiffer, ListenerTypeOK, ExpectChecks, listenerTasks, registry, handshakes, measurements
  <1>5. ChannelsFit'
    <2>1. claim' = claim /\ \A p \in Expecters : oneshot'[p] = oneshot[p] \/ oneshot'[p] = "closed"
      BY <1>0 DEF RegistryInv, ListenerTypeOK, ExpectChecks, listenerTasks, registry, handshakes, measurements
    <2> QED
      BY <1>0, <2>1, ChannelsStay DEF RegistryInv
  <1>6. NewAreEmpty'
    BY <1>0 DEF RegistryInv, NewAreEmpty, ListenerTypeOK, ExpectChecks, listenerTasks, registry, handshakes, measurements
  <1>7. WaitersFit'
    BY <1>0 DEF RegistryInv, WaitersFit, ListenerTypeOK, EntriesWait, MatchesFit, ExpectChecks, listenerTasks, registry, handshakes, measurements
  <1>8. RegistryInv'
    BY <1>1, <1>2, <1>3, <1>4, <1>5, <1>6, <1>7 DEF RegistryInv
  <1>9. PermitsHold'
    <2>1. IoHeld' \subseteq IoHeld /\ OpenHeld' \subseteq OpenHeld /\ Handshaking' \subseteq Handshaking
      BY <1>0 DEF IoHeld, OpenHeld, Handshaking, Matched, RegistryInv, ListenerTypeOK, ExpectChecks, listenerTasks, registry, handshakes, measurements
    <2> QED
      BY <1>0, <2>1, PermitsStay DEF ListenerInv, RegistryInv
  <1>10. SamplesAddUp'
    <2>1. Measuring' = Measuring /\ UNCHANGED measurements
      BY <1>0 DEF Measuring, RegistryInv, ListenerTypeOK, ExpectChecks, listenerTasks, registry, handshakes, measurements
    <2> QED
      BY <1>0, <2>1, SamplesStay DEF ListenerInv
  <1> QED
    BY <1>8, <1>9, <1>10 DEF ListenerInv

\* An operation gets its channel.
LEMMA AcceptReceivesKeeps ==
    ASSUME ListenerInv, NEW o \in Expecters, AcceptReceives(o)
    PROVE  ListenerInv'
  <1>0. RegistryInv /\ PermitsHold /\ SamplesAddUp /\ AcceptReceives(o)
    BY DEF ListenerInv
  <1>1. ListenerTypeOK'
    BY <1>0 DEF RegistryInv, ListenerTypeOK, AcceptReceives, listenerTasks, registry, handshakes, measurements
  <1>2. EntriesWait'
    BY <1>0 DEF RegistryInv, EntriesWait, ListenerTypeOK, AcceptReceives, listenerTasks, registry, handshakes, measurements
  <1>3. MatchesFit'
    BY <1>0 DEF RegistryInv, MatchesFit, ListenerTypeOK, AcceptReceives, listenerTasks, registry, handshakes, measurements
  <1>4. MatchesDiffer'
    BY <1>0 DEF RegistryInv, MatchesDiffer, ListenerTypeOK, AcceptReceives, listenerTasks, registry, handshakes, measurements
  <1>5. ChannelsFit'
    BY <1>0 DEF RegistryInv, ChannelsFit, ListenerTypeOK, AcceptReceives, listenerTasks, registry, handshakes, measurements
  <1>6. NewAreEmpty'
    BY <1>0 DEF RegistryInv, NewAreEmpty, ListenerTypeOK, AcceptReceives, listenerTasks, registry, handshakes, measurements
  <1>7. WaitersFit'
    BY <1>0 DEF RegistryInv, WaitersFit, ListenerTypeOK, EntriesWait, MatchesFit, AcceptReceives, listenerTasks, registry, handshakes, measurements
  <1>8. RegistryInv'
    BY <1>1, <1>2, <1>3, <1>4, <1>5, <1>6, <1>7 DEF RegistryInv
  <1>9. PermitsHold'
    <2>1. IoHeld' \subseteq IoHeld /\ OpenHeld' \subseteq OpenHeld /\ Handshaking' \subseteq Handshaking
      BY <1>0 DEF IoHeld, OpenHeld, Handshaking, Matched, RegistryInv, ListenerTypeOK, AcceptReceives, listenerTasks, registry, handshakes, measurements
    <2> QED
      BY <1>0, <2>1, PermitsStay DEF ListenerInv, RegistryInv
  <1>10. SamplesAddUp'
    <2>1. Measuring' = Measuring /\ UNCHANGED measurements
      BY <1>0 DEF Measuring, RegistryInv, ListenerTypeOK, AcceptReceives, listenerTasks, registry, handshakes, measurements
    <2> QED
      BY <1>0, <2>1, SamplesStay DEF ListenerInv
  <1> QED
    BY <1>8, <1>9, <1>10 DEF ListenerInv

\* An operation gives up.
LEMMA AcceptGivesUpKeeps ==
    ASSUME ListenerInv, NEW o \in Expecters, AcceptGivesUp(o)
    PROVE  ListenerInv'
  <1>0. RegistryInv /\ PermitsHold /\ SamplesAddUp /\ AcceptGivesUp(o)
    BY DEF ListenerInv
  <1>1. ListenerTypeOK'
    BY <1>0 DEF RegistryInv, ListenerTypeOK, AcceptGivesUp, listenerTasks, registry, handshakes, measurements
  <1>2. EntriesWait'
    BY <1>0 DEF RegistryInv, EntriesWait, ListenerTypeOK, AcceptGivesUp, listenerTasks, registry, handshakes, measurements
  <1>3. MatchesFit'
    BY <1>0 DEF RegistryInv, MatchesFit, ListenerTypeOK, AcceptGivesUp, listenerTasks, registry, handshakes, measurements
  <1>4. MatchesDiffer'
    BY <1>0 DEF RegistryInv, MatchesDiffer, ListenerTypeOK, AcceptGivesUp, listenerTasks, registry, handshakes, measurements
  <1>5. ChannelsFit'
    BY <1>0 DEF RegistryInv, ChannelsFit, ListenerTypeOK, AcceptGivesUp, listenerTasks, registry, handshakes, measurements
  <1>6. NewAreEmpty'
    BY <1>0 DEF RegistryInv, NewAreEmpty, ListenerTypeOK, AcceptGivesUp, listenerTasks, registry, handshakes, measurements
  <1>7. WaitersFit'
    BY <1>0 DEF RegistryInv, WaitersFit, ListenerTypeOK, EntriesWait, MatchesFit, AcceptGivesUp, listenerTasks, registry, handshakes, measurements
  <1>8. RegistryInv'
    BY <1>1, <1>2, <1>3, <1>4, <1>5, <1>6, <1>7 DEF RegistryInv
  <1>9. PermitsHold'
    <2>1. IoHeld' \subseteq IoHeld /\ OpenHeld' \subseteq OpenHeld /\ Handshaking' \subseteq Handshaking
      BY <1>0 DEF IoHeld, OpenHeld, Handshaking, Matched, RegistryInv, ListenerTypeOK, AcceptGivesUp, listenerTasks, registry, handshakes, measurements
    <2> QED
      BY <1>0, <2>1, PermitsStay DEF ListenerInv, RegistryInv
  <1>10. SamplesAddUp'
    <2>1. Measuring' = Measuring /\ UNCHANGED measurements
      BY <1>0 DEF Measuring, RegistryInv, ListenerTypeOK, AcceptGivesUp, listenerTasks, registry, handshakes, measurements
    <2> QED
      BY <1>0, <2>1, SamplesStay DEF ListenerInv
  <1> QED
    BY <1>8, <1>9, <1>10 DEF ListenerInv

\* Its receiver goes.
LEMMA ReceiverGoesKeeps ==
    ASSUME ListenerInv, NEW o \in Expecters, ReceiverGoes(o)
    PROVE  ListenerInv'
  <1>0. RegistryInv /\ PermitsHold /\ SamplesAddUp /\ ReceiverGoes(o)
    BY DEF ListenerInv
  <1>1. ListenerTypeOK'
    BY <1>0 DEF RegistryInv, ListenerTypeOK, ReceiverGoes, listenerTasks, registry, handshakes, measurements
  <1>2. EntriesWait'
    BY <1>0 DEF RegistryInv, EntriesWait, ListenerTypeOK, ReceiverGoes, listenerTasks, registry, handshakes, measurements
  <1>3. MatchesFit'
    <2>1. claim' = claim /\ \A p \in Expecters : oneshot'[p] = oneshot[p] \/ oneshot'[p] = "closed"
      BY <1>0 DEF RegistryInv, ListenerTypeOK, ReceiverGoes, listenerTasks, registry, handshakes, measurements
    <2>2. \A p \in Expecters : opening'[p] \in {"new", "checked"} => opening[p] \in {"new", "checked"}
      BY <1>0 DEF RegistryInv, ListenerTypeOK, ReceiverGoes, listenerTasks, registry, handshakes, measurements
    <2>3. \A e \in Connections : admitting'[e] = "matched" => admitting[e] = "matched"
      BY <1>0 DEF RegistryInv, ListenerTypeOK, ReceiverGoes, listenerTasks, registry, handshakes, measurements
    <2> QED
      BY <1>0, <2>1, <2>2, <2>3, MatchesStay DEF RegistryInv
  <1>4. MatchesDiffer'
    BY <1>0 DEF RegistryInv, MatchesDiffer, ListenerTypeOK, ReceiverGoes, listenerTasks, registry, handshakes, measurements
  <1>5. ChannelsFit'
    <2>1. claim' = claim /\ \A p \in Expecters : oneshot'[p] = oneshot[p] \/ oneshot'[p] = "closed"
      BY <1>0 DEF RegistryInv, ListenerTypeOK, ReceiverGoes, listenerTasks, registry, handshakes, measurements
    <2> QED
      BY <1>0, <2>1, ChannelsStay DEF RegistryInv
  <1>6. NewAreEmpty'
    BY <1>0 DEF RegistryInv, NewAreEmpty, ListenerTypeOK, ReceiverGoes, listenerTasks, registry, handshakes, measurements
  <1>7. WaitersFit'
    BY <1>0 DEF RegistryInv, WaitersFit, ListenerTypeOK, EntriesWait, MatchesFit, ReceiverGoes, listenerTasks, registry, handshakes, measurements
  <1>8. RegistryInv'
    BY <1>1, <1>2, <1>3, <1>4, <1>5, <1>6, <1>7 DEF RegistryInv
  <1>9. PermitsHold'
    <2>1. IoHeld' \subseteq IoHeld /\ OpenHeld' \subseteq OpenHeld /\ Handshaking' \subseteq Handshaking
      BY <1>0 DEF IoHeld, OpenHeld, Handshaking, Matched, RegistryInv, ListenerTypeOK, ReceiverGoes, listenerTasks, registry, handshakes, measurements
    <2> QED
      BY <1>0, <2>1, PermitsStay DEF ListenerInv, RegistryInv
  <1>10. SamplesAddUp'
    <2>1. Measuring' = Measuring /\ UNCHANGED measurements
      BY <1>0 DEF Measuring, RegistryInv, ListenerTypeOK, ReceiverGoes, listenerTasks, registry, handshakes, measurements
    <2> QED
      BY <1>0, <2>1, SamplesStay DEF ListenerInv
  <1> QED
    BY <1>8, <1>9, <1>10 DEF ListenerInv

\* An operation is done with its channel.
LEMMA ChannelEndsKeeps ==
    ASSUME ListenerInv, NEW o \in Expecters, ChannelEnds(o)
    PROVE  ListenerInv'
  <1>0. RegistryInv /\ PermitsHold /\ SamplesAddUp /\ ChannelEnds(o)
    BY DEF ListenerInv
  <1>1. ListenerTypeOK'
    BY <1>0 DEF RegistryInv, ListenerTypeOK, ChannelEnds, listenerTasks, registry, handshakes, measurements
  <1>2. EntriesWait'
    BY <1>0 DEF RegistryInv, EntriesWait, ListenerTypeOK, ChannelEnds, listenerTasks, registry, handshakes, measurements
  <1>3. MatchesFit'
    <2>1. claim' = claim /\ \A p \in Expecters : oneshot'[p] = oneshot[p] \/ oneshot'[p] = "closed"
      BY <1>0 DEF RegistryInv, ListenerTypeOK, ChannelEnds, listenerTasks, registry, handshakes, measurements
    <2>2. \A p \in Expecters : opening'[p] \in {"new", "checked"} => opening[p] \in {"new", "checked"}
      BY <1>0 DEF RegistryInv, ListenerTypeOK, ChannelEnds, listenerTasks, registry, handshakes, measurements
    <2>3. \A e \in Connections : admitting'[e] = "matched" => admitting[e] = "matched"
      BY <1>0 DEF RegistryInv, ListenerTypeOK, ChannelEnds, listenerTasks, registry, handshakes, measurements
    <2> QED
      BY <1>0, <2>1, <2>2, <2>3, MatchesStay DEF RegistryInv
  <1>4. MatchesDiffer'
    BY <1>0 DEF RegistryInv, MatchesDiffer, ListenerTypeOK, ChannelEnds, listenerTasks, registry, handshakes, measurements
  <1>5. ChannelsFit'
    <2>1. claim' = claim /\ \A p \in Expecters : oneshot'[p] = oneshot[p] \/ oneshot'[p] = "closed"
      BY <1>0 DEF RegistryInv, ListenerTypeOK, ChannelEnds, listenerTasks, registry, handshakes, measurements
    <2> QED
      BY <1>0, <2>1, ChannelsStay DEF RegistryInv
  <1>6. NewAreEmpty'
    BY <1>0 DEF RegistryInv, NewAreEmpty, ListenerTypeOK, ChannelEnds, listenerTasks, registry, handshakes, measurements
  <1>7. WaitersFit'
    BY <1>0 DEF RegistryInv, WaitersFit, ListenerTypeOK, EntriesWait, MatchesFit, ChannelEnds, listenerTasks, registry, handshakes, measurements
  <1>8. RegistryInv'
    BY <1>1, <1>2, <1>3, <1>4, <1>5, <1>6, <1>7 DEF RegistryInv
  <1>9. PermitsHold'
    <2>1. IoHeld' \subseteq IoHeld /\ OpenHeld' \subseteq OpenHeld /\ Handshaking' \subseteq Handshaking
      BY <1>0 DEF IoHeld, OpenHeld, Handshaking, Matched, RegistryInv, ListenerTypeOK, ChannelEnds, listenerTasks, registry, handshakes, measurements
    <2> QED
      BY <1>0, <2>1, PermitsStay DEF ListenerInv, RegistryInv
  <1>10. SamplesAddUp'
    <2>1. Measuring' = Measuring /\ UNCHANGED measurements
      BY <1>0 DEF Measuring, RegistryInv, ListenerTypeOK, ChannelEnds, listenerTasks, registry, handshakes, measurements
    <2> QED
      BY <1>0, <2>1, SamplesStay DEF ListenerInv
  <1> QED
    BY <1>8, <1>9, <1>10 DEF ListenerInv

\* A peer connects.
LEMMA ConnectsKeeps ==
    ASSUME ListenerInv, NEW c \in Connections, Connects(c)
    PROVE  ListenerInv'
  <1>0. RegistryInv /\ PermitsHold /\ SamplesAddUp /\ Connects(c)
    BY DEF ListenerInv
  <1>1. ListenerTypeOK'
    BY <1>0 DEF RegistryInv, ListenerTypeOK, Connects, listenerTasks, registry, handshakes, measurements
  <1>2. EntriesWait'
    BY <1>0 DEF RegistryInv, EntriesWait, ListenerTypeOK, Connects, listenerTasks, registry, handshakes, measurements
  <1>3. MatchesFit'
    BY <1>0 DEF RegistryInv, MatchesFit, ListenerTypeOK, Connects, listenerTasks, registry, handshakes, measurements
  <1>4. MatchesDiffer'
    BY <1>0 DEF RegistryInv, MatchesDiffer, ListenerTypeOK, Connects, listenerTasks, registry, handshakes, measurements
  <1>5. ChannelsFit'
    BY <1>0 DEF RegistryInv, ChannelsFit, ListenerTypeOK, Connects, listenerTasks, registry, handshakes, measurements
  <1>6. NewAreEmpty'
    BY <1>0 DEF RegistryInv, NewAreEmpty, ListenerTypeOK, Connects, listenerTasks, registry, handshakes, measurements
  <1>7. WaitersFit'
    BY <1>0 DEF RegistryInv, WaitersFit, ListenerTypeOK, EntriesWait, MatchesFit, Connects, listenerTasks, registry, handshakes, measurements
  <1>8. RegistryInv'
    BY <1>1, <1>2, <1>3, <1>4, <1>5, <1>6, <1>7 DEF RegistryInv
  <1>9. PermitsHold'
    <2>1. IoHeld' \subseteq IoHeld /\ OpenHeld' \subseteq OpenHeld /\ Handshaking' \subseteq Handshaking
      BY <1>0 DEF IoHeld, OpenHeld, Handshaking, Matched, RegistryInv, ListenerTypeOK, Connects, listenerTasks, registry, handshakes, measurements
    <2> QED
      BY <1>0, <2>1, PermitsStay DEF ListenerInv, RegistryInv
  <1>10. SamplesAddUp'
    <2>1. Measuring' = Measuring /\ UNCHANGED measurements
      BY <1>0 DEF Measuring, RegistryInv, ListenerTypeOK, Connects, listenerTasks, registry, handshakes, measurements
    <2> QED
      BY <1>0, <2>1, SamplesStay DEF ListenerInv
  <1> QED
    BY <1>8, <1>9, <1>10 DEF ListenerInv

\* A connection is refused.
LEMMA RefusedKeeps ==
    ASSUME ListenerInv, NEW c \in Connections, Refused(c)
    PROVE  ListenerInv'
  <1>0. RegistryInv /\ PermitsHold /\ SamplesAddUp /\ Refused(c)
    BY DEF ListenerInv
  <1>1. ListenerTypeOK'
    BY <1>0 DEF RegistryInv, ListenerTypeOK, Refused, listenerTasks, registry, handshakes, measurements
  <1>2. EntriesWait'
    BY <1>0 DEF RegistryInv, EntriesWait, ListenerTypeOK, Refused, listenerTasks, registry, handshakes, measurements
  <1>3. MatchesFit'
    BY <1>0 DEF RegistryInv, MatchesFit, ListenerTypeOK, Refused, listenerTasks, registry, handshakes, measurements
  <1>4. MatchesDiffer'
    BY <1>0 DEF RegistryInv, MatchesDiffer, ListenerTypeOK, Refused, listenerTasks, registry, handshakes, measurements
  <1>5. ChannelsFit'
    BY <1>0 DEF RegistryInv, ChannelsFit, ListenerTypeOK, Refused, listenerTasks, registry, handshakes, measurements
  <1>6. NewAreEmpty'
    BY <1>0 DEF RegistryInv, NewAreEmpty, ListenerTypeOK, Refused, listenerTasks, registry, handshakes, measurements
  <1>7. WaitersFit'
    BY <1>0 DEF RegistryInv, WaitersFit, ListenerTypeOK, EntriesWait, MatchesFit, Refused, listenerTasks, registry, handshakes, measurements
  <1>8. RegistryInv'
    BY <1>1, <1>2, <1>3, <1>4, <1>5, <1>6, <1>7 DEF RegistryInv
  <1>9. PermitsHold'
    <2>1. IoHeld' \subseteq IoHeld /\ OpenHeld' \subseteq OpenHeld /\ Handshaking' \subseteq Handshaking
      BY <1>0 DEF IoHeld, OpenHeld, Handshaking, Matched, RegistryInv, ListenerTypeOK, Refused, listenerTasks, registry, handshakes, measurements
    <2> QED
      BY <1>0, <2>1, PermitsStay DEF ListenerInv, RegistryInv
  <1>10. SamplesAddUp'
    <2>1. Measuring' = Measuring /\ UNCHANGED measurements
      BY <1>0 DEF Measuring, RegistryInv, ListenerTypeOK, Refused, listenerTasks, registry, handshakes, measurements
    <2> QED
      BY <1>0, <2>1, SamplesStay DEF ListenerInv
  <1> QED
    BY <1>8, <1>9, <1>10 DEF ListenerInv

\* accept backs off.
LEMMA AcceptBacksOffKeeps ==
    ASSUME ListenerInv, AcceptBacksOff
    PROVE  ListenerInv'
  <1>0. RegistryInv /\ PermitsHold /\ SamplesAddUp /\ AcceptBacksOff
    BY DEF ListenerInv
  <1>1. ListenerTypeOK'
    BY <1>0 DEF RegistryInv, ListenerTypeOK, AcceptBacksOff, listenerTasks, registry, handshakes, measurements
  <1>2. EntriesWait'
    BY <1>0 DEF RegistryInv, EntriesWait, ListenerTypeOK, AcceptBacksOff, listenerTasks, registry, handshakes, measurements
  <1>3. MatchesFit'
    BY <1>0 DEF RegistryInv, MatchesFit, ListenerTypeOK, AcceptBacksOff, listenerTasks, registry, handshakes, measurements
  <1>4. MatchesDiffer'
    BY <1>0 DEF RegistryInv, MatchesDiffer, ListenerTypeOK, AcceptBacksOff, listenerTasks, registry, handshakes, measurements
  <1>5. ChannelsFit'
    BY <1>0 DEF RegistryInv, ChannelsFit, ListenerTypeOK, AcceptBacksOff, listenerTasks, registry, handshakes, measurements
  <1>6. NewAreEmpty'
    BY <1>0 DEF RegistryInv, NewAreEmpty, ListenerTypeOK, AcceptBacksOff, listenerTasks, registry, handshakes, measurements
  <1>7. WaitersFit'
    BY <1>0 DEF RegistryInv, WaitersFit, ListenerTypeOK, EntriesWait, MatchesFit, AcceptBacksOff, listenerTasks, registry, handshakes, measurements
  <1>8. RegistryInv'
    BY <1>1, <1>2, <1>3, <1>4, <1>5, <1>6, <1>7 DEF RegistryInv
  <1>9. PermitsHold'
    <2>1. IoHeld' \subseteq IoHeld /\ OpenHeld' \subseteq OpenHeld /\ Handshaking' \subseteq Handshaking
      BY <1>0 DEF IoHeld, OpenHeld, Handshaking, Matched, RegistryInv, ListenerTypeOK, AcceptBacksOff, listenerTasks, registry, handshakes, measurements
    <2> QED
      BY <1>0, <2>1, PermitsStay DEF ListenerInv, RegistryInv
  <1>10. SamplesAddUp'
    <2>1. Measuring' = Measuring /\ UNCHANGED measurements
      BY <1>0 DEF Measuring, RegistryInv, ListenerTypeOK, AcceptBacksOff, listenerTasks, registry, handshakes, measurements
    <2> QED
      BY <1>0, <2>1, SamplesStay DEF ListenerInv
  <1> QED
    BY <1>8, <1>9, <1>10 DEF ListenerInv

\* accept fails.
LEMMA AcceptFailsKeeps ==
    ASSUME ListenerInv, AcceptFails
    PROVE  ListenerInv'
  <1>0. RegistryInv /\ PermitsHold /\ SamplesAddUp /\ AcceptFails
    BY DEF ListenerInv
  <1>1. ListenerTypeOK'
    BY <1>0 DEF RegistryInv, ListenerTypeOK, AcceptFails, listenerTasks, registry, handshakes, measurements
  <1>2. EntriesWait'
    BY <1>0 DEF RegistryInv, EntriesWait, ListenerTypeOK, AcceptFails, listenerTasks, registry, handshakes, measurements
  <1>3. MatchesFit'
    BY <1>0 DEF RegistryInv, MatchesFit, ListenerTypeOK, AcceptFails, listenerTasks, registry, handshakes, measurements
  <1>4. MatchesDiffer'
    BY <1>0 DEF RegistryInv, MatchesDiffer, ListenerTypeOK, AcceptFails, listenerTasks, registry, handshakes, measurements
  <1>5. ChannelsFit'
    BY <1>0 DEF RegistryInv, ChannelsFit, ListenerTypeOK, AcceptFails, listenerTasks, registry, handshakes, measurements
  <1>6. NewAreEmpty'
    BY <1>0 DEF RegistryInv, NewAreEmpty, ListenerTypeOK, AcceptFails, listenerTasks, registry, handshakes, measurements
  <1>7. WaitersFit'
    BY <1>0 DEF RegistryInv, WaitersFit, ListenerTypeOK, EntriesWait, MatchesFit, AcceptFails, listenerTasks, registry, handshakes, measurements
  <1>8. RegistryInv'
    BY <1>1, <1>2, <1>3, <1>4, <1>5, <1>6, <1>7 DEF RegistryInv
  <1>9. PermitsHold'
    <2>1. IoHeld' \subseteq IoHeld /\ OpenHeld' \subseteq OpenHeld /\ Handshaking' \subseteq Handshaking
      BY <1>0 DEF IoHeld, OpenHeld, Handshaking, Matched, RegistryInv, ListenerTypeOK, AcceptFails, listenerTasks, registry, handshakes, measurements
    <2> QED
      BY <1>0, <2>1, PermitsStay DEF ListenerInv, RegistryInv
  <1>10. SamplesAddUp'
    <2>1. Measuring' = Measuring /\ UNCHANGED measurements
      BY <1>0 DEF Measuring, RegistryInv, ListenerTypeOK, AcceptFails, listenerTasks, registry, handshakes, measurements
    <2> QED
      BY <1>0, <2>1, SamplesStay DEF ListenerInv
  <1> QED
    BY <1>8, <1>9, <1>10 DEF ListenerInv

\* A fatal error forgets every expectation.
LEMMA FailureClearsKeeps ==
    ASSUME ListenerInv, FailureClears
    PROVE  ListenerInv'
  <1>0. RegistryInv /\ PermitsHold /\ SamplesAddUp /\ FailureClears
    BY DEF ListenerInv
  <1>1. ListenerTypeOK'
    BY <1>0 DEF RegistryInv, ListenerTypeOK, FailureClears, listenerTasks, registry, handshakes, measurements, Dropped
  <1>2. EntriesWait'
    BY <1>0 DEF RegistryInv, EntriesWait, ListenerTypeOK, FailureClears, listenerTasks, registry, handshakes, measurements, Dropped
  <1>3. MatchesFit'
    <2>1. claim' = claim /\ \A p \in Expecters : oneshot'[p] = oneshot[p] \/ oneshot'[p] = "closed"
      BY <1>0 DEF RegistryInv, ListenerTypeOK, FailureClears, listenerTasks, registry, handshakes, measurements, Dropped
    <2>2. \A p \in Expecters : opening'[p] \in {"new", "checked"} => opening[p] \in {"new", "checked"}
      BY <1>0 DEF RegistryInv, ListenerTypeOK, FailureClears, listenerTasks, registry, handshakes, measurements, Dropped
    <2>3. \A e \in Connections : admitting'[e] = "matched" => admitting[e] = "matched"
      BY <1>0 DEF RegistryInv, ListenerTypeOK, FailureClears, listenerTasks, registry, handshakes, measurements, Dropped
    <2> QED
      BY <1>0, <2>1, <2>2, <2>3, MatchesStay DEF RegistryInv
  <1>4. MatchesDiffer'
    BY <1>0 DEF RegistryInv, MatchesDiffer, ListenerTypeOK, FailureClears, listenerTasks, registry, handshakes, measurements, Dropped
  <1>5. ChannelsFit'
    <2>1. claim' = claim /\ \A p \in Expecters : oneshot'[p] = oneshot[p] \/ oneshot'[p] = "closed"
      BY <1>0 DEF RegistryInv, ListenerTypeOK, FailureClears, listenerTasks, registry, handshakes, measurements, Dropped
    <2> QED
      BY <1>0, <2>1, ChannelsStay DEF RegistryInv
  <1>6. NewAreEmpty'
    <2>1. \A p \in Expecters : opening'[p] = opening[p] /\ (p \notin expectations => oneshot'[p] = oneshot[p])
      BY <1>0 DEF RegistryInv, ListenerTypeOK, FailureClears, listenerTasks, registry, handshakes, measurements, Dropped
    <2>2. \A p \in expectations : opening[p] = "waiting"
      BY <1>0 DEF RegistryInv, EntriesWait
    <2> QED
      BY <1>0, <2>1, <2>2 DEF RegistryInv, NewAreEmpty
  <1>7. WaitersFit'
    BY <1>0 DEF RegistryInv, WaitersFit, ListenerTypeOK, EntriesWait, MatchesFit, FailureClears, listenerTasks, registry, handshakes, measurements, Dropped
  <1>8. RegistryInv'
    BY <1>1, <1>2, <1>3, <1>4, <1>5, <1>6, <1>7 DEF RegistryInv
  <1>9. PermitsHold'
    <2>1. IoHeld' \subseteq IoHeld /\ OpenHeld' \subseteq OpenHeld /\ Handshaking' \subseteq Handshaking
      BY <1>0 DEF IoHeld, OpenHeld, Handshaking, Matched, RegistryInv, ListenerTypeOK, FailureClears, listenerTasks, registry, handshakes, measurements, Dropped
    <2> QED
      BY <1>0, <2>1, PermitsStay DEF ListenerInv, RegistryInv
  <1>10. SamplesAddUp'
    <2>1. Measuring' = Measuring /\ UNCHANGED measurements
      BY <1>0 DEF Measuring, RegistryInv, ListenerTypeOK, FailureClears, listenerTasks, registry, handshakes, measurements, Dropped
    <2> QED
      BY <1>0, <2>1, SamplesStay DEF ListenerInv
  <1> QED
    BY <1>8, <1>9, <1>10 DEF ListenerInv

\* The accept task ends.
LEMMA AcceptTaskEndsKeeps ==
    ASSUME ListenerInv, AcceptTaskEnds
    PROVE  ListenerInv'
  <1>0. RegistryInv /\ PermitsHold /\ SamplesAddUp /\ AcceptTaskEnds
    BY DEF ListenerInv
  <1>1. ListenerTypeOK'
    BY <1>0 DEF RegistryInv, ListenerTypeOK, AcceptTaskEnds, listenerTasks, registry, handshakes, measurements
  <1>2. EntriesWait'
    BY <1>0 DEF RegistryInv, EntriesWait, ListenerTypeOK, AcceptTaskEnds, listenerTasks, registry, handshakes, measurements
  <1>3. MatchesFit'
    BY <1>0 DEF RegistryInv, MatchesFit, ListenerTypeOK, AcceptTaskEnds, listenerTasks, registry, handshakes, measurements
  <1>4. MatchesDiffer'
    BY <1>0 DEF RegistryInv, MatchesDiffer, ListenerTypeOK, AcceptTaskEnds, listenerTasks, registry, handshakes, measurements
  <1>5. ChannelsFit'
    BY <1>0 DEF RegistryInv, ChannelsFit, ListenerTypeOK, AcceptTaskEnds, listenerTasks, registry, handshakes, measurements
  <1>6. NewAreEmpty'
    BY <1>0 DEF RegistryInv, NewAreEmpty, ListenerTypeOK, AcceptTaskEnds, listenerTasks, registry, handshakes, measurements
  <1>7. WaitersFit'
    BY <1>0 DEF RegistryInv, WaitersFit, ListenerTypeOK, EntriesWait, MatchesFit, AcceptTaskEnds, listenerTasks, registry, handshakes, measurements
  <1>8. RegistryInv'
    BY <1>1, <1>2, <1>3, <1>4, <1>5, <1>6, <1>7 DEF RegistryInv
  <1>9. PermitsHold'
    <2>1. IoHeld' \subseteq IoHeld /\ OpenHeld' \subseteq OpenHeld /\ Handshaking' \subseteq Handshaking
      BY <1>0 DEF IoHeld, OpenHeld, Handshaking, Matched, RegistryInv, ListenerTypeOK, AcceptTaskEnds, listenerTasks, registry, handshakes, measurements
    <2> QED
      BY <1>0, <2>1, PermitsStay DEF ListenerInv, RegistryInv
  <1>10. SamplesAddUp'
    <2>1. Measuring' = Measuring /\ UNCHANGED measurements
      BY <1>0 DEF Measuring, RegistryInv, ListenerTypeOK, AcceptTaskEnds, listenerTasks, registry, handshakes, measurements
    <2> QED
      BY <1>0, <2>1, SamplesStay DEF ListenerInv
  <1> QED
    BY <1>8, <1>9, <1>10 DEF ListenerInv

\* The listener is dropped: its task is aborted
LEMMA ListenerAbortsKeeps ==
    ASSUME ListenerInv, ListenerAborts
    PROVE  ListenerInv'
  <1>0. RegistryInv /\ PermitsHold /\ SamplesAddUp /\ ListenerAborts
    BY DEF ListenerInv
  <1>1. ListenerTypeOK'
    BY <1>0 DEF RegistryInv, ListenerTypeOK, ListenerAborts, listenerTasks, registry, handshakes, measurements
  <1>2. EntriesWait'
    BY <1>0 DEF RegistryInv, EntriesWait, ListenerTypeOK, ListenerAborts, listenerTasks, registry, handshakes, measurements
  <1>3. MatchesFit'
    BY <1>0 DEF RegistryInv, MatchesFit, ListenerTypeOK, ListenerAborts, listenerTasks, registry, handshakes, measurements
  <1>4. MatchesDiffer'
    BY <1>0 DEF RegistryInv, MatchesDiffer, ListenerTypeOK, ListenerAborts, listenerTasks, registry, handshakes, measurements
  <1>5. ChannelsFit'
    BY <1>0 DEF RegistryInv, ChannelsFit, ListenerTypeOK, ListenerAborts, listenerTasks, registry, handshakes, measurements
  <1>6. NewAreEmpty'
    BY <1>0 DEF RegistryInv, NewAreEmpty, ListenerTypeOK, ListenerAborts, listenerTasks, registry, handshakes, measurements
  <1>7. WaitersFit'
    BY <1>0 DEF RegistryInv, WaitersFit, ListenerTypeOK, EntriesWait, MatchesFit, ListenerAborts, listenerTasks, registry, handshakes, measurements
  <1>8. RegistryInv'
    BY <1>1, <1>2, <1>3, <1>4, <1>5, <1>6, <1>7 DEF RegistryInv
  <1>9. PermitsHold'
    <2>1. IoHeld' \subseteq IoHeld /\ OpenHeld' \subseteq OpenHeld /\ Handshaking' \subseteq Handshaking
      BY <1>0 DEF IoHeld, OpenHeld, Handshaking, Matched, RegistryInv, ListenerTypeOK, ListenerAborts, listenerTasks, registry, handshakes, measurements
    <2> QED
      BY <1>0, <2>1, PermitsStay DEF ListenerInv, RegistryInv
  <1>10. SamplesAddUp'
    <2>1. Measuring' = Measuring /\ UNCHANGED measurements
      BY <1>0 DEF Measuring, RegistryInv, ListenerTypeOK, ListenerAborts, listenerTasks, registry, handshakes, measurements
    <2> QED
      BY <1>0, <2>1, SamplesStay DEF ListenerInv
  <1> QED
    BY <1>8, <1>9, <1>10 DEF ListenerInv

\* and its expectations are forgotten.
LEMMA ListenerClearsKeeps ==
    ASSUME ListenerInv, ListenerClears
    PROVE  ListenerInv'
  <1>0. RegistryInv /\ PermitsHold /\ SamplesAddUp /\ ListenerClears
    BY DEF ListenerInv
  <1>1. ListenerTypeOK'
    BY <1>0 DEF RegistryInv, ListenerTypeOK, ListenerClears, listenerTasks, registry, handshakes, measurements, Dropped
  <1>2. EntriesWait'
    BY <1>0 DEF RegistryInv, EntriesWait, ListenerTypeOK, ListenerClears, listenerTasks, registry, handshakes, measurements, Dropped
  <1>3. MatchesFit'
    <2>1. claim' = claim /\ \A p \in Expecters : oneshot'[p] = oneshot[p] \/ oneshot'[p] = "closed"
      BY <1>0 DEF RegistryInv, ListenerTypeOK, ListenerClears, listenerTasks, registry, handshakes, measurements, Dropped
    <2>2. \A p \in Expecters : opening'[p] \in {"new", "checked"} => opening[p] \in {"new", "checked"}
      BY <1>0 DEF RegistryInv, ListenerTypeOK, ListenerClears, listenerTasks, registry, handshakes, measurements, Dropped
    <2>3. \A e \in Connections : admitting'[e] = "matched" => admitting[e] = "matched"
      BY <1>0 DEF RegistryInv, ListenerTypeOK, ListenerClears, listenerTasks, registry, handshakes, measurements, Dropped
    <2> QED
      BY <1>0, <2>1, <2>2, <2>3, MatchesStay DEF RegistryInv
  <1>4. MatchesDiffer'
    BY <1>0 DEF RegistryInv, MatchesDiffer, ListenerTypeOK, ListenerClears, listenerTasks, registry, handshakes, measurements, Dropped
  <1>5. ChannelsFit'
    <2>1. claim' = claim /\ \A p \in Expecters : oneshot'[p] = oneshot[p] \/ oneshot'[p] = "closed"
      BY <1>0 DEF RegistryInv, ListenerTypeOK, ListenerClears, listenerTasks, registry, handshakes, measurements, Dropped
    <2> QED
      BY <1>0, <2>1, ChannelsStay DEF RegistryInv
  <1>6. NewAreEmpty'
    <2>1. \A p \in Expecters : opening'[p] = opening[p] /\ (p \notin expectations => oneshot'[p] = oneshot[p])
      BY <1>0 DEF RegistryInv, ListenerTypeOK, ListenerClears, listenerTasks, registry, handshakes, measurements, Dropped
    <2>2. \A p \in expectations : opening[p] = "waiting"
      BY <1>0 DEF RegistryInv, EntriesWait
    <2> QED
      BY <1>0, <2>1, <2>2 DEF RegistryInv, NewAreEmpty
  <1>7. WaitersFit'
    BY <1>0 DEF RegistryInv, WaitersFit, ListenerTypeOK, EntriesWait, MatchesFit, ListenerClears, listenerTasks, registry, handshakes, measurements, Dropped
  <1>8. RegistryInv'
    BY <1>1, <1>2, <1>3, <1>4, <1>5, <1>6, <1>7 DEF RegistryInv
  <1>9. PermitsHold'
    <2>1. IoHeld' \subseteq IoHeld /\ OpenHeld' \subseteq OpenHeld /\ Handshaking' \subseteq Handshaking
      BY <1>0 DEF IoHeld, OpenHeld, Handshaking, Matched, RegistryInv, ListenerTypeOK, ListenerClears, listenerTasks, registry, handshakes, measurements, Dropped
    <2> QED
      BY <1>0, <2>1, PermitsStay DEF ListenerInv, RegistryInv
  <1>10. SamplesAddUp'
    <2>1. Measuring' = Measuring /\ UNCHANGED measurements
      BY <1>0 DEF Measuring, RegistryInv, ListenerTypeOK, ListenerClears, listenerTasks, registry, handshakes, measurements, Dropped
    <2> QED
      BY <1>0, <2>1, SamplesStay DEF ListenerInv
  <1> QED
    BY <1>8, <1>9, <1>10 DEF ListenerInv

\* A connection takes its expectation.
LEMMA MatchesKeeps ==
    ASSUME ListenerInv, NEW c \in Connections, Matches(c)
    PROVE  ListenerInv'
  <1>0. RegistryInv /\ PermitsHold /\ SamplesAddUp /\ Matches(c)
    BY DEF ListenerInv
  <1>1. ListenerTypeOK'
    BY <1>0 DEF RegistryInv, ListenerTypeOK, Matches, listenerTasks, registry, handshakes, measurements, Admissible
  <1>2. EntriesWait'
    BY <1>0 DEF RegistryInv, EntriesWait, ListenerTypeOK, Matches, listenerTasks, registry, handshakes, measurements, Admissible
  <1>3. MatchesFit'
    <2>1. claim' = claim /\ oneshot' = oneshot /\ opening' = opening /\ claim[c].id \in expectations
      BY <1>0 DEF Matches, listenerTasks, registry, handshakes, measurements, Admissible
    <2>2. \A e \in Connections : e # c /\ admitting'[e] = "matched" => admitting[e] = "matched"
      BY <1>0 DEF RegistryInv, ListenerTypeOK, Matches, listenerTasks, registry, handshakes, measurements, Admissible
    <2>3. claim[c].trusted /\ claim[c].open /\ claim[c].token = claim[c].id
      BY <1>0 DEF Matches, listenerTasks, registry, handshakes, measurements, Admissible
    <2>4. oneshot[claim[c].id] \notin Connections /\ opening[claim[c].id] \notin {"new", "checked"}
      BY <1>0, <2>1, TellsNoConnection DEF RegistryInv, EntriesWait
    <2> QED
      BY <1>0, <2>1, <2>2, <2>3, <2>4 DEF RegistryInv, MatchesFit
  <1>4. MatchesDiffer'
    <2>1. claim' = claim /\ claim[c].id \in expectations
      BY <1>0 DEF Matches, listenerTasks, registry, handshakes, measurements, Admissible
    <2>2. \A e \in Connections : e # c /\ admitting'[e] = "matched" => admitting[e] = "matched"
      BY <1>0 DEF RegistryInv, ListenerTypeOK, Matches, listenerTasks, registry, handshakes, measurements, Admissible
    <2>3. \A e \in Connections : admitting[e] = "matched" => claim[e].id # claim[c].id
      BY <1>0, <2>1 DEF RegistryInv, EntriesWait
    <2> QED
      BY <1>0, <2>1, <2>2, <2>3 DEF RegistryInv, MatchesDiffer
  <1>5. ChannelsFit'
    BY <1>0 DEF RegistryInv, ChannelsFit, ListenerTypeOK, Matches, listenerTasks, registry, handshakes, measurements, Admissible
  <1>6. NewAreEmpty'
    BY <1>0 DEF RegistryInv, NewAreEmpty, ListenerTypeOK, Matches, listenerTasks, registry, handshakes, measurements, Admissible
  <1>7. WaitersFit'
    BY <1>0 DEF RegistryInv, WaitersFit, ListenerTypeOK, EntriesWait, MatchesFit, Matches, listenerTasks, registry, handshakes, measurements, Admissible
  <1>8. RegistryInv'
    BY <1>1, <1>2, <1>3, <1>4, <1>5, <1>6, <1>7 DEF RegistryInv
  <1>9. PermitsHold'
    <2>1. IoHeld' \subseteq IoHeld /\ OpenHeld' \subseteq OpenHeld /\ Handshaking' \subseteq Handshaking
      BY <1>0 DEF IoHeld, OpenHeld, Handshaking, Matched, RegistryInv, ListenerTypeOK, Matches, listenerTasks, registry, handshakes, measurements, Admissible
    <2> QED
      BY <1>0, <2>1, PermitsStay DEF ListenerInv, RegistryInv
  <1>10. SamplesAddUp'
    <2>1. Measuring' = Measuring /\ UNCHANGED measurements
      BY <1>0 DEF Measuring, RegistryInv, ListenerTypeOK, Matches, listenerTasks, registry, handshakes, measurements, Admissible
    <2> QED
      BY <1>0, <2>1, SamplesStay DEF ListenerInv
  <1> QED
    BY <1>8, <1>9, <1>10 DEF ListenerInv

\* A match is lost before the hand-over.
LEMMA MatchLostKeeps ==
    ASSUME ListenerInv, NEW c \in Connections, MatchLost(c)
    PROVE  ListenerInv'
  <1>0. RegistryInv /\ PermitsHold /\ SamplesAddUp /\ MatchLost(c)
    BY DEF ListenerInv
  <1>1. ListenerTypeOK'
    BY <1>0 DEF RegistryInv, ListenerTypeOK, MatchLost, listenerTasks, registry, handshakes, measurements, Dropped
  <1>2. EntriesWait'
    BY <1>0 DEF RegistryInv, EntriesWait, ListenerTypeOK, MatchLost, listenerTasks, registry, handshakes, measurements, Dropped
  <1>3. MatchesFit'
    <2>1. claim' = claim /\ \A p \in Expecters : oneshot'[p] = oneshot[p] \/ oneshot'[p] = "closed"
      BY <1>0 DEF RegistryInv, ListenerTypeOK, MatchLost, listenerTasks, registry, handshakes, measurements, Dropped
    <2>2. \A p \in Expecters : opening'[p] \in {"new", "checked"} => opening[p] \in {"new", "checked"}
      BY <1>0 DEF RegistryInv, ListenerTypeOK, MatchLost, listenerTasks, registry, handshakes, measurements, Dropped
    <2>3. \A e \in Connections : admitting'[e] = "matched" => admitting[e] = "matched"
      BY <1>0 DEF RegistryInv, ListenerTypeOK, MatchLost, listenerTasks, registry, handshakes, measurements, Dropped
    <2> QED
      BY <1>0, <2>1, <2>2, <2>3, MatchesStay DEF RegistryInv
  <1>4. MatchesDiffer'
    BY <1>0 DEF RegistryInv, MatchesDiffer, ListenerTypeOK, MatchLost, listenerTasks, registry, handshakes, measurements, Dropped
  <1>5. ChannelsFit'
    <2>1. claim' = claim /\ \A p \in Expecters : oneshot'[p] = oneshot[p] \/ oneshot'[p] = "closed"
      BY <1>0 DEF RegistryInv, ListenerTypeOK, MatchLost, listenerTasks, registry, handshakes, measurements, Dropped
    <2> QED
      BY <1>0, <2>1, ChannelsStay DEF RegistryInv
  <1>6. NewAreEmpty'
    <2>1. \A p \in Expecters : opening'[p] = opening[p] /\ (p # claim[c].id => oneshot'[p] = oneshot[p])
      BY <1>0 DEF RegistryInv, ListenerTypeOK, MatchLost, listenerTasks, registry, handshakes, measurements, Dropped
    <2>2. opening[claim[c].id] \notin {"new", "checked"}
      BY <1>0 DEF RegistryInv, MatchesFit, MatchLost
    <2> QED
      BY <1>0, <2>1, <2>2 DEF RegistryInv, NewAreEmpty
  <1>7. WaitersFit'
    BY <1>0 DEF RegistryInv, WaitersFit, ListenerTypeOK, EntriesWait, MatchesFit, MatchLost, listenerTasks, registry, handshakes, measurements, Dropped
  <1>8. RegistryInv'
    BY <1>1, <1>2, <1>3, <1>4, <1>5, <1>6, <1>7 DEF RegistryInv
  <1>9. PermitsHold'
    <2>1. IoHeld' \subseteq IoHeld /\ OpenHeld' \subseteq OpenHeld /\ Handshaking' \subseteq Handshaking
      BY <1>0 DEF IoHeld, OpenHeld, Handshaking, Matched, RegistryInv, ListenerTypeOK, MatchLost, listenerTasks, registry, handshakes, measurements, Dropped
    <2> QED
      BY <1>0, <2>1, PermitsStay DEF ListenerInv, RegistryInv
  <1>10. SamplesAddUp'
    <2>1. Measuring' = Measuring /\ UNCHANGED measurements
      BY <1>0 DEF Measuring, RegistryInv, ListenerTypeOK, MatchLost, listenerTasks, registry, handshakes, measurements, Dropped
    <2> QED
      BY <1>0, <2>1, SamplesStay DEF ListenerInv
  <1> QED
    BY <1>8, <1>9, <1>10 DEF ListenerInv

\* An operation takes its permits and registers, or keeps neither.
LEMMA ExpectRegistersKeeps ==
    ASSUME ListenerInv, NEW o \in Expecters, ExpectRegisters(o)
    PROVE  ListenerInv'
  <1>0. RegistryInv /\ PermitsHold /\ SamplesAddUp /\ ExpectRegisters(o)
    BY DEF ListenerInv
  <1>1. ListenerTypeOK'
    BY <1>0 DEF RegistryInv, ListenerTypeOK, ExpectRegisters, listenerTasks, registry, handshakes, measurements
  <1>2. EntriesWait'
    <2>1. oneshot[o] = "empty"
      BY <1>0 DEF RegistryInv, NewAreEmpty, ExpectRegisters
    <2>2. \A e \in Connections : admitting[e] = "matched" => claim[e].id # o
      BY <1>0 DEF RegistryInv, MatchesFit, ExpectRegisters
    <2>3. \A p \in expectations : p # o
      BY <1>0 DEF RegistryInv, EntriesWait, ExpectRegisters
    <2>4. admitting' = admitting /\ claim' = claim
      BY <1>0 DEF ExpectRegisters, listenerTasks, registry, handshakes, measurements
    <2>5. \A p \in expectations' : p = o \/ p \in expectations
      BY <1>0 DEF ExpectRegisters, listenerTasks, registry, handshakes, measurements
    <2>6. \A p \in expectations : opening'[p] = opening[p] /\ oneshot'[p] = oneshot[p]
      BY <1>0, <2>3 DEF RegistryInv, ListenerTypeOK, ExpectRegisters, listenerTasks, registry, handshakes, measurements
    <2>7. o \in expectations' => opening'[o] = "waiting" /\ oneshot'[o] = oneshot[o]
      BY <1>0, <2>3 DEF RegistryInv, ListenerTypeOK, ExpectRegisters, listenerTasks, registry, handshakes, measurements
    <2> QED
      BY <1>0, <2>1, <2>2, <2>4, <2>5, <2>6, <2>7 DEF RegistryInv, EntriesWait
  <1>3. MatchesFit'
    <2>1. claim' = claim /\ \A p \in Expecters : oneshot'[p] = oneshot[p] \/ oneshot'[p] = "closed"
      BY <1>0 DEF RegistryInv, ListenerTypeOK, ExpectRegisters, listenerTasks, registry, handshakes, measurements
    <2>2. \A p \in Expecters : opening'[p] \in {"new", "checked"} => opening[p] \in {"new", "checked"}
      BY <1>0 DEF RegistryInv, ListenerTypeOK, ExpectRegisters, listenerTasks, registry, handshakes, measurements
    <2>3. \A e \in Connections : admitting'[e] = "matched" => admitting[e] = "matched"
      BY <1>0 DEF RegistryInv, ListenerTypeOK, ExpectRegisters, listenerTasks, registry, handshakes, measurements
    <2> QED
      BY <1>0, <2>1, <2>2, <2>3, MatchesStay DEF RegistryInv
  <1>4. MatchesDiffer'
    BY <1>0 DEF RegistryInv, MatchesDiffer, ListenerTypeOK, ExpectRegisters, listenerTasks, registry, handshakes, measurements
  <1>5. ChannelsFit'
    <2>1. claim' = claim /\ \A p \in Expecters : oneshot'[p] = oneshot[p] \/ oneshot'[p] = "closed"
      BY <1>0 DEF RegistryInv, ListenerTypeOK, ExpectRegisters, listenerTasks, registry, handshakes, measurements
    <2> QED
      BY <1>0, <2>1, ChannelsStay DEF RegistryInv
  <1>6. NewAreEmpty'
    BY <1>0 DEF RegistryInv, NewAreEmpty, ListenerTypeOK, ExpectRegisters, listenerTasks, registry, handshakes, measurements
  <1>7. WaitersFit'
    BY <1>0 DEF RegistryInv, WaitersFit, ListenerTypeOK, EntriesWait, MatchesFit, ExpectRegisters, listenerTasks, registry, handshakes, measurements
  <1>8. RegistryInv'
    BY <1>1, <1>2, <1>3, <1>4, <1>5, <1>6, <1>7 DEF RegistryInv
  <1>9. PermitsHold'
    <2>1. CASE Cardinality(IoHeld) < ActiveIo /\ Cardinality(OpenHeld) < PendingOpens
      <3>1. IoHeld' = IoHeld \cup {o} /\ OpenHeld' = OpenHeld \cup {o} /\ Handshaking' = Handshaking
        <4>1. expectations' = expectations \cup {o} /\ opening' = [opening EXCEPT ![o] = "waiting"]
              /\ admitting' = admitting /\ claim' = claim
          BY <1>0, <2>1 DEF ExpectRegisters, listenerTasks, registry, handshakes, measurements
        <4>2. \A p \in Expecters : opening'[p] = IF p = o THEN "waiting" ELSE opening[p]
          BY <1>0, <4>1 DEF RegistryInv, ListenerTypeOK
        <4>3. IoHeld' = IoHeld \cup {o}
          BY <4>1, <4>2 DEF IoHeld, Matched
        <4>4. OpenHeld' = OpenHeld \cup {o}
          BY <4>1 DEF OpenHeld
        <4> QED
          BY <4>1, <4>3, <4>4 DEF Handshaking
      <3>2. /\ IsFiniteSet(IoHeld) /\ IsFiniteSet(OpenHeld)
            /\ Cardinality(IoHeld) \in Nat /\ Cardinality(OpenHeld) \in Nat
        BY <1>0, HeldAreFinite DEF RegistryInv
      <3>3. /\ Cardinality(IoHeld') <= Cardinality(IoHeld) + 1 /\ Cardinality(IoHeld') \in Nat
            /\ Cardinality(OpenHeld') <= Cardinality(OpenHeld) + 1 /\ Cardinality(OpenHeld') \in Nat
        <4>1. /\ IsFiniteSet(IoHeld')
              /\ Cardinality(IoHeld') = IF o \in IoHeld THEN Cardinality(IoHeld) ELSE Cardinality(IoHeld) + 1
          BY <3>1, <3>2, FS_AddElement
        <4>2. /\ IsFiniteSet(OpenHeld')
              /\ Cardinality(OpenHeld') = IF o \in OpenHeld THEN Cardinality(OpenHeld) ELSE Cardinality(OpenHeld) + 1
          BY <3>1, <3>2, FS_AddElement
        <4> QED
          BY <3>2, <4>1, <4>2
      <3>4. ActiveIo \in Nat /\ PendingOpens \in Nat
        BY ListenerAssumption
      <3>5. Cardinality(Handshaking') <= Handshakes
        BY <1>0, <3>1 DEF PermitsHold
      <3> QED
        BY <2>1, <3>2, <3>3, <3>4, <3>5 DEF PermitsHold
    <2>2. CASE ~(Cardinality(IoHeld) < ActiveIo /\ Cardinality(OpenHeld) < PendingOpens)
      <3>1. expectations' = expectations /\ opening' = [opening EXCEPT ![o] = "done"]
            /\ admitting' = admitting /\ claim' = claim
        BY <1>0, <2>2 DEF ExpectRegisters, listenerTasks, registry, handshakes, measurements
      <3>2. IoHeld' \subseteq IoHeld /\ OpenHeld' \subseteq OpenHeld /\ Handshaking' \subseteq Handshaking
        BY <1>0, <3>1 DEF IoHeld, OpenHeld, Handshaking, Matched, RegistryInv, ListenerTypeOK
      <3> QED
        BY <1>0, <3>2, PermitsStay DEF ListenerInv, RegistryInv
    <2> QED
      BY <2>1, <2>2
  <1>10. SamplesAddUp'
    <2>1. Measuring' = Measuring /\ UNCHANGED measurements
      BY <1>0 DEF Measuring, RegistryInv, ListenerTypeOK, ExpectRegisters, listenerTasks, registry, handshakes, measurements
    <2> QED
      BY <1>0, <2>1, SamplesStay DEF ListenerInv
  <1> QED
    BY <1>8, <1>9, <1>10 DEF ListenerInv

\* A connection gets a task, or is dropped over the budget.
LEMMA AcceptsKeeps ==
    ASSUME ListenerInv, NEW c \in Connections, Accepts(c)
    PROVE  ListenerInv'
  <1>0. RegistryInv /\ PermitsHold /\ SamplesAddUp /\ Accepts(c)
    BY DEF ListenerInv
  <1>1. ListenerTypeOK'
    BY <1>0 DEF RegistryInv, ListenerTypeOK, Accepts, listenerTasks, registry, handshakes, measurements
  <1>2. EntriesWait'
    BY <1>0 DEF RegistryInv, EntriesWait, ListenerTypeOK, Accepts, listenerTasks, registry, handshakes, measurements
  <1>3. MatchesFit'
    BY <1>0 DEF RegistryInv, MatchesFit, ListenerTypeOK, Accepts, listenerTasks, registry, handshakes, measurements
  <1>4. MatchesDiffer'
    BY <1>0 DEF RegistryInv, MatchesDiffer, ListenerTypeOK, Accepts, listenerTasks, registry, handshakes, measurements
  <1>5. ChannelsFit'
    BY <1>0 DEF RegistryInv, ChannelsFit, ListenerTypeOK, Accepts, listenerTasks, registry, handshakes, measurements
  <1>6. NewAreEmpty'
    BY <1>0 DEF RegistryInv, NewAreEmpty, ListenerTypeOK, Accepts, listenerTasks, registry, handshakes, measurements
  <1>7. WaitersFit'
    BY <1>0 DEF RegistryInv, WaitersFit, ListenerTypeOK, EntriesWait, MatchesFit, Accepts, listenerTasks, registry, handshakes, measurements
  <1>8. RegistryInv'
    BY <1>1, <1>2, <1>3, <1>4, <1>5, <1>6, <1>7 DEF RegistryInv
  <1>9. PermitsHold'
    <2>0. IoHeld' = IoHeld /\ OpenHeld' = OpenHeld
      BY <1>0 DEF IoHeld, OpenHeld, Matched, RegistryInv, ListenerTypeOK, Accepts, listenerTasks, registry, handshakes, measurements
    <2>1. CASE Cardinality(Handshaking) < Handshakes
      <3>1. Handshaking' = Handshaking \cup {c}
        BY <1>0, <2>1 DEF Handshaking, RegistryInv, ListenerTypeOK, Accepts, listenerTasks, registry, handshakes, measurements
      <3>2. IsFiniteSet(Handshaking) /\ Cardinality(Handshaking) \in Nat
        BY <1>0, HeldAreFinite DEF RegistryInv
      <3>3. Cardinality(Handshaking') <= Cardinality(Handshaking) + 1 /\ Cardinality(Handshaking') \in Nat
        BY <3>1, <3>2, FS_AddElement
      <3>4. Handshakes \in Nat
        BY ListenerAssumption
      <3> QED
        BY <1>0, <2>0, <2>1, <3>2, <3>3, <3>4 DEF PermitsHold
    <2>2. CASE ~(Cardinality(Handshaking) < Handshakes)
      <3>1. Handshaking' \subseteq Handshaking
        BY <1>0, <2>2 DEF Handshaking, RegistryInv, ListenerTypeOK, Accepts, listenerTasks, registry, handshakes, measurements
      <3> QED
        BY <1>0, <2>0, <3>1, PermitsStay DEF RegistryInv
    <2> QED
      BY <2>1, <2>2
  <1>10. SamplesAddUp'
    <2>1. Measuring' = Measuring /\ UNCHANGED measurements
      BY <1>0 DEF Measuring, RegistryInv, ListenerTypeOK, Accepts, listenerTasks, registry, handshakes, measurements
    <2> QED
      BY <1>0, <2>1, SamplesStay DEF ListenerInv
  <1> QED
    BY <1>8, <1>9, <1>10 DEF ListenerInv

\* A channel is handed over, or its receiver is gone.
LEMMA HandsOverKeeps ==
    ASSUME ListenerInv, NEW c \in Connections, HandsOver(c)
    PROVE  ListenerInv'
  <1>0. RegistryInv /\ PermitsHold /\ SamplesAddUp /\ HandsOver(c)
    BY DEF ListenerInv
  <1>1. ListenerTypeOK'
    BY <1>0 DEF RegistryInv, ListenerTypeOK, HandsOver, listenerTasks, registry, handshakes, measurements
  <1>2. EntriesWait'
    <2>1. claim' = claim /\ opening' = opening /\ expectations' = expectations
      BY <1>0 DEF HandsOver, listenerTasks, registry, handshakes, measurements
    <2>2. \A e \in Connections : admitting'[e] = "matched" => admitting[e] = "matched"
      BY <1>0 DEF RegistryInv, ListenerTypeOK, HandsOver, listenerTasks, registry, handshakes, measurements
    <2>3. \A p \in Expecters : p # claim[c].id => oneshot'[p] = oneshot[p]
      BY <1>0 DEF RegistryInv, ListenerTypeOK, HandsOver, listenerTasks, registry, handshakes, measurements
    <2>4. claim[c].id \notin expectations
      BY <1>0 DEF RegistryInv, EntriesWait, HandsOver
    <2>5. expectations \subseteq Expecters
      BY <1>0 DEF RegistryInv, ListenerTypeOK
    <2> QED
      BY <1>0, <2>1, <2>2, <2>3, <2>4, <2>5 DEF RegistryInv, EntriesWait
  <1>3. MatchesFit'
    <2>1. claim' = claim /\ opening' = opening /\ \A e \in Connections : claim[e].id \in Expecters
      BY <1>0 DEF Claims, RegistryInv, ListenerTypeOK, HandsOver, listenerTasks, registry, handshakes, measurements
    <2>2. \A e \in Connections : admitting'[e] = "matched" => e # c /\ admitting[e] = "matched"
      BY <1>0 DEF RegistryInv, ListenerTypeOK, HandsOver, listenerTasks, registry, handshakes, measurements
    <2>3. \A p \in Expecters : p # claim[c].id => oneshot'[p] = oneshot[p]
      BY <1>0 DEF RegistryInv, ListenerTypeOK, HandsOver, listenerTasks, registry, handshakes, measurements
    <2>4. \A e \in Connections : admitting[e] = "matched" /\ e # c => claim[e].id # claim[c].id
      BY <1>0 DEF RegistryInv, MatchesDiffer, HandsOver
    <2> QED
      BY <1>0, <2>1, <2>2, <2>3, <2>4 DEF RegistryInv, MatchesFit
  <1>4. MatchesDiffer'
    BY <1>0 DEF RegistryInv, MatchesDiffer, ListenerTypeOK, HandsOver, listenerTasks, registry, handshakes, measurements
  <1>5. ChannelsFit'
    <2>1. claim' = claim /\ claim[c].id \in Expecters
      BY <1>0 DEF Claims, RegistryInv, ListenerTypeOK, HandsOver, listenerTasks, registry, handshakes, measurements
    <2>2. \A p \in Expecters : oneshot'[p] = oneshot[p] \/ (p = claim[c].id /\ oneshot'[p] = c)
      BY <1>0 DEF RegistryInv, ListenerTypeOK, HandsOver, listenerTasks, registry, handshakes, measurements
    <2>3. claim[c].trusted = TRUE /\ claim[c].open = TRUE /\ claim[c].token = claim[c].id
      BY <1>0 DEF RegistryInv, ListenerTypeOK, Claims, MatchesFit, HandsOver
    <2>4. claim[c] = [trusted |-> TRUE, open |-> TRUE, id |-> claim[c].id, token |-> claim[c].id]
      BY <1>0, <2>3 DEF RegistryInv, ListenerTypeOK, Claims
    <2> SUFFICES ASSUME NEW p \in Expecters, oneshot'[p] \in Connections
                 PROVE  claim[oneshot'[p]] = [trusted |-> TRUE, open |-> TRUE, id |-> p, token |-> p]
      BY <2>1 DEF ChannelsFit
    <2>5. CASE oneshot'[p] = oneshot[p]
      BY <1>0, <2>5 DEF RegistryInv, ChannelsFit
    <2>6. CASE p = claim[c].id /\ oneshot'[p] = c
      BY <2>4, <2>6
    <2> QED
      BY <2>2, <2>5, <2>6
  <1>6. NewAreEmpty'
    <2>1. opening' = opening /\ opening[claim[c].id] \notin {"new", "checked"}
      BY <1>0 DEF RegistryInv, MatchesFit, HandsOver
    <2>2. \A p \in Expecters : p # claim[c].id => oneshot'[p] = oneshot[p]
      BY <1>0 DEF RegistryInv, ListenerTypeOK, HandsOver, listenerTasks, registry, handshakes, measurements
    <2> QED
      BY <1>0, <2>1, <2>2 DEF RegistryInv, NewAreEmpty
  <1>7. WaitersFit'
    <2>1. opening' = opening /\ expectations' = expectations /\ claim' = claim /\ claim[c].id \in Expecters
      BY <1>0 DEF Claims, RegistryInv, ListenerTypeOK, HandsOver, listenerTasks, registry, handshakes, measurements
    <2>2. \A p \in Expecters : p # claim[c].id => oneshot'[p] = oneshot[p]
      BY <1>0 DEF RegistryInv, ListenerTypeOK, HandsOver, listenerTasks, registry, handshakes, measurements
    <2>3. \A e \in Connections : e # c => admitting'[e] = admitting[e]
      BY <1>0 DEF RegistryInv, ListenerTypeOK, HandsOver, listenerTasks, registry, handshakes, measurements
    <2>4. oneshot'[claim[c].id] # "empty"
      BY <1>0, <2>1, TellsNoConnection DEF RegistryInv, ListenerTypeOK, HandsOver, listenerTasks, registry, handshakes, measurements
    <2> QED
      BY <1>0, <2>1, <2>2, <2>3, <2>4 DEF RegistryInv, WaitersFit
  <1>8. RegistryInv'
    BY <1>1, <1>2, <1>3, <1>4, <1>5, <1>6, <1>7 DEF RegistryInv
  <1>9. PermitsHold'
    <2>1. IoHeld' \subseteq IoHeld /\ OpenHeld' \subseteq OpenHeld /\ Handshaking' \subseteq Handshaking
      BY <1>0 DEF IoHeld, OpenHeld, Handshaking, Matched, RegistryInv, ListenerTypeOK, HandsOver, listenerTasks, registry, handshakes, measurements
    <2> QED
      BY <1>0, <2>1, PermitsStay DEF ListenerInv, RegistryInv
  <1>10. SamplesAddUp'
    <2>1. IsFiniteSet(Measuring) /\ Cardinality(Measuring) \in Nat
      BY <1>0, HeldAreFinite DEF RegistryInv
    <2>2. opened \in Nat /\ taken \in Nat /\ samples \in Nat /\ lost \in Nat
      BY <1>0, ListenerAssumption DEF RegistryInv, ListenerTypeOK
    <2>3. opened = taken + samples + lost + Cardinality(Measuring)
      BY <1>0 DEF SamplesAddUp, Measuring
    <2>4. taken' = taken /\ samples' = samples /\ lost' = lost
      BY <1>0 DEF HandsOver
    <2>5. CASE oneshot[claim[c].id] = "empty"
      <3>1. Measuring' = Measuring \cup {c} /\ c \notin Measuring /\ opened' = opened + 1
        BY <1>0, <2>5 DEF Measuring, RegistryInv, ListenerTypeOK, HandsOver
      <3>2. Cardinality(Measuring') = Cardinality(Measuring) + 1
        BY <2>1, <3>1, FS_AddElement
      <3>3. opened' = taken' + samples' + lost' + Cardinality(Measuring')
        BY <2>1, <2>2, <2>3, <2>4, <3>1, <3>2
      <3> QED
        BY <3>3 DEF SamplesAddUp, Measuring
    <2>6. CASE oneshot[claim[c].id] # "empty"
      <3>1. Measuring' = Measuring /\ opened' = opened
        BY <1>0, <2>6 DEF Measuring, RegistryInv, ListenerTypeOK, HandsOver
      <3>2. opened' = taken' + samples' + lost' + Cardinality(Measuring')
        BY <2>3, <2>4, <3>1
      <3> QED
        BY <3>2 DEF SamplesAddUp, Measuring
    <2> QED
      BY <2>5, <2>6
  <1> QED
    BY <1>8, <1>9, <1>10 DEF ListenerInv

\* A channel's sample is kept, or pushes out the oldest.
LEMMA MeasuresKeeps ==
    ASSUME ListenerInv, NEW c \in Connections, Measures(c)
    PROVE  ListenerInv'
  <1>0. RegistryInv /\ PermitsHold /\ SamplesAddUp /\ Measures(c)
    BY DEF ListenerInv
  <1>1. ListenerTypeOK'
    BY <1>0, ListenerAssumption DEF RegistryInv, ListenerTypeOK, Measures, listenerTasks, registry, handshakes, measurements
  <1>2. EntriesWait'
    BY <1>0 DEF RegistryInv, EntriesWait, ListenerTypeOK, Measures, listenerTasks, registry, handshakes, measurements
  <1>3. MatchesFit'
    BY <1>0 DEF RegistryInv, MatchesFit, ListenerTypeOK, Measures, listenerTasks, registry, handshakes, measurements
  <1>4. MatchesDiffer'
    BY <1>0 DEF RegistryInv, MatchesDiffer, ListenerTypeOK, Measures, listenerTasks, registry, handshakes, measurements
  <1>5. ChannelsFit'
    BY <1>0 DEF RegistryInv, ChannelsFit, ListenerTypeOK, Measures, listenerTasks, registry, handshakes, measurements
  <1>6. NewAreEmpty'
    BY <1>0 DEF RegistryInv, NewAreEmpty, ListenerTypeOK, Measures, listenerTasks, registry, handshakes, measurements
  <1>7. WaitersFit'
    BY <1>0 DEF RegistryInv, WaitersFit, ListenerTypeOK, EntriesWait, MatchesFit, Measures, listenerTasks, registry, handshakes, measurements
  <1>8. RegistryInv'
    BY <1>1, <1>2, <1>3, <1>4, <1>5, <1>6, <1>7 DEF RegistryInv
  <1>9. PermitsHold'
    <2>1. IoHeld' \subseteq IoHeld /\ OpenHeld' \subseteq OpenHeld /\ Handshaking' \subseteq Handshaking
      BY <1>0 DEF IoHeld, OpenHeld, Handshaking, Matched, RegistryInv, ListenerTypeOK, Measures, listenerTasks, registry, handshakes, measurements
    <2> QED
      BY <1>0, <2>1, PermitsStay DEF ListenerInv, RegistryInv
  <1>10. SamplesAddUp'
    <2>1. IsFiniteSet(Measuring) /\ Cardinality(Measuring) \in Nat
      BY <1>0, HeldAreFinite DEF RegistryInv
    <2>2. opened \in Nat /\ taken \in Nat /\ samples \in Nat /\ lost \in Nat
      BY <1>0, ListenerAssumption DEF RegistryInv, ListenerTypeOK
    <2>3. opened = taken + samples + lost + Cardinality(Measuring)
      BY <1>0 DEF SamplesAddUp, Measuring
    <2>4. Measuring' = Measuring \ {c} /\ c \in Measuring
      BY <1>0 DEF Measuring, RegistryInv, ListenerTypeOK, Measures
    <2>5. Cardinality(Measuring') = Cardinality(Measuring) - 1 /\ IsFiniteSet(Measuring')
      BY <2>1, <2>4, FS_RemoveElement
    <2>6. Cardinality(Measuring') \in Nat
      BY <2>5, FS_CardinalityType
    <2>7. /\ opened' = opened /\ taken' = taken
          /\ \/ lost' = lost + 1 /\ samples' = samples
             \/ samples' = samples + 1 /\ lost' = lost
      BY <1>0 DEF Measures
    <2>8. opened' = taken' + samples' + lost' + Cardinality(Measuring')
      BY <2>1, <2>2, <2>3, <2>5, <2>6, <2>7
    <2> QED
      BY <2>8 DEF SamplesAddUp, Measuring
  <1> QED
    BY <1>8, <1>9, <1>10 DEF ListenerInv

\* Diagnostics drains the samples.
LEMMA TakesSamplesKeeps ==
    ASSUME ListenerInv, TakesSamples
    PROVE  ListenerInv'
  <1>0. RegistryInv /\ PermitsHold /\ SamplesAddUp /\ TakesSamples
    BY DEF ListenerInv
  <1>1. ListenerTypeOK'
    BY <1>0, ListenerAssumption DEF RegistryInv, ListenerTypeOK, TakesSamples, listenerTasks, registry, handshakes, measurements
  <1>2. EntriesWait'
    BY <1>0 DEF RegistryInv, EntriesWait, ListenerTypeOK, TakesSamples, listenerTasks, registry, handshakes, measurements
  <1>3. MatchesFit'
    BY <1>0 DEF RegistryInv, MatchesFit, ListenerTypeOK, TakesSamples, listenerTasks, registry, handshakes, measurements
  <1>4. MatchesDiffer'
    BY <1>0 DEF RegistryInv, MatchesDiffer, ListenerTypeOK, TakesSamples, listenerTasks, registry, handshakes, measurements
  <1>5. ChannelsFit'
    BY <1>0 DEF RegistryInv, ChannelsFit, ListenerTypeOK, TakesSamples, listenerTasks, registry, handshakes, measurements
  <1>6. NewAreEmpty'
    BY <1>0 DEF RegistryInv, NewAreEmpty, ListenerTypeOK, TakesSamples, listenerTasks, registry, handshakes, measurements
  <1>7. WaitersFit'
    BY <1>0 DEF RegistryInv, WaitersFit, ListenerTypeOK, EntriesWait, MatchesFit, TakesSamples, listenerTasks, registry, handshakes, measurements
  <1>8. RegistryInv'
    BY <1>1, <1>2, <1>3, <1>4, <1>5, <1>6, <1>7 DEF RegistryInv
  <1>9. PermitsHold'
    <2>1. IoHeld' \subseteq IoHeld /\ OpenHeld' \subseteq OpenHeld /\ Handshaking' \subseteq Handshaking
      BY <1>0 DEF IoHeld, OpenHeld, Handshaking, Matched, RegistryInv, ListenerTypeOK, TakesSamples, listenerTasks, registry, handshakes, measurements
    <2> QED
      BY <1>0, <2>1, PermitsStay DEF ListenerInv, RegistryInv
  <1>10. SamplesAddUp'
    <2>1. IsFiniteSet(Measuring) /\ Cardinality(Measuring) \in Nat
      BY <1>0, HeldAreFinite DEF RegistryInv
    <2>2. opened \in Nat /\ taken \in Nat /\ samples \in Nat /\ lost \in Nat
      BY <1>0, ListenerAssumption DEF RegistryInv, ListenerTypeOK
    <2>3. opened = taken + samples + lost + Cardinality(Measuring)
      BY <1>0 DEF SamplesAddUp, Measuring
    <2>4. Measuring' = Measuring /\ opened' = opened /\ lost' = lost /\ taken' = taken + samples /\ samples' = 0
      BY <1>0 DEF Measuring, TakesSamples, handshakes
    <2>5. opened' = taken' + samples' + lost' + Cardinality(Measuring')
      BY <2>1, <2>2, <2>3, <2>4
    <2> QED
      BY <2>5 DEF SamplesAddUp, Measuring
  <1> QED
    BY <1>8, <1>9, <1>10 DEF ListenerInv

\* A listener that was bound satisfies the invariant.
LEMMA ListenerInitially ==
    ASSUME ListenerInit
    PROVE  ListenerInv
  <1>1. ListenerTypeOK
    BY ListenerAssumption DEF ListenerInit, ListenerTypeOK
  <1>2. RegistryInv
    BY <1>1, TellsNoConnection DEF ListenerInit, RegistryInv, EntriesWait, MatchesFit, MatchesDiffer,
      ChannelsFit, NewAreEmpty, WaitersFit
  <1>3. IoHeld = {} /\ OpenHeld = {} /\ Handshaking = {} /\ Measuring = {}
    BY DEF ListenerInit, IoHeld, OpenHeld, Handshaking, Measuring, Matched
  <1>4. Cardinality({}) = 0
    BY FS_EmptySet
  <1>5. PermitsHold
    BY <1>3, <1>4, ListenerAssumption DEF PermitsHold
  <1>6. SamplesAddUp
    BY <1>3, <1>4 DEF SamplesAddUp, Measuring, ListenerInit
  <1> QED
    BY <1>2, <1>5, <1>6 DEF ListenerInv

\* Every step of the listener keeps the invariant.
LEMMA ListenerStep ==
    ASSUME ListenerInv, ListenerNext
    PROVE  ListenerInv'
  <1>1. CASE \E o \in Expecters : \/ ExpectChecks(o) \/ ExpectRegisters(o) \/ AcceptReceives(o)
                                  \/ AcceptGivesUp(o) \/ ReceiverGoes(o) \/ ChannelEnds(o)
    BY <1>1, ExpectChecksKeeps, ExpectRegistersKeeps, AcceptReceivesKeeps, AcceptGivesUpKeeps,
      ReceiverGoesKeeps, ChannelEndsKeeps
  <1>2. CASE \E c \in Connections :
               Connects(c) \/ Accepts(c) \/ Matches(c) \/ Refused(c) \/ MatchLost(c) \/ HandsOver(c)
               \/ Measures(c)
    BY <1>2, ConnectsKeeps, AcceptsKeeps, MatchesKeeps, RefusedKeeps, MatchLostKeeps, HandsOverKeeps,
      MeasuresKeeps
  <1>3. CASE AcceptBacksOff \/ AcceptFails \/ FailureClears \/ AcceptTaskEnds
             \/ ListenerAborts \/ ListenerClears \/ TakesSamples
    BY <1>3, AcceptBacksOffKeeps, AcceptFailsKeeps, FailureClearsKeeps, AcceptTaskEndsKeeps,
      ListenerAbortsKeeps, ListenerClearsKeeps, TakesSamplesKeeps
  <1> QED
    BY <1>1, <1>2, <1>3 DEF ListenerNext

\* The listener rests while another part moves.
LEMMA ListenerRests ==
    ASSUME ListenerInv, UNCHANGED listenerVars
    PROVE  ListenerInv'
  BY DEF ListenerInv, RegistryInv, ListenerTypeOK, EntriesWait, MatchesFit, MatchesDiffer, ChannelsFit,
    NewAreEmpty, WaitersFit, PermitsHold, SamplesAddUp, IoHeld, OpenHeld, Handshaking, Matched,
    listenerVars, listenerTasks, registry, handshakes, measurements

\* The invariant implies what the run checks of the listener.
LEMMA ListenerHolds ==
    ASSUME ListenerInv
    PROVE  ListenerTypeOK /\ ChannelsReachTheirOwn /\ WaitersAreTold /\ BudgetsHold /\ SamplesAddUp
  <1>1. ListenerTypeOK /\ EntriesWait /\ MatchesFit /\ MatchesDiffer /\ ChannelsFit /\ WaitersFit
        /\ PermitsHold /\ SamplesAddUp
    BY DEF ListenerInv, RegistryInv
  <1>2. ChannelsReachTheirOwn
    <2>1. ASSUME NEW o \in Expecters, oneshot[o] \in Connections
          PROVE  /\ claim[oneshot[o]] = [trusted |-> TRUE, open |-> TRUE, id |-> o, token |-> o]
                 /\ o \notin expectations /\ Matched(o) = {}
      <3>1. claim[oneshot[o]] = [trusted |-> TRUE, open |-> TRUE, id |-> o, token |-> o]
        BY <1>1, <2>1 DEF ChannelsFit
      <3>2. o \notin expectations
        BY <1>1, <2>1, TellsNoConnection DEF EntriesWait
      <3>3. Matched(o) = {}
        BY <1>1, <2>1 DEF MatchesFit, Matched
      <3> QED
        BY <3>1, <3>2, <3>3
    <2> QED
      BY <1>1, <2>1 DEF ChannelsReachTheirOwn, MatchesDiffer
  <1>3. WaitersAreTold
    BY <1>1 DEF WaitersAreTold, WaitersFit, Matched
  <1>4. BudgetsHold
    BY <1>1 DEF BudgetsHold, PermitsHold, EntriesWait
  <1> QED
    BY <1>1, <1>2, <1>3, <1>4
-----------------------------------------------------------------------------
\* A channel reaches the operation that asked for it and no other, nobody waits on a sender
\* that is gone, and permits and samples add up, for any number of operations and connections,
\* whatever they claim and whatever the budgets.
THEOREM ChannelsStayAccounted ==
    MCSpec => []ChannelsAreAccounted
  <1> DEFINE I == part = "listener" => ListenerInv
  <1>1. MCInit => I
    BY ListenerInitially DEF MCInit
  <1>2. I /\ [MCNext]_mcVars => I'
    <2> SUFFICES ASSUME I, [MCNext]_mcVars, part' = "listener" PROVE ListenerInv'
      OBVIOUS
    <2>1. CASE UNCHANGED <<part, listenerVars>>
      <3>1. ListenerInv /\ UNCHANGED listenerVars
        BY <2>1
      <3> QED
        BY <3>1, ListenerRests
    <2>2. CASE OfGit("listener", ListenerNext, <<retryVars, gitVars>>)
      BY <2>2, ListenerStep DEF OfGit
    <2> QED
      BY <2>1, <2>2 DEF MCNext, mcVars, gitParts, OfFence, OfData, OfGit
  <1>3. I => ChannelsAreAccounted
    BY ListenerHolds DEF ChannelsAreAccounted
  <1> QED
    BY <1>1, <1>2, <1>3, PTL DEF MCSpec
=============================================================================
