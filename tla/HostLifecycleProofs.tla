------------------------ MODULE HostLifecycleProofs ------------------------
(***************************************************************************)
(* Proofs about the host's sandbox lifecycle, for any number of sandboxes, *)
(* handles, concurrent callers and crashes, and every choice of faults.    *)
(*                                                                         *)
(* What makes the properties inductive is who may touch a handle: a call   *)
(* that changes one holds its state mutex (LockInv), every handle a call,  *)
(* the cache, a caller or a command refers to is a built one (BuiltInv),   *)
(* and admission may run ahead of the live state only while the mutex is   *)
(* held by a start that is not over (AdmissionInv).                        *)
(***************************************************************************)
EXTENDS HostLifecycle, TLAPS

Holding == {"admit", "work", "persist", "rollback"}
OnHandle == Holding \cup {"check", "lock", "evict"}

\* Nothing refers to a handle that is not built.
BuiltInv ==
    /\ \A c \in Calls : on[c] # None => id[on[c]] # None
    /\ \A i \in Ids : cache[i] # None => id[cache[i]] = i
    /\ \A h \in known \cup busy : id[h] # None

\* A call has what its step works on.
CallInv ==
    \A c \in Calls : /\ pc[c] \in Building => of[c] # None
                     /\ pc[c] \in OnHandle => on[c] # None

\* The state mutex of a handle is held by the call that is changing it, and a
\* deleted handle is not changed.
LockInv ==
    /\ \A c \in Calls : pc[c] \in Holding => lock[on[c]] = c /\ state[on[c]] # "Deleted"
    /\ \A h \in Handles : lock[h] # None => pc[lock[h]] \in Holding /\ on[lock[h]] = h

\* A handle that is not Running admits work only in the middle of a start.
AdmissionInv ==
    \A h \in Handles : state[h] # "Running" /\ accepting[h] =>
        /\ lock[h] # None
        /\ \/ pc[lock[h]] = "rollback"
           \/ pc[lock[h]] = "persist" /\ want[lock[h]] = "Running"

Base == TypeOK /\ BuiltInv /\ CallInv /\ LockInv

Admission == AdmissionInv /\ OwnWorkEndsFirst

IInv == Base /\ Admission

\* What every step does, a dropped call's included, and what a step that is
\* not dropped does besides.
Kept == Base' /\ (Admission => Admission')

\* A value that stands for nothing is nothing else.
LEMMA NoneIsApart ==
    None \notin Handles /\ None \notin Ids /\ None \notin Calls /\ None \notin States
BY NoneAssumption, NoStateAssumption DEF Handles

\* Nobody knows of a handle that is not built.
LEMMA UnbuiltIsUnknown ==
    ASSUME Base, NEW h \in Handles, id[h] = None
    PROVE  /\ \A c \in Calls : on[c] # h
           /\ \A i \in Ids : cache[i] # h
           /\ lock[h] = None /\ h \notin known /\ h \notin busy
BY NoneIsApart DEF Base, TypeOK, BuiltInv, LockInv

\* cache_handle builds a well-formed handle.
LEMMA CacheHandleType ==
    ASSUME TypeOK, NEW h \in Handles, NEW i \in Ids, NEW s \in States, CacheHandle(h, i, s)
    PROVE  /\ id' \in [Handles -> Ids \cup {None}] /\ state' \in [Handles -> States]
           /\ accepting' \in [Handles -> BOOLEAN] /\ (accepting'[h] => s = "Running")
           /\ cache' \in [Ids -> Handles \cup {None}]
           /\ \A k \in Handles : k # h => accepting'[k] = accepting[k]
<1>1. (s = "Running") \in BOOLEAN
    OBVIOUS
<1> QED
    BY <1>1 DEF TypeOK, CacheHandle

\* admit_work changes the admission of its handle; work only ends.
LEMMA AdmitWorkType ==
    ASSUME TypeOK, NEW h \in Handles, NEW running \in BOOLEAN,
           AdmitOk(h, running) \/ AdmitFails(h, running)
    PROVE  /\ accepting' \in [Handles -> BOOLEAN]
           /\ \A k \in Handles : k # h => accepting'[k] = accepting[k]
           /\ generation' \in [Handles -> {"none", "open", "lost"}]
           /\ busy' \subseteq busy /\ orphans' \subseteq orphans
           /\ AdmitOk(h, running) => accepting'[h] = running
           /\ AdmitOk(h, FALSE) => h \notin busy'
           /\ AdmitFails(h, running) => accepting'[h] = FALSE
<1>1. /\ accepting' \in [Handles -> BOOLEAN]
      /\ \A k \in Handles : k # h => accepting'[k] = accepting[k]
      /\ AdmitOk(h, running) => accepting'[h] = running
      /\ AdmitFails(h, running) => accepting'[h] = FALSE
    BY DEF TypeOK, AdmitOk, AdmitFails, Accept
<1>2. CASE UNCHANGED <<busy, orphans, generation>>
    BY <1>1, <1>2 DEF TypeOK, AdmitOk, AdmitFails, Drain
<1>3. CASE Drain(h)
    BY <1>1, <1>3 DEF TypeOK, Drain
<1> QED
    BY <1>1, <1>2, <1>3 DEF AdmitOk, AdmitFails

\* create.
LEMMA CreateKept ==
    ASSUME Base,
           \/ \E c \in Calls, i \in Ids : CreateLookup(c, i)
           \/ \E c \in Calls : Realize(c)
           \/ \E c \in Calls : WriteRecord(c)
           \/ \E c \in Calls, h \in Handles : CacheNew(c, h)
    PROVE  Kept
<1> USE NoneIsApart DEF Base, Admission, Kept, diskVars, handleVars, callVars, Goto, Return,
       PcStates, Building, Holding, OnHandle, States
<1>1. ASSUME NEW c \in Calls, NEW i \in Ids, CreateLookup(c, i)
      PROVE  Kept
  <2>1. TypeOK'
    BY <1>1 DEF CreateLookup, TypeOK, BuiltInv, CallInv
  <2>2. BuiltInv'
    BY <1>1 DEF CreateLookup, BuiltInv, TypeOK
  <2>3. CallInv'
    BY <1>1 DEF CreateLookup, CallInv, TypeOK
  <2>4. LockInv'
    BY <1>1 DEF CreateLookup, LockInv, CallInv, BuiltInv, TypeOK
  <2>5. Admission => AdmissionInv'
    BY <1>1 DEF CreateLookup, AdmissionInv, LockInv, CallInv, BuiltInv, OwnWorkEndsFirst, TypeOK
  <2>6. Admission => OwnWorkEndsFirst'
    BY <1>1 DEF CreateLookup, OwnWorkEndsFirst, LockInv, CallInv, BuiltInv, TypeOK
  <2> QED
    BY <2>1, <2>2, <2>3, <2>4, <2>5, <2>6
<1>2. ASSUME NEW c \in Calls, Realize(c)
      PROVE  Kept
  <2>1. TypeOK'
    BY <1>2 DEF Realize, TypeOK, BuiltInv, CallInv
  <2>2. BuiltInv'
    BY <1>2 DEF Realize, BuiltInv, TypeOK
  <2>3. CallInv'
    BY <1>2 DEF Realize, CallInv, TypeOK
  <2>4. LockInv'
    BY <1>2 DEF Realize, LockInv, CallInv, BuiltInv, TypeOK
  <2>5. Admission => AdmissionInv'
    BY <1>2 DEF Realize, AdmissionInv, LockInv, CallInv, BuiltInv, OwnWorkEndsFirst, TypeOK
  <2>6. Admission => OwnWorkEndsFirst'
    BY <1>2 DEF Realize, OwnWorkEndsFirst, LockInv, CallInv, BuiltInv, TypeOK
  <2> QED
    BY <2>1, <2>2, <2>3, <2>4, <2>5, <2>6
<1>3. ASSUME NEW c \in Calls, WriteRecord(c)
      PROVE  Kept
  <2>1. TypeOK'
    BY <1>3 DEF WriteRecord, WriteOk, WriteFails, TypeOK, BuiltInv, CallInv
  <2>2. BuiltInv'
    BY <1>3 DEF WriteRecord, WriteOk, WriteFails, BuiltInv, TypeOK
  <2>3. CallInv'
    BY <1>3 DEF WriteRecord, WriteOk, WriteFails, CallInv, TypeOK
  <2>4. LockInv'
    BY <1>3 DEF WriteRecord, WriteOk, WriteFails, LockInv, CallInv, BuiltInv, TypeOK
  <2>5. Admission => AdmissionInv'
    BY <1>3 DEF WriteRecord, WriteOk, WriteFails, AdmissionInv, LockInv, CallInv, BuiltInv,
       OwnWorkEndsFirst, TypeOK
  <2>6. Admission => OwnWorkEndsFirst'
    BY <1>3 DEF WriteRecord, WriteOk, WriteFails, OwnWorkEndsFirst, LockInv, CallInv, BuiltInv,
       TypeOK
  <2> QED
    BY <2>1, <2>2, <2>3, <2>4, <2>5, <2>6
<1>4. ASSUME NEW c \in Calls, NEW h \in Handles, CacheNew(c, h)
      PROVE  Kept
  <2> USE <1>4 DEF CacheNew
  <2>0. of[c] \in Ids /\ id[h] = None /\ on[c] # h
    BY UnbuiltIsUnknown DEF CallInv, TypeOK, CacheHandle
  <2>a. \/ pc[c] = "cache" /\ known' = known \cup {h} /\ Return(c)
        \/ /\ pc[c] = "adopted" /\ Goto(c, "check") /\ on' = [on EXCEPT ![c] = h]
           /\ UNCHANGED <<known, of, want>>
    OBVIOUS
  <2>b. /\ CacheHandle(h, of[c], "Running")
        /\ UNCHANGED <<generation, busy, lock, orphans, diskVars, torn, losses>>
    BY DEF CacheHandle
  <2>1. TypeOK'
    <3>1. pc' \in [Calls -> PcStates] /\ on' \in [Calls -> Handles \cup {None}]
      BY <2>a DEF TypeOK
    <3>2. /\ of' \in [Calls -> Ids \cup {None}] /\ want' \in [Calls -> States]
          /\ known' \subseteq Handles
      BY <2>a DEF TypeOK
    <3> QED
      BY <2>0, <2>b, <3>1, <3>2, CacheHandleType DEF TypeOK
  <2>c. /\ \A d \in Calls : d # c => /\ pc'[d] = pc[d] /\ on'[d] = on[d] /\ want'[d] = want[d]
                                     /\ of'[d] = of[d]
        /\ \/ pc'[c] = "idle" /\ on'[c] = None
           \/ pc'[c] = "check" /\ on'[c] = h
        /\ known' \subseteq known \cup {h}
    BY <2>a DEF TypeOK
  <2>d. /\ id' = [id EXCEPT ![h] = of[c]] /\ cache' = [cache EXCEPT ![of[c]] = h]
        /\ state'[h] = "Running"
        /\ \A k \in Handles : k # h => accepting'[k] = accepting[k] /\ state'[k] = state[k]
    BY <2>0, <2>b DEF CacheHandle, TypeOK
  <2>2. BuiltInv'
    BY <2>0, <2>b, <2>c, <2>d, UnbuiltIsUnknown DEF BuiltInv, TypeOK
  <2>3. CallInv'
    BY <2>c, <2>d DEF CallInv, TypeOK
  <2>4. LockInv'
    BY <2>0, <2>b, <2>c, <2>d, UnbuiltIsUnknown DEF LockInv, CallInv, TypeOK
  <2>5. Admission => AdmissionInv'
    BY <2>0, <2>b, <2>c, <2>d, UnbuiltIsUnknown DEF AdmissionInv, LockInv, TypeOK
  <2>6. Admission => OwnWorkEndsFirst'
    BY <2>0, <2>b, <2>c, <2>d, UnbuiltIsUnknown DEF OwnWorkEndsFirst, CallInv, TypeOK
  <2> QED
    BY <2>1, <2>2, <2>3, <2>4, <2>5, <2>6
<1> QED
    BY <1>1, <1>2, <1>3, <1>4

\* attach and delete by id.
LEMMA AttachKept ==
    ASSUME Base,
           \/ \E c \in Calls, i \in Ids : Attach(c, i)
           \/ \E c \in Calls, i \in Ids : DeleteById(c, i)
           \/ \E c \in Calls : Check(c)
    PROVE  Kept
<1> USE NoneIsApart DEF Base, Admission, Kept, diskVars, handleVars, callVars, Goto, Return,
       PcStates, Building, Holding, OnHandle, States
<1>1. ASSUME NEW c \in Calls, NEW i \in Ids, Attach(c, i)
      PROVE  Kept
  <2> USE <1>1 DEF Attach
  <2>a. CASE /\ cache[i] # None
             /\ Goto(c, "check") /\ on' = [on EXCEPT ![c] = cache[i]]
             /\ want' = [want EXCEPT ![c] = want[c]]
             /\ UNCHANGED <<cache, handleVars, of>>
    <3>1. TypeOK'
      BY <2>a DEF TypeOK
    <3>2. BuiltInv' /\ CallInv'
      BY <2>a DEF BuiltInv, CallInv, TypeOK
    <3>3. LockInv' /\ (Admission => Admission')
      BY <2>a DEF LockInv, AdmissionInv, OwnWorkEndsFirst, CallInv, TypeOK
    <3> QED
      BY <3>1, <3>2, <3>3
  <2>b. ASSUME NEW h \in Handles, record[i] \in {"Running", "Stopped"},
               CacheHandle(h, i, record[i]),
               Goto(c, "check"), on' = [on EXCEPT ![c] = h],
               want' = [want EXCEPT ![c] = want[c]], UNCHANGED of
        PROVE  Kept
    <3>0. /\ id[h] = None /\ record[i] \in States
          /\ UNCHANGED <<generation, busy, lock, orphans, diskVars, known, torn, losses>>
      BY <2>b DEF CacheHandle
    <3>1. TypeOK'
      BY <2>b, <3>0, CacheHandleType DEF TypeOK
    <3>2. BuiltInv'
      BY <2>b, <3>0, UnbuiltIsUnknown DEF BuiltInv, TypeOK, CacheHandle
    <3>3. CallInv'
      BY <2>b, <3>0 DEF CallInv, TypeOK
    <3>4. LockInv'
      BY <2>b, <3>0, UnbuiltIsUnknown DEF LockInv, CallInv, TypeOK, CacheHandle
    <3>5. Admission => AdmissionInv'
      <4>1. /\ accepting'[h] => record[i] = "Running"
            /\ \A k \in Handles : k # h => accepting'[k] = accepting[k]
        BY <2>b, <3>0, CacheHandleType
      <4>2. state'[h] = record[i] /\ \A k \in Handles : k # h => state'[k] = state[k]
        BY <2>b DEF CacheHandle, TypeOK
      <4> QED
        BY <2>b, <3>0, <4>1, <4>2 DEF AdmissionInv, LockInv, TypeOK
    <3>6. Admission => OwnWorkEndsFirst'
      BY <2>b, <3>0, UnbuiltIsUnknown DEF OwnWorkEndsFirst, CallInv, TypeOK, CacheHandle
    <3> QED
      BY <3>1, <3>2, <3>3, <3>4, <3>5, <3>6
  <2>c. CASE /\ (IF i \in Managed THEN UNCHANGED <<pc, of>>
                             ELSE Room /\ Goto(c, "adopt") /\ of' = [of EXCEPT ![c] = i])
             /\ UNCHANGED <<cache, handleVars, on, want>>
    <3>1. TypeOK' /\ BuiltInv' /\ CallInv'
      BY <2>c DEF TypeOK, BuiltInv, CallInv
    <3>2. LockInv' /\ (Admission => Admission')
      BY <2>c DEF LockInv, AdmissionInv, OwnWorkEndsFirst, CallInv, TypeOK
    <3> QED
      BY <3>1, <3>2
  <2> QED
    BY <2>a, <2>b, <2>c DEF Load
<1>2. ASSUME NEW c \in Calls, NEW i \in Ids, DeleteById(c, i)
      PROVE  Kept
  <2> USE <1>2 DEF DeleteById
  <2>a. CASE /\ cache[i] # None
             /\ Goto(c, "lock") /\ on' = [on EXCEPT ![c] = cache[i]]
             /\ want' = [want EXCEPT ![c] = "Deleted"]
             /\ UNCHANGED <<cache, handleVars, of>>
    <3>1. TypeOK'
      BY <2>a DEF TypeOK
    <3>2. BuiltInv' /\ CallInv'
      BY <2>a DEF BuiltInv, CallInv, TypeOK
    <3>3. LockInv' /\ (Admission => Admission')
      BY <2>a DEF LockInv, AdmissionInv, OwnWorkEndsFirst, CallInv, TypeOK
    <3> QED
      BY <3>1, <3>2, <3>3
  <2>b. ASSUME NEW h \in Handles, record[i] \in {"Running", "Stopped"},
               CacheHandle(h, i, record[i]),
               Goto(c, "lock"), on' = [on EXCEPT ![c] = h],
               want' = [want EXCEPT ![c] = "Deleted"], UNCHANGED of
        PROVE  Kept
    <3>0. /\ id[h] = None /\ record[i] \in States
          /\ UNCHANGED <<generation, busy, lock, orphans, diskVars, known, torn, losses>>
      BY <2>b DEF CacheHandle
    <3>1. TypeOK'
      BY <2>b, <3>0, CacheHandleType DEF TypeOK
    <3>2. BuiltInv'
      BY <2>b, <3>0, UnbuiltIsUnknown DEF BuiltInv, TypeOK, CacheHandle
    <3>3. CallInv'
      BY <2>b, <3>0 DEF CallInv, TypeOK
    <3>4. LockInv'
      BY <2>b, <3>0, UnbuiltIsUnknown DEF LockInv, CallInv, TypeOK, CacheHandle
    <3>5. Admission => AdmissionInv'
      <4>1. /\ accepting'[h] => record[i] = "Running"
            /\ \A k \in Handles : k # h => accepting'[k] = accepting[k]
        BY <2>b, <3>0, CacheHandleType
      <4>2. state'[h] = record[i] /\ \A k \in Handles : k # h => state'[k] = state[k]
        BY <2>b DEF CacheHandle, TypeOK
      <4> QED
        BY <2>b, <3>0, <4>1, <4>2 DEF AdmissionInv, LockInv, TypeOK
    <3>6. Admission => OwnWorkEndsFirst'
      BY <2>b, <3>0, UnbuiltIsUnknown DEF OwnWorkEndsFirst, CallInv, TypeOK, CacheHandle
    <3> QED
      BY <3>1, <3>2, <3>3, <3>4, <3>5, <3>6
  <2>c. CASE UNCHANGED <<pc, of>> /\ UNCHANGED <<cache, handleVars, on, want>>
    <3>1. TypeOK' /\ BuiltInv' /\ CallInv'
      BY <2>c DEF TypeOK, BuiltInv, CallInv
    <3>2. LockInv' /\ (Admission => Admission')
      BY <2>c DEF LockInv, AdmissionInv, OwnWorkEndsFirst, CallInv, TypeOK
    <3> QED
      BY <3>1, <3>2
  <2> QED
    BY <2>a, <2>b, <2>c DEF Load
<1>3. ASSUME NEW c \in Calls, Check(c)
      PROVE  Kept
  <2>1. TypeOK'
    BY <1>3 DEF Check, TypeOK, BuiltInv, CallInv
  <2>2. BuiltInv'
    <3>1. on[c] # None
      BY <1>3 DEF Check, CallInv
    <3>2. /\ UNCHANGED <<id, cache, busy>> /\ on' = [on EXCEPT ![c] = None]
          /\ known' \subseteq known \cup {on[c]}
      BY <1>3 DEF Check
    <3> QED
      BY <3>1, <3>2 DEF BuiltInv, TypeOK
  <2>3. CallInv'
    BY <1>3 DEF Check, CallInv, TypeOK
  <2>4. LockInv'
    BY <1>3 DEF Check, LockInv, CallInv, BuiltInv, TypeOK
  <2>5. Admission => AdmissionInv'
    BY <1>3 DEF Check, AdmissionInv, LockInv, CallInv, BuiltInv, OwnWorkEndsFirst, TypeOK
  <2>6. Admission => OwnWorkEndsFirst'
    BY <1>3 DEF Check, OwnWorkEndsFirst, LockInv, CallInv, BuiltInv, TypeOK
  <2> QED
    BY <2>1, <2>2, <2>3, <2>4, <2>5, <2>6
<1> QED
    BY <1>1, <1>2, <1>3

\* A transition of a handle.
LEMMA TransitionKept ==
    ASSUME Base,
           \/ \E c \in Calls, h \in Handles, target \in States : Begin(c, h, target)
           \/ \E c \in Calls : Lock(c)
           \/ \E c \in Calls : Admit(c)
           \/ \E c \in Calls : RemoveWorkspace(c)
           \/ \E c \in Calls : Persist(c)
           \/ \E c \in Calls : Rollback(c)
           \/ \E c \in Calls : Evict(c)
    PROVE  Kept
<1> USE NoneIsApart DEF Base, Admission, Kept, diskVars, handleVars, callVars, Goto, Return,
       PcStates, Building, Holding, OnHandle, States
<1>1. ASSUME NEW c \in Calls, NEW h \in Handles, NEW target \in States, Begin(c, h, target)
      PROVE  Kept
  <2>1. TypeOK'
    BY <1>1 DEF Begin, TypeOK, BuiltInv, CallInv
  <2>2. BuiltInv'
    BY <1>1 DEF Begin, BuiltInv, TypeOK
  <2>3. CallInv'
    BY <1>1 DEF Begin, CallInv, TypeOK
  <2>4. LockInv'
    BY <1>1 DEF Begin, LockInv, CallInv, BuiltInv, TypeOK
  <2>5. Admission => AdmissionInv'
    BY <1>1 DEF Begin, AdmissionInv, LockInv, CallInv, BuiltInv, OwnWorkEndsFirst, TypeOK
  <2>6. Admission => OwnWorkEndsFirst'
    BY <1>1 DEF Begin, OwnWorkEndsFirst, LockInv, CallInv, BuiltInv, TypeOK
  <2> QED
    BY <2>1, <2>2, <2>3, <2>4, <2>5, <2>6
<1>2. ASSUME NEW c \in Calls, Lock(c)
      PROVE  Kept
  <2>1. TypeOK'
    BY <1>2 DEF Lock, TypeOK, BuiltInv, CallInv
  <2>2. BuiltInv'
    BY <1>2 DEF Lock, BuiltInv, TypeOK
  <2>3. CallInv'
    BY <1>2 DEF Lock, CallInv, TypeOK
  <2>4. LockInv'
    BY <1>2 DEF Lock, LockInv, CallInv, BuiltInv, TypeOK
  <2>5. Admission => AdmissionInv'
    BY <1>2 DEF Lock, AdmissionInv, LockInv, CallInv, BuiltInv, OwnWorkEndsFirst, TypeOK
  <2>6. Admission => OwnWorkEndsFirst'
    BY <1>2 DEF Lock, OwnWorkEndsFirst, LockInv, CallInv, BuiltInv, TypeOK
  <2> QED
    BY <2>1, <2>2, <2>3, <2>4, <2>5, <2>6
<1>3. ASSUME NEW c \in Calls, Admit(c)
      PROVE  Kept
  <2> USE <1>3 DEF Admit
  <2>0. /\ on[c] \in Handles /\ lock[on[c]] = c /\ (want[c] = "Running") \in BOOLEAN
        /\ \/ AdmitOk(on[c], want[c] = "Running") \/ AdmitFails(on[c], want[c] = "Running")
        /\ UNCHANGED <<diskVars, cache, id, state, known, torn, losses>>
    BY DEF CallInv, LockInv, TypeOK
  <2>a. \/ /\ AdmitOk(on[c], want[c] = "Running")
           /\ Goto(c, IF want[c] = "Deleted" THEN "work" ELSE "persist")
           /\ UNCHANGED <<on, of, want, lock>>
        \/ AdmitFails(on[c], want[c] = "Running") /\ Unlock(c) /\ Return(c)
    OBVIOUS
  <2>1. TypeOK'
    <3>1. /\ pc' \in [Calls -> PcStates] /\ on' \in [Calls -> Handles \cup {None}]
          /\ of' \in [Calls -> Ids \cup {None}] /\ want' \in [Calls -> States]
          /\ lock' \in [Handles -> Calls \cup {None}]
      BY <2>a DEF Unlock, TypeOK
    <3>2. /\ accepting' \in [Handles -> BOOLEAN]
          /\ generation' \in [Handles -> {"none", "open", "lost"}]
          /\ busy' \subseteq busy /\ orphans' \subseteq orphans
      BY <2>0, AdmitWorkType
    <3> QED
      BY <2>0, <3>1, <3>2 DEF TypeOK
  <2>2. BuiltInv'
    <3>1. busy' \subseteq busy
      BY <2>0, AdmitWorkType
    <3> QED
      BY <2>0, <2>a, <3>1 DEF BuiltInv, TypeOK
  <2>3. CallInv'
    BY <2>a DEF CallInv, TypeOK
  <2>4. LockInv'
    BY <2>0, <2>a DEF LockInv, Unlock, CallInv, TypeOK
  <2>5. Admission => AdmissionInv'
    <3>1. \A k \in Handles : k # on[c] => accepting'[k] = accepting[k]
      BY <2>0, AdmitWorkType
    <3>2. accepting'[on[c]] => want[c] = "Running" /\ ~ AdmitFails(on[c], want[c] = "Running")
      BY <2>0, AdmitWorkType
    <3>3. CASE accepting'[on[c]]
      BY <2>0, <2>a, <3>1, <3>2, <3>3 DEF AdmissionInv, LockInv, TypeOK
    <3>4. CASE ~ accepting'[on[c]]
      BY <2>0, <2>a, <3>1, <3>4 DEF AdmissionInv, LockInv, Unlock, TypeOK
    <3> QED
      BY <3>3, <3>4
  <2>6. Admission => OwnWorkEndsFirst'
    <3>1. \A k \in Handles : k # on[c] => accepting'[k] = accepting[k]
      BY <2>0, AdmitWorkType
    <3>2. busy' \subseteq busy
      BY <2>0, AdmitWorkType
    <3>3. AdmitOk(on[c], want[c] = "Running") /\ want[c] # "Running" =>
            on[c] \notin busy' /\ ~ accepting'[on[c]]
      BY <2>0, AdmitWorkType
    <3> QED
      BY <2>0, <2>a, <3>1, <3>2, <3>3 DEF OwnWorkEndsFirst, LockInv, Unlock, CallInv, TypeOK
  <2> QED
    BY <2>1, <2>2, <2>3, <2>4, <2>5, <2>6
<1>4. ASSUME NEW c \in Calls, RemoveWorkspace(c)
      PROVE  Kept
  <2>1. TypeOK'
    BY <1>4 DEF RemoveWorkspace, TypeOK, BuiltInv, CallInv
  <2>2. BuiltInv'
    BY <1>4 DEF RemoveWorkspace, BuiltInv, TypeOK
  <2>3. CallInv'
    BY <1>4 DEF RemoveWorkspace, CallInv, TypeOK
  <2>4. LockInv'
    BY <1>4 DEF RemoveWorkspace, LockInv, CallInv, BuiltInv, TypeOK
  <2>5. Admission => AdmissionInv'
    BY <1>4 DEF RemoveWorkspace, AdmissionInv, LockInv, CallInv, BuiltInv, OwnWorkEndsFirst, TypeOK
  <2>6. Admission => OwnWorkEndsFirst'
    BY <1>4 DEF RemoveWorkspace, OwnWorkEndsFirst, LockInv, CallInv, BuiltInv, TypeOK
  <2> QED
    BY <2>1, <2>2, <2>3, <2>4, <2>5, <2>6
<1>5. ASSUME NEW c \in Calls, Persist(c)
      PROVE  Kept
  <2>1. TypeOK'
    <3>1. record' \in [Ids -> States \cup {None}] /\ state' \in [Handles -> States]
      BY <1>5 DEF Persist, WriteOk, WriteFails, TypeOK
    <3>2. lock' \in [Handles -> Calls \cup {None}] /\ torn' \in [Handles -> SUBSET States]
      BY <1>5 DEF Persist, Unlock, Mend, Tear, TypeOK
    <3>3. pc' \in [Calls -> PcStates] /\ on' \in [Calls -> Handles \cup {None}]
      BY <1>5 DEF Persist, TypeOK
    <3>4. of' \in [Calls -> Ids \cup {None}] /\ want' \in [Calls -> States]
      BY <1>5 DEF Persist, TypeOK
    <3> QED
      BY <1>5, <3>1, <3>2, <3>3, <3>4 DEF Persist, TypeOK
  <2>2. BuiltInv'
    BY <1>5 DEF Persist, WriteOk, WriteFails, Unlock, BuiltInv, TypeOK
  <2>3. CallInv'
    BY <1>5 DEF Persist, WriteOk, WriteFails, Unlock, CallInv, TypeOK
  <2>4. LockInv'
    BY <1>5 DEF Persist, WriteOk, WriteFails, Unlock, LockInv, CallInv, BuiltInv, TypeOK
  <2>5. Admission => AdmissionInv'
    BY <1>5 DEF Persist, WriteOk, WriteFails, Unlock, AdmissionInv, LockInv, CallInv, BuiltInv,
       OwnWorkEndsFirst, TypeOK
  <2>6. Admission => OwnWorkEndsFirst'
    BY <1>5 DEF Persist, WriteOk, WriteFails, Unlock, OwnWorkEndsFirst, LockInv, CallInv,
       BuiltInv, TypeOK
  <2> QED
    BY <2>1, <2>2, <2>3, <2>4, <2>5, <2>6
<1>6. ASSUME NEW c \in Calls, Rollback(c)
      PROVE  Kept
  <2> USE <1>6 DEF Rollback
  <2>0. /\ on[c] \in Handles /\ lock[on[c]] = c /\ (state[on[c]] = "Running") \in BOOLEAN
        /\ \/ AdmitOk(on[c], state[on[c]] = "Running")
           \/ AdmitFails(on[c], state[on[c]] = "Running")
        /\ UNCHANGED <<diskVars, cache, id, state, known, torn, losses>>
    BY DEF CallInv, LockInv, TypeOK
  <2>a. Unlock(c) /\ Return(c)
    OBVIOUS
  <2>1. TypeOK'
    <3>1. /\ pc' \in [Calls -> PcStates] /\ on' \in [Calls -> Handles \cup {None}]
          /\ of' \in [Calls -> Ids \cup {None}] /\ want' \in [Calls -> States]
          /\ lock' \in [Handles -> Calls \cup {None}]
      BY <2>a DEF Unlock, TypeOK
    <3>2. /\ accepting' \in [Handles -> BOOLEAN]
          /\ generation' \in [Handles -> {"none", "open", "lost"}]
          /\ busy' \subseteq busy /\ orphans' \subseteq orphans
      BY <2>0, AdmitWorkType
    <3> QED
      BY <2>0, <3>1, <3>2 DEF TypeOK
  <2>2. BuiltInv'
    <3>1. busy' \subseteq busy
      BY <2>0, AdmitWorkType
    <3> QED
      BY <2>0, <2>a, <3>1 DEF BuiltInv, TypeOK
  <2>3. CallInv'
    BY <2>a DEF CallInv, TypeOK
  <2>4. LockInv'
    BY <2>0, <2>a DEF LockInv, Unlock, CallInv, TypeOK
  <2>5. Admission => AdmissionInv'
    <3>1. \A k \in Handles : k # on[c] => accepting'[k] = accepting[k]
      BY <2>0, AdmitWorkType
    <3>2. accepting'[on[c]] => state[on[c]] = "Running"
      BY <2>0, AdmitWorkType
    <3> QED
      BY <2>0, <2>a, <3>1, <3>2 DEF AdmissionInv, LockInv, Unlock, TypeOK
  <2>6. Admission => OwnWorkEndsFirst'
    <3>1. \A k \in Handles : k # on[c] => accepting'[k] = accepting[k]
      BY <2>0, AdmitWorkType
    <3>2. busy' \subseteq busy
      BY <2>0, AdmitWorkType
    <3> QED
      BY <2>0, <2>a, <3>1, <3>2 DEF OwnWorkEndsFirst, LockInv, CallInv, TypeOK
  <2> QED
    BY <2>1, <2>2, <2>3, <2>4, <2>5, <2>6
<1>7. ASSUME NEW c \in Calls, Evict(c)
      PROVE  Kept
  <2>1. TypeOK'
    BY <1>7 DEF Evict, TypeOK, BuiltInv, CallInv
  <2>2. BuiltInv'
    BY <1>7 DEF Evict, BuiltInv, TypeOK
  <2>3. CallInv'
    BY <1>7 DEF Evict, CallInv, TypeOK
  <2>4. LockInv'
    BY <1>7 DEF Evict, LockInv, CallInv, BuiltInv, TypeOK
  <2>5. Admission => AdmissionInv'
    BY <1>7 DEF Evict, AdmissionInv, LockInv, CallInv, BuiltInv, OwnWorkEndsFirst, TypeOK
  <2>6. Admission => OwnWorkEndsFirst'
    BY <1>7 DEF Evict, OwnWorkEndsFirst, LockInv, CallInv, BuiltInv, TypeOK
  <2> QED
    BY <2>1, <2>2, <2>3, <2>4, <2>5, <2>6
<1> QED
    BY <1>1, <1>2, <1>3, <1>4, <1>5, <1>6, <1>7

\* Commands, handles and the provider's death.
LEMMA WorkKept ==
    ASSUME Base,
           \/ \E h \in Handles : Exec(h)
           \/ \E h \in Handles : WorkEnds(h)
           \/ \E h \in Handles : Release(h)
           \/ \E h \in Handles : Free(h)
           \/ \E i \in Ids : OrphansEnd(i)
           \/ Crash
    PROVE  Kept
<1> USE NoneIsApart DEF Base, Admission, Kept, diskVars, handleVars, callVars, Goto, Return,
       PcStates, Building, Holding, OnHandle, States
<1>1. ASSUME NEW h \in Handles, Exec(h)
      PROVE  Kept
  <2>1. TypeOK'
    BY <1>1 DEF Exec, TypeOK, BuiltInv, CallInv
  <2>2. BuiltInv'
    BY <1>1 DEF Exec, BuiltInv, TypeOK
  <2>3. CallInv'
    BY <1>1 DEF Exec, CallInv, TypeOK
  <2>4. LockInv'
    BY <1>1 DEF Exec, LockInv, CallInv, BuiltInv, TypeOK
  <2>5. Admission => AdmissionInv'
    BY <1>1 DEF Exec, AdmissionInv, LockInv, CallInv, BuiltInv, OwnWorkEndsFirst, TypeOK
  <2>6. Admission => OwnWorkEndsFirst'
    BY <1>1 DEF Exec, OwnWorkEndsFirst, LockInv, CallInv, BuiltInv, TypeOK
  <2> QED
    BY <2>1, <2>2, <2>3, <2>4, <2>5, <2>6
<1>2. ASSUME NEW h \in Handles, WorkEnds(h)
      PROVE  Kept
  <2>1. TypeOK'
    BY <1>2 DEF WorkEnds, TypeOK, BuiltInv, CallInv
  <2>2. BuiltInv'
    BY <1>2 DEF WorkEnds, BuiltInv, TypeOK
  <2>3. CallInv'
    BY <1>2 DEF WorkEnds, CallInv, TypeOK
  <2>4. LockInv'
    BY <1>2 DEF WorkEnds, LockInv, CallInv, BuiltInv, TypeOK
  <2>5. Admission => AdmissionInv'
    BY <1>2 DEF WorkEnds, AdmissionInv, LockInv, CallInv, BuiltInv, OwnWorkEndsFirst, TypeOK
  <2>6. Admission => OwnWorkEndsFirst'
    BY <1>2 DEF WorkEnds, OwnWorkEndsFirst, LockInv, CallInv, BuiltInv, TypeOK
  <2> QED
    BY <2>1, <2>2, <2>3, <2>4, <2>5, <2>6
<1>3. ASSUME NEW h \in Handles, Release(h)
      PROVE  Kept
  <2>1. TypeOK'
    BY <1>3 DEF Release, TypeOK, BuiltInv, CallInv
  <2>2. BuiltInv'
    BY <1>3 DEF Release, BuiltInv, TypeOK
  <2>3. CallInv'
    BY <1>3 DEF Release, CallInv, TypeOK
  <2>4. LockInv'
    BY <1>3 DEF Release, LockInv, CallInv, BuiltInv, TypeOK
  <2>5. Admission => AdmissionInv'
    BY <1>3 DEF Release, AdmissionInv, LockInv, CallInv, BuiltInv, OwnWorkEndsFirst, TypeOK
  <2>6. Admission => OwnWorkEndsFirst'
    BY <1>3 DEF Release, OwnWorkEndsFirst, LockInv, CallInv, BuiltInv, TypeOK
  <2> QED
    BY <2>1, <2>2, <2>3, <2>4, <2>5, <2>6
<1>4. ASSUME NEW h \in Handles, Free(h)
      PROVE  Kept
  <2>1. TypeOK'
    BY <1>4 DEF Free, Accept, Mend, TypeOK, BuiltInv, CallInv
  <2>2. BuiltInv'
    BY <1>4 DEF Free, Accept, BuiltInv, TypeOK
  <2>3. CallInv'
    BY <1>4 DEF Free, Accept, CallInv, TypeOK
  <2>4. LockInv'
    BY <1>4 DEF Free, Accept, LockInv, CallInv, BuiltInv, TypeOK
  <2>5. Admission => AdmissionInv'
    BY <1>4 DEF Free, Accept, AdmissionInv, LockInv, CallInv, BuiltInv, OwnWorkEndsFirst, TypeOK
  <2>6. Admission => OwnWorkEndsFirst'
    BY <1>4 DEF Free, Accept, OwnWorkEndsFirst, LockInv, CallInv, BuiltInv, TypeOK
  <2> QED
    BY <2>1, <2>2, <2>3, <2>4, <2>5, <2>6
<1>5. ASSUME NEW i \in Ids, OrphansEnd(i)
      PROVE  Kept
  <2>1. TypeOK'
    BY <1>5 DEF OrphansEnd, TypeOK, BuiltInv, CallInv
  <2>2. BuiltInv'
    BY <1>5 DEF OrphansEnd, BuiltInv, TypeOK
  <2>3. CallInv'
    BY <1>5 DEF OrphansEnd, CallInv, TypeOK
  <2>4. LockInv'
    BY <1>5 DEF OrphansEnd, LockInv, CallInv, BuiltInv, TypeOK
  <2>5. Admission => AdmissionInv'
    BY <1>5 DEF OrphansEnd, AdmissionInv, LockInv, CallInv, BuiltInv, OwnWorkEndsFirst, TypeOK
  <2>6. Admission => OwnWorkEndsFirst'
    BY <1>5 DEF OrphansEnd, OwnWorkEndsFirst, LockInv, CallInv, BuiltInv, TypeOK
  <2> QED
    BY <2>1, <2>2, <2>3, <2>4, <2>5, <2>6
<1>6. CASE Crash
  <2>1. TypeOK'
    <3>1. orphans' \subseteq Ids
      BY <1>6 DEF Crash, BuiltInv, TypeOK
    <3>2. losses' \in 0 .. MaxLosses
      BY <1>6, HandlesAssumption DEF Crash, TypeOK
    <3> QED
      BY <1>6, <3>1, <3>2 DEF Crash, NoHandles, NoCalls, TypeOK
  <2>2. BuiltInv'
    BY <1>6 DEF Crash, NoHandles, NoCalls, BuiltInv, TypeOK
  <2>3. CallInv'
    BY <1>6 DEF Crash, NoHandles, NoCalls, CallInv, TypeOK
  <2>4. LockInv'
    BY <1>6 DEF Crash, NoHandles, NoCalls, LockInv, CallInv, BuiltInv, TypeOK
  <2>5. Admission => AdmissionInv'
    BY <1>6 DEF Crash, NoHandles, NoCalls, AdmissionInv, LockInv, CallInv, BuiltInv,
       OwnWorkEndsFirst, TypeOK
  <2>6. Admission => OwnWorkEndsFirst'
    BY <1>6 DEF Crash, NoHandles, NoCalls, OwnWorkEndsFirst, LockInv, CallInv, BuiltInv, TypeOK
  <2> QED
    BY <2>1, <2>2, <2>3, <2>4, <2>5, <2>6
<1> QED
    BY <1>1, <1>2, <1>3, <1>4, <1>5, <1>6

-----------------------------------------------------------------------------
\* The initial state satisfies the inductive invariant.
LEMMA InitIInv == Init => IInv
<1> USE NoneIsApart DEF Init
<1>1. Init => TypeOK
    BY HandlesAssumption DEF TypeOK, States, PcStates
<1>2. Init => BuiltInv /\ CallInv /\ LockInv /\ AdmissionInv /\ OwnWorkEndsFirst
    BY DEF BuiltInv, CallInv, LockInv, AdmissionInv, OwnWorkEndsFirst, Building, Holding, OnHandle
<1> QED
    BY <1>1, <1>2 DEF IInv, Base, Admission

\* Every step, whichever call takes it, keeps the inductive invariant.
LEMMA NextKept ==
    ASSUME Base, [Next]_vars
    PROVE  Kept
<1>1. CASE UNCHANGED vars
  <2> USE <1>1 DEF vars, diskVars, handleVars, callVars, Base
  <2>1. TypeOK' /\ BuiltInv' /\ CallInv'
    BY DEF TypeOK, BuiltInv, CallInv
  <2>2. LockInv' /\ (Admission => Admission')
    BY DEF LockInv, Admission, AdmissionInv, OwnWorkEndsFirst
  <2> QED
    BY <2>1, <2>2 DEF Kept
<1>2. CASE \E c \in Calls, i \in Ids : CreateLookup(c, i) \/ Attach(c, i) \/ DeleteById(c, i)
    BY <1>2, CreateKept, AttachKept
<1>3. CASE \E c \in Calls, h \in Handles, target \in States : Begin(c, h, target)
    BY <1>3, TransitionKept
<1>4. ASSUME NEW c \in Calls, CallStep(c)
      PROVE  Kept
    BY <1>4, CreateKept, AttachKept, TransitionKept DEF CallStep
<1>5. CASE \/ \E h \in Handles : Exec(h) \/ WorkEnds(h) \/ Release(h) \/ Free(h)
           \/ \E i \in Ids : OrphansEnd(i)
           \/ Crash
    BY <1>5, WorkKept
<1> QED
    BY <1>1, <1>2, <1>3, <1>4, <1>5 DEF Next

\* The invariant the results rest on, of every behaviour.
THEOREM Invariance == Spec => []IInv
<1>1. Init => IInv
    BY InitIInv
<1>2. IInv /\ [Next]_vars => IInv'
    BY NextKept DEF IInv, Kept
<1> QED
    BY <1>1, <1>2, PTL DEF Spec

\* Every variable of the provider keeps its type.
THEOREM TypeCorrect == Spec => []TypeOK
<1>1. IInv => TypeOK
    BY DEF IInv, Base
<1> QED
    BY <1>1, Invariance, PTL

\* A handle nobody is changing that reports Stopped or Deleted admits no
\* command, whatever failed and was rolled back and however many callers there
\* are.
THEOREM StoppedHandlesRefuseWork == Spec => []StoppedRefusesWork
<1>1. IInv => StoppedRefusesWork
    BY DEF IInv, Admission, AdmissionInv, StoppedRefusesWork, AtRest
<1> QED
    BY <1>1, Invariance, PTL

\* From its drain until its tombstone is written, no command of the handle
\* that deletes a managed workspace runs and none is admitted.
THEOREM WorkEndsBeforeDeletion == Spec => []OwnWorkEndsFirst
<1>1. IInv => OwnWorkEndsFirst
    BY DEF IInv, Admission
<1> QED
    BY <1>1, Invariance, PTL

\* A handle some caller has that reported Deleted never reports anything else.
THEOREM DeletionIsFinal == Spec => DeletedIsFinal
<1>1. ASSUME IInv, [Next]_vars, NEW h \in known \cap known', state[h] = "Deleted"
      PROVE  state'[h] = "Deleted"
  <2> USE DEF diskVars, handleVars, callVars
  <2>0. h \in Handles /\ id[h] # None
    BY <1>1 DEF IInv, Base, TypeOK, BuiltInv
  <2>1. CASE UNCHANGED vars
    BY <1>1, <2>1 DEF vars
  <2>2. ASSUME NEW c \in Calls, NEW i \in Ids,
               CreateLookup(c, i) \/ Attach(c, i) \/ DeleteById(c, i)
        PROVE  state'[h] = "Deleted"
    BY <1>1, <2>0, <2>2 DEF CreateLookup, Attach, DeleteById, Load, CacheHandle, IInv, Base, TypeOK
  <2>3. CASE \E c \in Calls, k \in Handles, target \in States : Begin(c, k, target)
    BY <1>1, <2>3 DEF Begin
  <2>4. ASSUME NEW c \in Calls, CallStep(c), ~ Persist(c), \A k \in Handles : ~ CacheNew(c, k)
        PROVE  state' = state
    BY <2>4 DEF CallStep, Realize, WriteRecord, Check, Lock, Admit, RemoveWorkspace, Rollback, Evict
  <2>5. ASSUME NEW c \in Calls, Persist(c)
        PROVE  state'[h] = "Deleted"
    <3>1. on[c] # h
      BY <1>1, <2>5 DEF IInv, Base, LockInv, Persist, Holding
    <3> QED
      BY <1>1, <2>0, <2>5, <3>1 DEF Persist, IInv, Base, TypeOK
  <2>6. ASSUME NEW c \in Calls, NEW k \in Handles, CacheNew(c, k)
        PROVE  state'[h] = "Deleted"
    BY <1>1, <2>0, <2>6 DEF CacheNew, CacheHandle, IInv, Base, TypeOK
  <2>7. CASE \E k \in Handles : Exec(k) \/ WorkEnds(k) \/ Release(k)
    BY <1>1, <2>7 DEF Exec, WorkEnds, Release
  <2>8. ASSUME NEW k \in Handles, Free(k)
        PROVE  state'[h] = "Deleted"
    BY <1>1, <2>0, <2>8 DEF Free, IInv, Base, TypeOK
  <2>9. CASE (\E i \in Ids : OrphansEnd(i)) \/ Crash
    BY <1>1, <2>9 DEF OrphansEnd, Crash
  <2> QED
    BY <1>1, <2>1, <2>2, <2>3, <2>4, <2>5, <2>6, <2>7, <2>8, <2>9 DEF Next
<1>2. IInv /\ [Next]_vars =>
        [\A h \in known \cap known' : state[h] = "Deleted" => state'[h] = "Deleted"]_vars
    BY <1>1
<1> QED
    BY <1>2, Invariance, PTL DEF Spec, DeletedIsFinal

-----------------------------------------------------------------------------
(* Managed sandboxes used by one caller at a time, who may drop any call.   *)

\* A handle that is not deleted is the cached one ...
CachedInv ==
    \A h \in Handles : id[h] # None /\ state[h] # "Deleted" => cache[id[h]] = h

\* ... and an id whose handle is deleted has no other, on disk neither.
DeadInv ==
    \A h, k \in Handles : id[h] # None /\ id[k] = id[h] /\ state[h] = "Deleted" =>
        state[k] = "Deleted" /\ record[id[h]] = "Deleted"

\* The record of a handle is there, and holds its state or that of a write not
\* seen to succeed; a handle not built yet has no such write.
DurableInv ==
    \A h \in Handles :
        /\ id[h] # None => record[id[h]] # None /\ record[id[h]] \in {state[h]} \cup torn[h]
        /\ id[h] = None => torn[h] = {}

\* An id that is being created has no handle yet, and an evicted handle is deleted.
FreshInv ==
    \A c \in Calls :
        /\ pc[c] \in {"realize", "write", "cache"} => \A h \in Handles : id[h] # of[c]
        /\ pc[c] \in {"realize", "write"} => record[of[c]] = None
        /\ pc[c] = "cache" => record[of[c]] = "Running"
        /\ pc[c] = "evict" => state[on[c]] = "Deleted"
        /\ pc[c] \notin {"adopt", "adopted"}

OneInv == CachedInv /\ DeadInv /\ DurableInv /\ FreshInv

\* Managed sandboxes, one call at a time.
OneCaller == (\A c, d \in Calls : c = d) /\ Managed = Ids

\* Dropping a call releases what it held.
LEMMA DropKeepsBase ==
    ASSUME Base, NEW c \in Calls, DropCall(c)
    PROVE  Base'
<1> USE NoneIsApart DEF Base, DropCall, Return, PcStates, Building, Holding, OnHandle, States
<1>1. TypeOK'
  <2>1. record' \in [Ids -> States \cup {None}]
    BY DEF TypeOK
  <2>2. accepting' \in [Handles -> BOOLEAN]
    BY DEF Accept, TypeOK
  <2>3. torn' \in [Handles -> SUBSET States]
    BY DEF Tear, TypeOK
  <2> QED
    BY <2>1, <2>2, <2>3 DEF TypeOK
<1>2. BuiltInv' /\ CallInv'
    BY DEF BuiltInv, CallInv, TypeOK
<1>3. LockInv'
    BY DEF LockInv, CallInv, TypeOK
<1> QED
    BY <1>1, <1>2, <1>3

\* A handle that is being changed is the only one of its sandbox.
LEMMA OnlyHandle ==
    ASSUME Base, OneInv, NEW c \in Calls, pc[c] \in Holding, NEW k \in Handles, id[k] = id[on[c]]
    PROVE  k = on[c]
<1>1. on[c] \in Handles /\ id[on[c]] # None /\ state[on[c]] # "Deleted"
    BY DEF Base, TypeOK, CallInv, BuiltInv, LockInv, Holding, OnHandle
<1>2. state[k] # "Deleted"
    BY <1>1 DEF OneInv, DeadInv
<1> QED
    BY <1>1, <1>2 DEF OneInv, CachedInv

\* create, attach and delete by id keep one handle per id.
LEMMA OneBuilds ==
    ASSUME OneCaller, Base, Base', OneInv,
           \/ \E c \in Calls, i \in Ids : CreateLookup(c, i)
           \/ \E c \in Calls : Realize(c)
           \/ \E c \in Calls : WriteRecord(c)
           \/ \E c \in Calls, h \in Handles : CacheNew(c, h)
           \/ \E c \in Calls, i \in Ids : Attach(c, i)
           \/ \E c \in Calls, i \in Ids : DeleteById(c, i)
           \/ \E c \in Calls : Check(c)
    PROVE  OneInv'
<1> USE NoneIsApart DEF OneCaller, OneInv, Base, diskVars, handleVars, callVars, Goto, Return,
       Building, Holding, OnHandle, States
<1>1. ASSUME NEW c \in Calls, NEW i \in Ids, CreateLookup(c, i)
      PROVE  OneInv'
  <2>1. CachedInv'
    BY <1>1 DEF CreateLookup, CachedInv, FreshInv, BuiltInv, TypeOK
  <2>2. DeadInv'
    BY <1>1 DEF CreateLookup, DeadInv, CachedInv, FreshInv, LockInv, CallInv, TypeOK
  <2>3. DurableInv'
    BY <1>1 DEF CreateLookup, DurableInv, DeadInv, CachedInv, FreshInv, LockInv, CallInv, TypeOK
  <2>4. FreshInv'
    BY <1>1 DEF CreateLookup, FreshInv, DurableInv, CallInv, TypeOK
  <2> QED
    BY <2>1, <2>2, <2>3, <2>4
<1>2. ASSUME NEW c \in Calls, Realize(c)
      PROVE  OneInv'
  <2>1. CachedInv'
    BY <1>2 DEF Realize, CachedInv, FreshInv, BuiltInv, TypeOK
  <2>2. DeadInv'
    BY <1>2 DEF Realize, DeadInv, CachedInv, FreshInv, LockInv, CallInv, TypeOK
  <2>3. DurableInv'
    BY <1>2 DEF Realize, DurableInv, DeadInv, CachedInv, FreshInv, LockInv, CallInv, TypeOK
  <2>4. FreshInv'
    BY <1>2 DEF Realize, FreshInv, DurableInv, CallInv, TypeOK
  <2> QED
    BY <2>1, <2>2, <2>3, <2>4
<1>3. ASSUME NEW c \in Calls, WriteRecord(c)
      PROVE  OneInv'
  <2>1. CachedInv'
    BY <1>3 DEF WriteRecord, WriteOk, WriteFails, CachedInv, FreshInv, BuiltInv, TypeOK
  <2>2. DeadInv'
    BY <1>3 DEF WriteRecord, WriteOk, WriteFails, DeadInv, CachedInv, FreshInv, LockInv, CallInv,
       TypeOK
  <2>3. DurableInv'
    BY <1>3 DEF WriteRecord, WriteOk, WriteFails, DurableInv, DeadInv, CachedInv, FreshInv,
       LockInv, CallInv, TypeOK
  <2>4. FreshInv'
    BY <1>3 DEF WriteRecord, WriteOk, WriteFails, FreshInv, DurableInv, CallInv, TypeOK
  <2> QED
    BY <2>1, <2>2, <2>3, <2>4
<1>4. ASSUME NEW c \in Calls, NEW h \in Handles, CacheNew(c, h)
      PROVE  OneInv'
  <2>1. CachedInv'
    BY <1>4 DEF CacheNew, CacheHandle, CachedInv, FreshInv, CallInv, BuiltInv, TypeOK
  <2>2. DeadInv'
    BY <1>4 DEF CacheNew, CacheHandle, DeadInv, CachedInv, FreshInv, LockInv, CallInv, TypeOK
  <2>3. DurableInv'
    <3>1. /\ record[of[c]] = "Running" /\ of[c] \in Ids
          /\ \A k \in Handles : id[k] # of[c]
      BY <1>4 DEF CacheNew, FreshInv, CallInv, TypeOK
    <3>2. /\ id' = [id EXCEPT ![h] = of[c]] /\ state' = [state EXCEPT ![h] = "Running"]
          /\ UNCHANGED <<record, torn>>
      BY <1>4 DEF CacheNew, CacheHandle
    <3> QED
      BY <3>1, <3>2 DEF DurableInv, TypeOK
  <2>4. FreshInv'
    BY <1>4 DEF CacheNew, CacheHandle, FreshInv, DurableInv, CallInv, TypeOK
  <2> QED
    BY <2>1, <2>2, <2>3, <2>4
<1>5. ASSUME NEW c \in Calls, NEW i \in Ids, Attach(c, i)
      PROVE  OneInv'
  <2>1. CachedInv'
    BY <1>5 DEF Attach, Load, CacheHandle, CachedInv, FreshInv, BuiltInv, TypeOK
  <2>2. DeadInv'
    BY <1>5 DEF Attach, Load, CacheHandle, DeadInv, CachedInv, FreshInv, LockInv, CallInv, TypeOK
  <2>3. DurableInv'
    BY <1>5 DEF Attach, Load, CacheHandle, DurableInv, DeadInv, CachedInv, FreshInv, LockInv,
       CallInv, TypeOK
  <2>4. FreshInv'
    BY <1>5 DEF Attach, Load, CacheHandle, FreshInv, DurableInv, CallInv, TypeOK
  <2> QED
    BY <2>1, <2>2, <2>3, <2>4
<1>6. ASSUME NEW c \in Calls, NEW i \in Ids, DeleteById(c, i)
      PROVE  OneInv'
  <2>1. CachedInv'
    BY <1>6 DEF DeleteById, Load, CacheHandle, CachedInv, FreshInv, BuiltInv, TypeOK
  <2>2. DeadInv'
    BY <1>6 DEF DeleteById, Load, CacheHandle, DeadInv, CachedInv, FreshInv, LockInv, CallInv,
       TypeOK
  <2>3. DurableInv'
    BY <1>6 DEF DeleteById, Load, CacheHandle, DurableInv, DeadInv, CachedInv, FreshInv, LockInv,
       CallInv, TypeOK
  <2>4. FreshInv'
    BY <1>6 DEF DeleteById, Load, CacheHandle, FreshInv, DurableInv, CallInv, TypeOK
  <2> QED
    BY <2>1, <2>2, <2>3, <2>4
<1>7. ASSUME NEW c \in Calls, Check(c)
      PROVE  OneInv'
  <2>1. CachedInv'
    BY <1>7 DEF Check, CachedInv, FreshInv, BuiltInv, TypeOK
  <2>2. DeadInv'
    BY <1>7 DEF Check, DeadInv, CachedInv, FreshInv, LockInv, CallInv, TypeOK
  <2>3. DurableInv'
    BY <1>7 DEF Check, DurableInv, DeadInv, CachedInv, FreshInv, LockInv, CallInv, TypeOK
  <2>4. FreshInv'
    BY <1>7 DEF Check, FreshInv, DurableInv, CallInv, TypeOK
  <2> QED
    BY <2>1, <2>2, <2>3, <2>4
<1> QED
    BY <1>1, <1>2, <1>3, <1>4, <1>5, <1>6, <1>7

\* A transition keeps it and its record together.
LEMMA OneTransition ==
    ASSUME OneCaller, Base, Base', OneInv,
           \/ \E c \in Calls, h \in Handles, target \in States : Begin(c, h, target)
           \/ \E c \in Calls : Lock(c)
           \/ \E c \in Calls : Admit(c)
           \/ \E c \in Calls : RemoveWorkspace(c)
           \/ \E c \in Calls : Persist(c)
           \/ \E c \in Calls : Rollback(c)
           \/ \E c \in Calls : Evict(c)
    PROVE  OneInv'
<1> USE NoneIsApart DEF OneCaller, OneInv, Base, diskVars, handleVars, callVars, Goto, Return,
       Building, Holding, OnHandle, States
<1>1. ASSUME NEW c \in Calls, NEW h \in Handles, NEW target \in States, Begin(c, h, target)
      PROVE  OneInv'
  <2>1. CachedInv'
    BY <1>1 DEF Begin, CachedInv, FreshInv, BuiltInv, TypeOK
  <2>2. DeadInv'
    BY <1>1 DEF Begin, DeadInv, CachedInv, FreshInv, LockInv, CallInv, TypeOK
  <2>3. DurableInv'
    BY <1>1 DEF Begin, DurableInv, DeadInv, CachedInv, FreshInv, LockInv, CallInv, TypeOK
  <2>4. FreshInv'
    BY <1>1 DEF Begin, FreshInv, DurableInv, CallInv, TypeOK
  <2> QED
    BY <2>1, <2>2, <2>3, <2>4
<1>2. ASSUME NEW c \in Calls, Lock(c)
      PROVE  OneInv'
  <2>1. CachedInv'
    BY <1>2 DEF Lock, CachedInv, FreshInv, BuiltInv, TypeOK
  <2>2. DeadInv'
    BY <1>2 DEF Lock, DeadInv, CachedInv, FreshInv, LockInv, CallInv, TypeOK
  <2>3. DurableInv'
    BY <1>2 DEF Lock, DurableInv, DeadInv, CachedInv, FreshInv, LockInv, CallInv, TypeOK
  <2>4. FreshInv'
    BY <1>2 DEF Lock, FreshInv, DurableInv, CallInv, TypeOK
  <2> QED
    BY <2>1, <2>2, <2>3, <2>4
<1>3. ASSUME NEW c \in Calls, Admit(c)
      PROVE  OneInv'
  <2>1. CachedInv'
    BY <1>3 DEF Admit, CachedInv, FreshInv, BuiltInv, TypeOK
  <2>2. DeadInv'
    BY <1>3 DEF Admit, DeadInv, CachedInv, FreshInv, LockInv, CallInv, TypeOK
  <2>3. DurableInv'
    BY <1>3 DEF Admit, DurableInv, DeadInv, CachedInv, FreshInv, LockInv, CallInv, TypeOK
  <2>4. FreshInv'
    BY <1>3 DEF Admit, FreshInv, DurableInv, CallInv, TypeOK
  <2> QED
    BY <2>1, <2>2, <2>3, <2>4
<1>4. ASSUME NEW c \in Calls, RemoveWorkspace(c)
      PROVE  OneInv'
  <2>1. CachedInv'
    BY <1>4 DEF RemoveWorkspace, CachedInv, FreshInv, BuiltInv, TypeOK
  <2>2. DeadInv'
    BY <1>4 DEF RemoveWorkspace, DeadInv, CachedInv, FreshInv, LockInv, CallInv, TypeOK
  <2>3. DurableInv'
    BY <1>4 DEF RemoveWorkspace, DurableInv, DeadInv, CachedInv, FreshInv, LockInv, CallInv, TypeOK
  <2>4. FreshInv'
    BY <1>4 DEF RemoveWorkspace, FreshInv, DurableInv, CallInv, TypeOK
  <2> QED
    BY <2>1, <2>2, <2>3, <2>4
<1>5. ASSUME NEW c \in Calls, Persist(c)
      PROVE  OneInv'
  <2>1. CachedInv'
    BY <1>5 DEF Persist, CachedInv, LockInv, CallInv, BuiltInv, TypeOK
  <2>2. DeadInv'
    BY <1>5 DEF Persist, WriteOk, WriteFails, DeadInv, CachedInv, FreshInv, LockInv, CallInv, TypeOK
  <2>3. DurableInv'
    <3>1. on[c] \in Handles /\ id[on[c]] \in Ids /\ id' = id
      BY <1>5 DEF Persist, CallInv, BuiltInv, TypeOK
    <3>2. \A k \in Handles : id[k] = id[on[c]] => k = on[c]
      BY <1>5, OnlyHandle DEF Persist
    <3>3. CASE WriteOk(id[on[c]], want[c]) /\ state' = [state EXCEPT ![on[c]] = want[c]] /\ Mend(on[c])
      BY <1>5, <3>1, <3>2, <3>3 DEF Persist, WriteOk, Mend, DurableInv, TypeOK
    <3>4. CASE WriteFails(id[on[c]], want[c]) /\ Tear(on[c], want[c]) /\ UNCHANGED state
      BY <1>5, <3>1, <3>2, <3>4 DEF Persist, WriteOk, WriteFails, Tear, DurableInv, TypeOK
    <3> QED
      BY <1>5, <3>3, <3>4 DEF Persist
  <2>4. FreshInv'
    BY <1>5 DEF Persist, WriteOk, WriteFails, FreshInv, DurableInv, CallInv, TypeOK
  <2> QED
    BY <2>1, <2>2, <2>3, <2>4
<1>6. ASSUME NEW c \in Calls, Rollback(c)
      PROVE  OneInv'
  <2>1. CachedInv'
    BY <1>6 DEF Rollback, CachedInv, FreshInv, BuiltInv, TypeOK
  <2>2. DeadInv'
    BY <1>6 DEF Rollback, DeadInv, CachedInv, FreshInv, LockInv, CallInv, TypeOK
  <2>3. DurableInv'
    BY <1>6 DEF Rollback, DurableInv, DeadInv, CachedInv, FreshInv, LockInv, CallInv, TypeOK
  <2>4. FreshInv'
    BY <1>6 DEF Rollback, FreshInv, DurableInv, CallInv, TypeOK
  <2> QED
    BY <2>1, <2>2, <2>3, <2>4
<1>7. ASSUME NEW c \in Calls, Evict(c)
      PROVE  OneInv'
  <2>1. CachedInv'
    BY <1>7 DEF Evict, CachedInv, DeadInv, FreshInv, CallInv, BuiltInv, TypeOK
  <2>2. DeadInv'
    BY <1>7 DEF Evict, DeadInv, CachedInv, FreshInv, LockInv, CallInv, TypeOK
  <2>3. DurableInv'
    BY <1>7 DEF Evict, DurableInv, DeadInv, CachedInv, FreshInv, LockInv, CallInv, TypeOK
  <2>4. FreshInv'
    BY <1>7 DEF Evict, FreshInv, DurableInv, CallInv, TypeOK
  <2> QED
    BY <2>1, <2>2, <2>3, <2>4
<1> QED
    BY <1>1, <1>2, <1>3, <1>4, <1>5, <1>6, <1>7

\* Commands, handles, the death of the provider and dropped calls.
LEMMA OneEvent ==
    ASSUME OneCaller, Base, Base', OneInv,
           \/ \E h \in Handles : Exec(h)
           \/ \E h \in Handles : WorkEnds(h)
           \/ \E h \in Handles : Release(h)
           \/ \E h \in Handles : Free(h)
           \/ \E i \in Ids : OrphansEnd(i)
           \/ Crash
           \/ \E c \in Calls : DropCall(c)
    PROVE  OneInv'
<1> USE NoneIsApart DEF OneCaller, OneInv, Base, diskVars, handleVars, callVars, Goto, Return,
       Building, Holding, OnHandle, States
<1>1. ASSUME NEW h \in Handles, Exec(h)
      PROVE  OneInv'
  <2>1. CachedInv'
    BY <1>1 DEF Exec, CachedInv, FreshInv, BuiltInv, TypeOK
  <2>2. DeadInv'
    BY <1>1 DEF Exec, DeadInv, CachedInv, FreshInv, LockInv, CallInv, TypeOK
  <2>3. DurableInv'
    BY <1>1 DEF Exec, DurableInv, DeadInv, CachedInv, FreshInv, LockInv, CallInv, TypeOK
  <2>4. FreshInv'
    BY <1>1 DEF Exec, FreshInv, DurableInv, CallInv, TypeOK
  <2> QED
    BY <2>1, <2>2, <2>3, <2>4
<1>2. ASSUME NEW h \in Handles, WorkEnds(h)
      PROVE  OneInv'
  <2>1. CachedInv'
    BY <1>2 DEF WorkEnds, CachedInv, FreshInv, BuiltInv, TypeOK
  <2>2. DeadInv'
    BY <1>2 DEF WorkEnds, DeadInv, CachedInv, FreshInv, LockInv, CallInv, TypeOK
  <2>3. DurableInv'
    BY <1>2 DEF WorkEnds, DurableInv, DeadInv, CachedInv, FreshInv, LockInv, CallInv, TypeOK
  <2>4. FreshInv'
    BY <1>2 DEF WorkEnds, FreshInv, DurableInv, CallInv, TypeOK
  <2> QED
    BY <2>1, <2>2, <2>3, <2>4
<1>3. ASSUME NEW h \in Handles, Release(h)
      PROVE  OneInv'
  <2>1. CachedInv'
    BY <1>3 DEF Release, CachedInv, FreshInv, BuiltInv, TypeOK
  <2>2. DeadInv'
    BY <1>3 DEF Release, DeadInv, CachedInv, FreshInv, LockInv, CallInv, TypeOK
  <2>3. DurableInv'
    BY <1>3 DEF Release, DurableInv, DeadInv, CachedInv, FreshInv, LockInv, CallInv, TypeOK
  <2>4. FreshInv'
    BY <1>3 DEF Release, FreshInv, DurableInv, CallInv, TypeOK
  <2> QED
    BY <2>1, <2>2, <2>3, <2>4
<1>4. ASSUME NEW h \in Handles, Free(h)
      PROVE  OneInv'
  <2>1. CachedInv'
    BY <1>4 DEF Free, CachedInv, FreshInv, BuiltInv, TypeOK
  <2>2. DeadInv'
    BY <1>4 DEF Free, DeadInv, CachedInv, FreshInv, LockInv, CallInv, TypeOK
  <2>3. DurableInv'
    BY <1>4 DEF Free, Mend, DurableInv, TypeOK
  <2>4. FreshInv'
    BY <1>4 DEF Free, FreshInv, DurableInv, CallInv, TypeOK
  <2> QED
    BY <2>1, <2>2, <2>3, <2>4
<1>5. ASSUME NEW i \in Ids, OrphansEnd(i)
      PROVE  OneInv'
  <2>1. CachedInv'
    BY <1>5 DEF OrphansEnd, CachedInv, FreshInv, BuiltInv, TypeOK
  <2>2. DeadInv'
    BY <1>5 DEF OrphansEnd, DeadInv, CachedInv, FreshInv, LockInv, CallInv, TypeOK
  <2>3. DurableInv'
    BY <1>5 DEF OrphansEnd, DurableInv, DeadInv, CachedInv, FreshInv, LockInv, CallInv, TypeOK
  <2>4. FreshInv'
    BY <1>5 DEF OrphansEnd, FreshInv, DurableInv, CallInv, TypeOK
  <2> QED
    BY <2>1, <2>2, <2>3, <2>4
<1>6. CASE Crash
  <2>1. CachedInv'
    BY <1>6 DEF Crash, NoHandles, NoCalls, CachedInv, FreshInv, BuiltInv, TypeOK
  <2>2. DeadInv'
    BY <1>6 DEF Crash, NoHandles, NoCalls, DeadInv, CachedInv, FreshInv, LockInv, CallInv, TypeOK
  <2>3. DurableInv'
    BY <1>6 DEF Crash, NoHandles, NoCalls, DurableInv, DeadInv, CachedInv, FreshInv, LockInv,
       CallInv, TypeOK
  <2>4. FreshInv'
    BY <1>6 DEF Crash, NoHandles, NoCalls, FreshInv, DurableInv, CallInv, TypeOK
  <2> QED
    BY <2>1, <2>2, <2>3, <2>4
<1>7. ASSUME NEW c \in Calls, DropCall(c)
      PROVE  OneInv'
  <2>1. CachedInv'
    BY <1>7 DEF DropCall, CachedInv, FreshInv, BuiltInv, TypeOK
  <2>2. DeadInv'
    BY <1>7 DEF DropCall, DeadInv, CachedInv, FreshInv, LockInv, CallInv, TypeOK
  <2>3. DurableInv'
    <3>1. CASE pc[c] = "persist"
      <4>1. on[c] \in Handles /\ id[on[c]] \in Ids /\ \A k \in Handles : id[k] = id[on[c]] => k = on[c]
        BY <1>7, <3>1, OnlyHandle DEF CallInv, BuiltInv, TypeOK
      <4> QED
        BY <1>7, <3>1, <4>1 DEF DropCall, Tear, DurableInv, TypeOK
    <3>2. CASE pc[c] # "persist"
      BY <1>7, <3>2 DEF DropCall, DurableInv, FreshInv, CallInv, TypeOK
    <3> QED
      BY <3>1, <3>2
  <2>4. FreshInv'
    BY <1>7 DEF DropCall, FreshInv, DurableInv, CallInv, TypeOK
  <2> QED
    BY <2>1, <2>2, <2>3, <2>4
<1> QED
    BY <1>1, <1>2, <1>3, <1>4, <1>5, <1>6, <1>7

\* The invariant of the sandboxes of one caller.
LEMMA OneStep ==
    ASSUME OneCaller, Base, OneInv, [NextOrDrop]_vars
    PROVE  Base' /\ OneInv'
<1>1. Base'
  <2>1. CASE [Next]_vars
    BY <2>1, NextKept DEF Kept
  <2>2. CASE \E c \in Calls : DropCall(c)
    BY <2>2, DropKeepsBase
  <2> QED
    BY <2>1, <2>2 DEF NextOrDrop
<1>2. OneInv'
  <2>1. CASE UNCHANGED vars
    BY <2>1 DEF vars, diskVars, handleVars, callVars, OneInv, CachedInv, DeadInv, DurableInv,
       FreshInv
  <2>2. CASE \E c \in Calls, i \in Ids : CreateLookup(c, i) \/ Attach(c, i) \/ DeleteById(c, i)
    BY <1>1, <2>2, OneBuilds
  <2>3. CASE \E c \in Calls, h \in Handles, target \in States : Begin(c, h, target)
    BY <1>1, <2>3, OneTransition
  <2>4. ASSUME NEW c \in Calls, CallStep(c)
        PROVE  OneInv'
    BY <1>1, <2>4, OneBuilds, OneTransition DEF CallStep
  <2>5. CASE \/ \E h \in Handles : Exec(h) \/ WorkEnds(h) \/ Release(h) \/ Free(h)
             \/ \E i \in Ids : OrphansEnd(i)
             \/ Crash \/ \E c \in Calls : DropCall(c)
    BY <1>1, <2>5, OneEvent
  <2> QED
    BY <2>1, <2>2, <2>3, <2>4, <2>5 DEF NextOrDrop, Next
<1> QED
    BY <1>1, <1>2

\* The initial state satisfies the invariant of a single caller.
LEMMA OneInit == Init => Base /\ OneInv
<1>1. Init => OneInv
    BY NoneIsApart DEF Init, OneInv, CachedInv, DeadInv, DurableInv, FreshInv
<1> QED
    BY <1>1, InitIInv DEF IInv

\* With one caller at a time the invariant holds in every reachable state, dropped calls included.
LEMMA OneInvariance ==
    ASSUME OneCaller
    PROVE  DropSpec => [](Base /\ OneInv)
<1>1. Init => Base /\ OneInv
    BY OneInit
<1>2. (Base /\ OneInv) /\ [NextOrDrop]_vars => (Base /\ OneInv)'
    BY OneStep
<1> QED
    BY <1>1, <1>2, PTL DEF DropSpec

\* Attached handles of a managed sandbox share one live state: one caller at a
\* time, dropping what calls it likes, never gets two usable handles of an id.
THEOREM HandlesShareState ==
    ASSUME OneCaller
    PROVE  DropSpec => []OneLiveState
<1>1. Base /\ OneInv => OneLiveState
    BY DEF Base, OneInv, CachedInv, BuiltInv, TypeOK, OneLiveState
<1> QED
    BY <1>1, OneInvariance, PTL

\* The record of a managed handle at rest holds its live state or that of a write
\* that was not seen to succeed, with every fault on, failed directory syncs and
\* dropped calls included, for one caller at a time.
THEOREM RecordsAreDurable ==
    ASSUME OneCaller
    PROVE  DropSpec => []RecordIsLiveState
<1>1. Base /\ OneInv => RecordIsLiveState
    BY DEF Base, OneInv, DurableInv, BuiltInv, TypeOK, RecordIsLiveState, AtRest
<1> QED
    BY <1>1, OneInvariance, PTL
=============================================================================
