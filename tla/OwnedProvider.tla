---------------------------- MODULE OwnedProvider ----------------------------
(***************************************************************************)
(* A provider narrowed to one consumer's sandboxes by labels               *)
(* (sandbox-driver/src/owned.rs).                                          *)
(*                                                                         *)
(* The backend is shared and external: it keeps labelled sandboxes, live   *)
(* or deleted but restorable, and other clients create, relabel, delete    *)
(* and restore them under the same ids.  Labels are the set of ownership   *)
(* keys a sandbox carries with the right values, the only part of them the *)
(* code looks at.  A call takes one step per await.                        *)
(***************************************************************************)
EXTENDS Naturals, FiniteSets

CONSTANTS
    BackendIds,     \* ids the backend may know
    OwnershipKeys,  \* Ownership.labels
    Consumers,      \* calls on the owned provider
    MaxForeign      \* bound on the steps of other clients

ASSUME OwnershipAssumption == MaxForeign \in Nat

VARIABLES
    backend,   \* each id's sandbox: what it is and which ownership labels it carries
    ownedCall, \* each consumer's call
    foreign    \* steps of other clients

ownedVars == <<backend, ownedCall, foreign>>

\* Ownership::owns and Ownership::stamp.
Owns(labels) == OwnershipKeys \subseteq labels
Stamp(labels) == labels \cup OwnershipKeys

Boxes ==
    {b \in [at : {"none", "live", "deleted"}, labels : SUBSET OwnershipKeys] :
        b.at = "none" => b.labels = {}}

\* A call: its operation and id, where it is, whether its check saw the labels, whether another
\* client changed the sandbox since, and the labels of the sandbox it acted on or answered with.
OwnedOps == {"create", "attach", "undelete", "delete", "list"}
OwnedCalls ==
    [op : OwnedOps, id : BackendIds,
     at : {"new", "describe", "act", "ok", "failed"},
     saw : BOOLEAN, raced : BOOLEAN, touched : SUBSET (SUBSET OwnershipKeys)]

NewOwnedCalls ==
    {[op |-> o, id |-> i, at |-> "new", saw |-> FALSE, raced |-> FALSE, touched |-> {}] :
        o \in OwnedOps, i \in BackendIds}

OwnedTypeOK ==
    /\ backend \in [BackendIds -> Boxes]
    /\ ownedCall \in [Consumers -> OwnedCalls]
    /\ foreign \in 0..MaxForeign

OwnedInit ==
    /\ backend \in [BackendIds -> Boxes]
    /\ ownedCall \in [Consumers -> NewOwnedCalls]
    /\ foreign = 0

Goes(c, where) == ownedCall' = [ownedCall EXCEPT ![c].at = where]

-----------------------------------------------------------------------------
\* create: the spec's labels are stamped before the provider sees them.
OwnedCreate(c) ==
    /\ ownedCall[c].op = "create" /\ ownedCall[c].at = "new"
    /\ \/ /\ backend[ownedCall[c].id].at = "none"
          /\ \E labels \in SUBSET OwnershipKeys :
               /\ backend' = [backend EXCEPT ![ownedCall[c].id] =
                                [at |-> "live", labels |-> Stamp(labels)]]
               /\ ownedCall' = [ownedCall EXCEPT ![c].at = "ok", ![c].touched = {Stamp(labels)}]
       \/ Goes(c, "failed") /\ UNCHANGED backend
    /\ UNCHANGED foreign

\* attach, alone and in delete: the provider's own handle, before any check.  An unknown id is
\* an error to attach and nothing left to do to delete.
InnerAttach(c) ==
    /\ ownedCall[c].op \in {"attach", "delete"} /\ ownedCall[c].at = "new"
    /\ \/ backend[ownedCall[c].id].at = "live" /\ Goes(c, "describe")
       \/ /\ backend[ownedCall[c].id].at # "live"
          /\ Goes(c, IF ownedCall[c].op = "delete" THEN "ok" ELSE "failed")
       \/ Goes(c, "failed")
    /\ UNCHANGED <<backend, foreign>>

\* undelete: the provider restores the sandbox before its labels are looked at.
InnerUndelete(c) ==
    /\ ownedCall[c].op = "undelete" /\ ownedCall[c].at = "new"
    /\ \/ /\ backend[ownedCall[c].id].at = "deleted"
          /\ backend' = [backend EXCEPT ![ownedCall[c].id].at = "live"]
          /\ ownedCall' = [ownedCall EXCEPT ![c].at = "describe",
                             ![c].touched = {backend[ownedCall[c].id].labels}]
       \/ Goes(c, "failed") /\ UNCHANGED backend
    /\ UNCHANGED foreign

\* checked: describe, then NotOwned unless the sandbox carries every label.  A sandbox that is
\* gone by now is, to delete, an id nobody knows.
OwnershipChecked(c) ==
    /\ ownedCall[c].at = "describe"
    /\ \/ /\ backend[ownedCall[c].id].at = "live" /\ Owns(backend[ownedCall[c].id].labels)
          /\ ownedCall' = [ownedCall EXCEPT
               ![c].at = IF ownedCall[c].op = "delete" THEN "act" ELSE "ok",
               ![c].saw = TRUE,
               ![c].touched = IF ownedCall[c].op = "attach"
                              THEN {backend[ownedCall[c].id].labels} ELSE @]
       \/ /\ backend[ownedCall[c].id].at # "live"
          /\ Goes(c, IF ownedCall[c].op = "delete" THEN "ok" ELSE "failed")
       \/ Goes(c, "failed")
    /\ UNCHANGED <<backend, foreign>>

\* Sandbox::delete on the checked handle.
InnerDelete(c) ==
    /\ ownedCall[c].at = "act"
    /\ \/ /\ backend' = [backend EXCEPT ![ownedCall[c].id] =
                           IF @.at = "live" THEN [@ EXCEPT !.at = "deleted"] ELSE @]
          /\ ownedCall' = [ownedCall EXCEPT ![c].at = "ok",
               ![c].touched = IF backend[ownedCall[c].id].at = "live"
                              THEN {backend[ownedCall[c].id].labels} ELSE {}]
       \/ Goes(c, "failed") /\ UNCHANGED backend
    /\ UNCHANGED foreign

\* list: a backend may ignore the stamped filter; foreign sandboxes are dropped here.
OwnedList(c) ==
    /\ ownedCall[c].op = "list" /\ ownedCall[c].at = "new"
    /\ \/ \E found \in SUBSET {i \in BackendIds : backend[i].at = "live"} :
            LET answer == {i \in found : Owns(backend[i].labels)}
            IN ownedCall' = [ownedCall EXCEPT ![c].at = "ok",
                               ![c].touched = {backend[i].labels : i \in answer}]
       \/ Goes(c, "failed")
    /\ UNCHANGED <<backend, foreign>>

\* Another client creates, relabels, deletes, restores or purges a sandbox.
ForeignStep ==
    /\ foreign < MaxForeign
    /\ foreign' = foreign + 1
    /\ \E i \in BackendIds, b \in Boxes :
         /\ backend' = [backend EXCEPT ![i] = b]
         /\ ownedCall' = [c \in Consumers |->
              IF ownedCall[c].id = i /\ ownedCall[c].at = "act"
              THEN [ownedCall[c] EXCEPT !.raced = TRUE] ELSE ownedCall[c]]

OwnedNext ==
    \/ \E c \in Consumers :
         \/ OwnedCreate(c) \/ InnerAttach(c) \/ InnerUndelete(c) \/ OwnershipChecked(c) \/ InnerDelete(c)
         \/ OwnedList(c)
    \/ ForeignStep

-----------------------------------------------------------------------------
\* Every sandbox a call created, attached, listed or deleted carried all ownership labels at
\* that moment, whether the call succeeded or not, unless another client changed it between a
\* delete's check and the delete; and an undelete hands out only what carried them at its
\* check.  That it restores before it checks is ForeignIsNeverActedOn's.
ActsOnItsOwn ==
    \A c \in Consumers :
        /\ ownedCall[c].op # "undelete" /\ ~ownedCall[c].raced =>
             \A labels \in ownedCall[c].touched : Owns(labels)
        /\ ownedCall[c].op = "undelete" /\ ownedCall[c].at = "ok" => ownedCall[c].saw

\* The type's own documentation: attach, undelete and delete check the labels first, so a
\* persisted id that now names someone else's sandbox is never acted on.  undelete restores
\* the sandbox before it looks.
ForeignIsNeverActedOn ==
    \A c \in Consumers :
        ownedCall[c].op \in {"attach", "undelete", "delete"} /\ ~ownedCall[c].raced =>
            \A labels \in ownedCall[c].touched : Owns(labels)

OwnedSpec == OwnedInit /\ [][OwnedNext]_ownedVars
=============================================================================
