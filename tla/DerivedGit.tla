----------------------------- MODULE DerivedGit -----------------------------
(***************************************************************************)
(* Git derived from exec (derived/git).  Every verb runs git commands in   *)
(* the sandbox one after the other; any of them may fail or be cut off by  *)
(* its timeout, and what the earlier ones did stays.  Two verbs write      *)
(* state in several commands:                                              *)
(*                                                                         *)
(*  - set_ambient_credentials: a store file, written beside its place and  *)
(*    moved into it, and a credential.helper entry that names it           *)
(*    (credentials.rs apply_ambient_credentials);                          *)
(*  - a pinned clone: init, remote add, fetch, checkout (clone.rs).        *)
(*                                                                         *)
(* The sandbox's files are inodes and names, so that two writers that      *)
(* share the temporary file are told apart from one.                       *)
(***************************************************************************)
EXTENDS Naturals, FiniteSets

CONSTANTS
    Callers,    \* callers of the facet
    MaxCalls,   \* bound on the calls they make
    MaxCuts     \* bound on the commands that fail or time out

ASSUME GitAssumption == MaxCalls \in Nat /\ MaxCuts \in Nat

VARIABLES
    origin,     \* "http" or "ssh": what remote.origin.url is
    target,     \* the repository: "absent", "inited", "remote", "fetched" or "ready"
    head,       \* what is checked out: "none", "tip", "pin" (detached) or "branch" (at the pin)
    content,    \* each inode's content: 0 is empty, n the entry of the n-th call
    store, temp,\* the inodes named by the store path and by its .tmp, 0 for none
    helpers,    \* credential.helper: how many entries name the store, and the environment's
    gitCall,    \* each caller's call
    calls, cuts,\* bounds
    alone,      \* no other ambient call ran beside this caller's
    lapped,     \* two ambient calls have overlapped
    last        \* the last ambient call that returned Ok alone, if none began since

gitVars == <<origin, target, head, content, store, temp, helpers, gitCall, calls, cuts, alone,
             lapped, last>>
repoVars == <<origin, target, head>>
storeVars == <<content, store, temp, helpers>>

Ambient == {"set", "clear"}
NoGitCall == [op |-> "none", at |-> "idle", n |-> 0, fd |-> 0, pin |-> FALSE, branch |-> FALSE]
NoneSettled == [op |-> "none", n |-> 0]
GitSteps == {"idle", "url", "path", "open", "write", "mv", "forget", "add", "rm",
             "clone", "init", "remote", "fetch", "checkout", "sync"}

GitTypeOK ==
    /\ origin \in {"http", "ssh"}
    /\ target \in {"absent", "inited", "remote", "fetched", "ready"}
    /\ head \in {"none", "tip", "pin", "branch"}
    /\ content \in [1..MaxCalls -> 0..MaxCalls]
    /\ store \in 0..MaxCalls /\ temp \in 0..MaxCalls
    /\ helpers \in [own : 0..MaxCalls, foreign : BOOLEAN]
    /\ gitCall \in [Callers -> [op : Ambient \cup {"none", "clone", "sync"}, at : GitSteps,
                                n : 0..MaxCalls, fd : 0..MaxCalls, pin : BOOLEAN, branch : BOOLEAN]]
    /\ calls \in 0..MaxCalls /\ cuts \in 0..MaxCuts
    /\ alone \in [Callers -> BOOLEAN] /\ lapped \in BOOLEAN
    /\ last \in [op : Ambient \cup {"none"}, n : 0..MaxCalls]

GitInit ==
    /\ origin \in {"http", "ssh"}
    /\ target \in {"absent", "ready"}
    /\ head = IF target = "ready" THEN "tip" ELSE "none"
    /\ content = [i \in 1..MaxCalls |-> 0] /\ store = 0 /\ temp = 0
    /\ helpers \in [own : {0}, foreign : BOOLEAN]
    /\ gitCall = [c \in Callers |-> NoGitCall]
    /\ calls = 0 /\ cuts = 0
    /\ alone = [c \in Callers |-> FALSE] /\ lapped = FALSE /\ last = NoneSettled

-----------------------------------------------------------------------------
GitGoes(c, at) == gitCall' = [gitCall EXCEPT ![c].at = at]
GitReturns(c) == gitCall' = [gitCall EXCEPT ![c] = NoGitCall]
AmbientCallers == {d \in Callers : gitCall[d].op \in Ambient}

\* run_script: the command succeeded and the verb goes on, or the call ends with its failure.
run_script(c) == gitCall[c].at # "idle"

\* A command fails or is cut off by its timeout; the call returns the failure.
CommandFails(c) ==
    /\ run_script(c) /\ cuts < MaxCuts
    /\ cuts' = cuts + 1
    /\ GitReturns(c)
    /\ UNCHANGED <<repoVars, storeVars, calls, alone, lapped, last>>

\* An ambient call returns Ok.
Settles(c) ==
    /\ GitReturns(c)
    /\ last' = IF alone[c] THEN [op |-> gitCall[c].op, n |-> gitCall[c].n] ELSE last
    /\ UNCHANGED <<calls, cuts, alone, lapped>>

Continues(c, at) == GitGoes(c, at) /\ UNCHANGED <<calls, cuts, alone, lapped, last>>

-----------------------------------------------------------------------------
\* set_ambient_credentials begins; it runs alone unless another one is under way.
set_ambient_credentials(c) ==
    /\ gitCall[c].at = "idle" /\ calls < MaxCalls /\ target # "absent"
    /\ calls' = calls + 1
    /\ \E op \in Ambient :
         gitCall' = [gitCall EXCEPT ![c] = [NoGitCall EXCEPT
                       !.op = op, !.n = calls + 1, !.at = IF op = "set" THEN "url" ELSE "path"]]
    /\ alone' = [d \in Callers |-> IF d = c THEN AmbientCallers = {}
                                   ELSE alone[d] /\ d \notin AmbientCallers]
    /\ lapped' = (lapped \/ AmbientCallers # {})
    /\ last' = NoneSettled
    /\ UNCHANGED <<repoVars, storeVars, cuts>>

\* remote_url and store_entry: only an http(s) origin can carry a credential.
store_entry(c) ==
    /\ gitCall[c].at = "url"
    /\ IF origin = "http" /\ target \notin {"absent", "inited"}
         THEN GitGoes(c, "path") ELSE GitReturns(c)
    /\ UNCHANGED <<repoVars, storeVars, calls, cuts, alone, lapped, last>>

\* credential_store_path: in the runtime directory or in the git directory.
credential_store_path(c) ==
    /\ gitCall[c].at = "path"
    /\ Continues(c, IF gitCall[c].op = "set" THEN "open" ELSE "rm")
    /\ UNCHANGED <<repoVars, storeVars>>

\* The store script: the shell truncates or makes the temporary file,
StoreOpens(c) ==
    /\ gitCall[c].at = "open"
    /\ LET inode == IF temp # 0 THEN temp ELSE gitCall[c].n IN
         /\ temp' = inode
         /\ content' = [content EXCEPT ![inode] = 0]
         /\ gitCall' = [gitCall EXCEPT ![c].at = "write", ![c].fd = inode]
    /\ UNCHANGED <<repoVars, store, helpers, calls, cuts, alone, lapped, last>>

\* printf writes the entry into what it opened, wherever that is named by now,
StoreWrites(c) ==
    /\ gitCall[c].at = "write"
    /\ content' = [content EXCEPT ![gitCall[c].fd] = gitCall[c].n]
    /\ Continues(c, "mv")
    /\ UNCHANGED <<repoVars, store, temp, helpers>>

\* and mv puts whatever is named .tmp in the store's place, or fails when nothing is.
StoreMoves(c) ==
    /\ gitCall[c].at = "mv"
    /\ IF temp # 0
         THEN store' = temp /\ temp' = 0 /\ GitGoes(c, "forget")
         ELSE GitReturns(c) /\ UNCHANGED <<store, temp>>
    /\ UNCHANGED <<repoVars, content, helpers, calls, cuts, alone, lapped, last>>

\* forget_helper: every entry with this store's exact value goes; an absent key is fine.
forget_helper(c) ==
    /\ gitCall[c].at = "forget"
    /\ helpers' = [helpers EXCEPT !.own = 0]
    /\ IF gitCall[c].op = "set" THEN Continues(c, "add") ELSE Settles(c)
    /\ UNCHANGED <<repoVars, content, store, temp>>

\* git config --add: the last step of a set.
AddsHelper(c) ==
    /\ gitCall[c].at = "add"
    /\ helpers' = [helpers EXCEPT !.own = @ + 1]
    /\ Settles(c)
    /\ UNCHANGED <<repoVars, content, store, temp>>

\* A clear removes the store only.
RemovesStoreOnly(c) ==
    /\ gitCall[c].at = "rm"
    /\ store' = 0
    /\ Continues(c, "forget")
    /\ UNCHANGED <<repoVars, content, temp, helpers>>

\* A clear removes the store and a temporary file that a set left behind.
RemovesStore(c) ==
    /\ gitCall[c].at = "rm"
    /\ store' = 0 /\ temp' = 0
    /\ Continues(c, "forget")
    /\ UNCHANGED <<repoVars, content, helpers>>

-----------------------------------------------------------------------------
\* GitCloneOptions::validate: a clone has one pin, a commit or a tag.
CloneOptions == [commit : BOOLEAN, tag : BOOLEAN, branch : BOOLEAN]
ValidClone(o) == ~(o.commit /\ o.tag)

\* clone_into: the commit pins before the tag; no pin is a plain clone.
clone_into(c) ==
    /\ gitCall[c].at = "idle" /\ calls < MaxCalls
    /\ calls' = calls + 1
    /\ \E o \in CloneOptions :
         /\ ValidClone(o)
         /\ gitCall' = [gitCall EXCEPT ![c] = [NoGitCall EXCEPT
              !.op = "clone", !.n = calls + 1, !.at = IF o.commit \/ o.tag THEN "init" ELSE "clone",
              !.pin = o.commit \/ o.tag, !.branch = o.branch]]
    /\ UNCHANGED <<repoVars, storeVars, cuts, alone, lapped, last>>

\* git clone refuses a target that exists and takes back what it made when it fails.
PlainClone(c) ==
    /\ gitCall[c].at = "clone"
    /\ IF target = "absent"
         THEN target' = "ready" /\ head' = "tip" ELSE UNCHANGED <<target, head>>
    /\ GitReturns(c)
    /\ UNCHANGED <<origin, storeVars, calls, cuts, alone, lapped, last>>

\* clone_pinned: git init is fine with a repository that is there,
clone_pinned(c) ==
    /\ gitCall[c].at = "init"
    /\ target' = IF target = "absent" THEN "inited" ELSE target
    /\ Continues(c, "remote")
    /\ UNCHANGED <<origin, head, storeVars>>

\* git remote add is not fine with a remote that is there,
AddsRemote(c) ==
    /\ gitCall[c].at = "remote"
    /\ IF target = "inited"
         THEN target' = "remote" /\ GitGoes(c, "fetch")
         ELSE GitReturns(c) /\ UNCHANGED target
    /\ UNCHANGED <<origin, head, storeVars, calls, cuts, alone, lapped, last>>

\* the pinned revision itself is fetched,
FetchesPin(c) ==
    /\ gitCall[c].at = "fetch"
    /\ target' = IF target = "remote" THEN "fetched" ELSE target
    /\ Continues(c, "checkout")
    /\ UNCHANGED <<origin, head, storeVars>>

\* and checked out: attach_pinned_branch makes the branch at the pin, else HEAD is detached.
attach_pinned_branch(c) ==
    /\ gitCall[c].at = "checkout"
    /\ target' = "ready"
    /\ head' = IF gitCall[c].branch THEN "branch" ELSE "pin"
    /\ GitReturns(c)
    /\ UNCHANGED <<origin, storeVars, calls, cuts, alone, lapped, last>>

\* push, pull and fetch: a credential of the call is a rewrite of this command only, and the
\* remote's URL is looked up for it first (credential_rewrite).
credential_rewrite(c) ==
    /\ gitCall[c].at = "idle" /\ calls < MaxCalls
    /\ calls' = calls + 1
    /\ gitCall' = [gitCall EXCEPT ![c] = [NoGitCall EXCEPT !.op = "sync", !.at = "sync"]]
    /\ UNCHANGED <<repoVars, storeVars, cuts, alone, lapped, last>>

NetworkCommand(c) ==
    /\ gitCall[c].at = "sync"
    /\ GitReturns(c)
    /\ UNCHANGED <<repoVars, storeVars, calls, cuts, alone, lapped, last>>

-----------------------------------------------------------------------------
AmbientStep(c) ==
    \/ store_entry(c) \/ credential_store_path(c) \/ StoreOpens(c) \/ StoreWrites(c)
    \/ StoreMoves(c) \/ forget_helper(c) \/ AddsHelper(c) \/ RemovesStore(c)

CloneStep(c) ==
    PlainClone(c) \/ clone_pinned(c) \/ AddsRemote(c) \/ FetchesPin(c) \/ attach_pinned_branch(c)

GitNext ==
    \E c \in Callers :
      \/ set_ambient_credentials(c) \/ AmbientStep(c) \/ CommandFails(c)
      \/ clone_into(c) \/ CloneStep(c) \/ credential_rewrite(c) \/ NetworkCommand(c)

-----------------------------------------------------------------------------
AmbientSettled ==
    /\ last.op = "set" => store # 0 /\ content[store] = last.n /\ helpers.own = 1
    /\ last.op = "clear" => store = 0 /\ temp = 0 /\ helpers.own = 0

HalfStore == store # 0 /\ content[store] = 0

\* What the last undisturbed set or clear said is what git finds, whatever commands of
\* earlier calls were cut off half way or overlapped: after a set exactly one helper entry
\* names a store that holds that credential, after a clear neither a file, a temporary file
\* nor an entry is left.  And while calls do not overlap, a git command that reads the store
\* finds a whole entry, old or new, never one half written.
AmbientCredentialsHold == AmbientSettled /\ (HalfStore => lapped)
=============================================================================
