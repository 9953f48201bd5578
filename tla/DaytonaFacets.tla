---------------------------- MODULE DaytonaFacets ----------------------------
(***************************************************************************)
(* Files and long-lived processes of a Daytona sandbox                     *)
(* (sandbox-driver-daytona: fs.rs, nested/fs.rs, stdio.rs).                *)
(*                                                                         *)
(* A write to the nested container is staged on the VM's disk and          *)
(* published from there; a direct write is an upload, tried again after    *)
(* the parent directory was made.  A stdio process is a session with two   *)
(* pumps; its input crosses the toolbox as whole UTF-8 characters.         *)
(***************************************************************************)
EXTENDS Integers, Sequences

CONSTANTS MaxLength,        \* chunks of a staged write
          MaxFileErrors     \* bound on failing requests

ASSUME FacetsAssumption == MaxLength \in Nat /\ MaxFileErrors \in Nat

VARIABLES
    transfer,   \* the write, its staging file and chunk file, and the target
    stdio,      \* DaytonaStdioHandle and its session
    typed,      \* the stdin pump: bytes written by the caller and forwarded
    fileErrors  \* failed requests

transferVars == <<transfer>>
stdioVars == <<stdio, typed>>
facetVars == <<transfer, stdio, typed, fileErrors>>

FileFails == fileErrors < MaxFileErrors /\ fileErrors' = fileErrors + 1
FileAnswers == UNCHANGED fileErrors
-----------------------------------------------------------------------------
TransferInit ==
    /\ \E length \in 0..MaxLength, given \in 0..MaxLength, via \in {"staged", "direct"} :
          transfer = [at |-> "begin", via |-> via, length |-> length, given |-> given,
                      written |-> 0, file |-> 0, fileMade |-> FALSE, chunkMade |-> FALSE,
                      parent |-> FALSE, target |-> "old", outcome |-> "none",
                      detached |-> {}, unsure |-> FALSE]

At_(step) == transfer.at = step

(* An error returns; RemoteFile::drop deletes what was staged, in detached tasks. *)
Fails(t) == [t EXCEPT !.at = "done", !.outcome = "error", !.detached = {"file", "chunk"}]

(* What the input still holds, at most what `take(length)` lets through. *)
InputLeft == (IF transfer.given < transfer.length THEN transfer.given ELSE transfer.length)
                > transfer.written

(* The first chunk makes the staging file, a later one is written beside it and *)
(* appended.                                                                    *)
Staged == IF transfer.written = 0
          THEN [transfer EXCEPT !.fileMade = TRUE, !.file = 1]
          ELSE [transfer EXCEPT !.chunkMade = TRUE, !.file = @ + 1]

(* NestedFs::write_from: a failed request may have landed. *)
StageChunk ==
    /\ At_("begin") /\ transfer.via = "staged" /\ InputLeft
    /\ \/ FileAnswers /\ transfer' = [Staged EXCEPT !.written = @ + 1]
       \/ FileFails /\ transfer' \in {Fails(transfer), Fails(Staged)}
    /\ UNCHANGED <<stdio, typed>>

(* Mutant: the count is not compared with the announced length. *)
StagedAnyLength ==
    /\ At_("begin") /\ transfer.via = "staged" /\ ~InputLeft
    /\ transfer' = [transfer EXCEPT !.at = "publish", !.fileMade = TRUE]
    /\ UNCHANGED <<stdio, typed, fileErrors>>

(* The input ended: too short is an error; an empty file is still staged. *)
InputEnds ==
    /\ At_("begin") /\ transfer.via = "staged" /\ ~InputLeft
    /\ \/ transfer.written # transfer.length /\ FileAnswers /\ transfer' = Fails(transfer)
       \/ /\ transfer.written = transfer.length /\ FileAnswers
          /\ transfer' = [transfer EXCEPT !.at = "publish", !.fileMade = TRUE]
       \/ transfer.written = transfer.length /\ transfer.length = 0 /\ FileFails /\ transfer' = Fails(transfer)
    /\ UNCHANGED <<stdio, typed>>

(* owner: the container's user, before the target is touched. *)
LookUpOwner ==
    /\ At_("publish")
    /\ \/ FileAnswers /\ transfer' = [transfer EXCEPT !.at = "copy"]
       \/ FileFails /\ transfer' = Fails(transfer)
    /\ UNCHANGED <<stdio, typed>>

(* The target after a write that did not finish: a stream that broke off leaves *)
(* any part of it.                                                              *)
Broken(t) == {[t EXCEPT !.target = left] : left \in {"old", "part", "new"}}

(* publish: docker cp unpacks a tar of the staged file over the target, as it   *)
(* streams in.                                                                  *)
publish ==
    /\ At_("copy")
    /\ \/ /\ FileAnswers
          /\ transfer' = [transfer EXCEPT !.at = "closechunk",
                             !.target = IF transfer.file = transfer.length THEN "new" ELSE "part"]
       \/ FileFails /\ transfer' \in Broken(Fails(transfer))
    /\ UNCHANGED <<stdio, typed>>

(* RemoteFile::close: only a confirmed deletion disarms the drop. *)
CloseStaged(step, what, next) ==
    /\ At_(step)
    /\ LET gone == IF what = "chunk" THEN [transfer EXCEPT !.chunkMade = FALSE]
                   ELSE [transfer EXCEPT !.fileMade = FALSE]
           outcome == IF next = "done" THEN "ok" ELSE transfer.outcome
       IN  \/ FileAnswers /\ transfer' = [gone EXCEPT !.at = next, !.outcome = outcome]
           \/ FileFails /\ transfer' = [transfer EXCEPT !.at = next, !.outcome = outcome,
                                                        !.detached = @ \cup {what}]
    /\ UNCHANGED <<stdio, typed>>

(* DaytonaFs::write: upload, make the parent after a refusal, upload again. *)
DirectUpload(step) ==
    /\ At_(step) /\ transfer.via = "direct" /\ transfer.given = transfer.length
    /\ \/ /\ FileAnswers /\ transfer.parent
          /\ transfer' = [transfer EXCEPT !.at = "done", !.target = "new", !.outcome = "ok"]
       \/ LET refused == IF step = "begin" THEN [transfer EXCEPT !.at = "parent"]
                         ELSE [transfer EXCEPT !.at = "done", !.outcome = "error"]
          IN  \/ ~transfer.parent /\ FileAnswers /\ transfer' = refused
              \/ transfer.parent /\ FileFails /\ transfer' \in Broken(refused)
    /\ UNCHANGED <<stdio, typed>>

create_folder ==
    /\ At_("parent")
    /\ \/ FileAnswers /\ transfer' = [transfer EXCEPT !.at = "again", !.parent = TRUE]
       \/ FileFails /\ transfer' = [transfer EXCEPT !.at = "again"]
    /\ UNCHANGED <<stdio, typed>>

(* The caller drops the call; the request under way may have landed, in part. *)
DropTransfer ==
    /\ transfer.at # "done" /\ transfer.via = "staged"
    /\ LET over(t) == [t EXCEPT !.at = "done", !.outcome = "dropped",
                                !.detached = @ \cup {"file", "chunk"}]
       IN  transfer' \in CASE At_("copy") -> Broken(over(transfer))
                           [] At_("begin") /\ InputLeft -> {over(transfer), over(Staged)}
                           [] OTHER -> {over(transfer)}
    /\ UNCHANGED <<stdio, typed, fileErrors>>

DetachedDelete(what) ==
    /\ At_("done") /\ what \in transfer.detached
    /\ \/ /\ FileAnswers
          /\ transfer' = [transfer EXCEPT !.detached = @ \ {what},
                            !.fileMade = @ /\ what # "file", !.chunkMade = @ /\ what # "chunk"]
       \/ FileFails /\ transfer' = [transfer EXCEPT !.detached = @ \ {what}, !.unsure = TRUE]
    /\ UNCHANGED <<stdio, typed>>

TransferNext ==
    \/ StageChunk \/ InputEnds \/ LookUpOwner \/ publish
    \/ CloseStaged("closechunk", "chunk", "closefile") \/ CloseStaged("closefile", "file", "done")
    \/ DirectUpload("begin") \/ DirectUpload("again") \/ create_folder
    \/ DropTransfer \/ \E what \in {"file", "chunk"} : DetachedDelete(what)
-----------------------------------------------------------------------------
(* A character is one byte "a" or the bytes "l", "c" of a two-byte one; "!" is no UTF-8. *)
MaxTyped == 4       \* bound on the bytes written to stdin

StdioInit ==
    /\ stdio = [session |-> "open", command |-> "running", handle |-> TRUE, waiter |-> "none",
                terminated |-> FALSE, pumps |-> "on", reported |-> "none", unsure |-> FALSE]
    /\ typed = [bytes |-> <<>>, pending |-> <<>>, forwarded |-> <<>>, stopped |-> FALSE]

(* str::from_utf8: the length of the longest prefix of whole characters, or -1 when *)
(* what follows it can never become one.                                            *)
complete_utf8_prefix(bytes) ==
    LET whole(n) == \A i \in 1..n : /\ bytes[i] # "!"
                                    /\ bytes[i] = "l" => i < n /\ bytes[i + 1] = "c"
                                    /\ bytes[i] = "c" => i > 1 /\ bytes[i - 1] = "l"
        longest == CHOOSE n \in 0..Len(bytes) : whole(n) /\ \A k \in n + 1..Len(bytes) : ~whole(k)
    IN  IF longest = Len(bytes) \/ (longest = Len(bytes) - 1 /\ bytes[Len(bytes)] = "l")
        THEN longest ELSE -1

(* Mutant: the pump forwards what it has read, lossily, instead of whole characters. *)
WholePrefixLossy(bytes) == Len(bytes)

WholePrefix(bytes) == complete_utf8_prefix(bytes)

(* The input pump: a read, then the longest whole prefix of what is pending. *)
ForwardTyped ==
    /\ ~typed.stopped /\ stdio.pumps = "on" /\ Len(typed.bytes) < MaxTyped
    /\ \E read \in {<<"a">>, <<"l">>, <<"c">>, <<"l", "c">>, <<"a", "l">>, <<"!">>} :
          LET pending == typed.pending \o read
              n == WholePrefix(pending)
              took == [typed EXCEPT !.bytes = @ \o read]
          IN  \/ /\ n > 0 /\ FileAnswers
                 /\ typed' = [took EXCEPT !.forwarded = @ \o SubSeq(pending, 1, n),
                                          !.pending = SubSeq(pending, n + 1, Len(pending))]
              \/ n > 0 /\ FileFails /\ typed' = [took EXCEPT !.stopped = TRUE]
              \/ n = 0 /\ FileAnswers /\ typed' = [took EXCEPT !.pending = pending]
              \/ n < 0 /\ FileAnswers /\ typed' = [took EXCEPT !.stopped = TRUE]
    /\ UNCHANGED <<transfer, stdio>>

StdioCommandEnds ==
    /\ stdio.command = "running" /\ stdio' = [stdio EXCEPT !.command = "exited"]
    /\ UNCHANGED <<transfer, typed, fileErrors>>

(* terminate: the session is deleted, confirmed or not; then the pumps end. *)
terminate ==
    /\ stdio.handle
    /\ \/ /\ FileAnswers
          /\ stdio' = [stdio EXCEPT !.handle = FALSE, !.session = "gone", !.pumps = "off", !.terminated = TRUE,
                                    !.command = IF @ = "running" THEN "dead" ELSE @]
       \/ /\ FileFails
          /\ stdio' = [stdio EXCEPT !.handle = FALSE, !.pumps = "off", !.terminated = TRUE, !.unsure = TRUE]
    /\ UNCHANGED <<transfer, typed>>

(* Mutant: a poll that finds no exit code yet ends the wait. *)
WaitPollOnce ==
    /\ stdio.reported = "none"
    /\ stdio' = [stdio EXCEPT !.reported = IF stdio.command = "exited" THEN "exited" ELSE "killed", !.pumps = "off"]
    /\ UNCHANGED <<transfer, typed, fileErrors>>

(* wait: polls for the exit code; any error, a closed session included, is read *)
(* as the end of the command.                                                   *)
WaitPoll ==
    /\ stdio.reported = "none"
    /\ \/ /\ stdio.handle /\ stdio.command = "exited" /\ FileAnswers
          /\ stdio' = [stdio EXCEPT !.reported = "exited", !.pumps = "off"]
       \/ /\ ~stdio.handle /\ FileAnswers
          /\ stdio' = [stdio EXCEPT !.reported = "killed", !.pumps = "off"]
       \/ /\ stdio.handle /\ FileFails
          /\ stdio' = [stdio EXCEPT !.reported = "killed", !.pumps = "off", !.unsure = TRUE]
    /\ UNCHANGED <<transfer, typed>>

StdioNext == ForwardTyped \/ StdioCommandEnds \/ terminate \/ WaitPoll

FacetsInit == TransferInit /\ StdioInit /\ fileErrors = 0

FacetsTypeOK ==
    /\ transfer.target \in {"old", "part", "new"}
    /\ transfer.outcome \in {"none", "ok", "error", "dropped"}
    /\ stdio.reported \in {"none", "exited", "killed"}
    /\ Len(typed.pending) <= MaxTyped
-----------------------------------------------------------------------------
(* A write that succeeds has replaced the target by the whole content.  One that  *)
(* fails may leave a part of it, but a staged write touches the target only when  *)
(* all of the announced input is staged: a short input, a failed stage or a       *)
(* failed look-up leaves the old file.  What was staged goes, unless its deletion *)
(* failed.                                                                        *)
PublishedIsWhole ==
    /\ transfer.outcome = "ok" => transfer.target = "new"
    /\ (transfer.via = "staged" /\ transfer.target # "old")
            => /\ transfer.written = transfer.length /\ transfer.file = transfer.length
    /\ (At_("done") /\ transfer.detached = {} /\ ~transfer.unsure)
            => ~transfer.fileMade /\ ~transfer.chunkMade

(* A process whose wait returned has ended, unless a request failed; what it read *)
(* is a prefix of what was typed, cut between characters.                         *)
StdioTellsTheTruth ==
    /\ stdio.reported # "none" => stdio.command # "running" \/ stdio.unsure
    /\ typed.forwarded = SubSeq(typed.bytes, 1, Len(typed.forwarded))
    /\ complete_utf8_prefix(typed.forwarded) = Len(typed.forwarded)
=============================================================================
