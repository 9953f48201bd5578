----------------------------- MODULE DaytonaExec -----------------------------
(***************************************************************************)
(* One Daytona command (sandbox-driver-daytona: exec.rs, session.rs,       *)
(* streamed_stdin.rs, encoded_exec.rs): the buffered endpoint, or a        *)
(* session whose log stream, stdin forwarding and completion poll run      *)
(* beside each other, settled after the command's outcome is known; and    *)
(* the decoder of the framed output.                                       *)
(*                                                                         *)
(* One letter of output stands for one output record, one unit of input    *)
(* for one stdin record.  A request may fail, with or without having taken *)
(* effect; the caller may drop the call at any await.                      *)
(***************************************************************************)
EXTENDS CaptureBuffer, FiniteSets

CONSTANTS MaxRecords,    \* bound on the records a command writes
          MaxInput,      \* records of streamed stdin
          MaxToolErrors  \* bound on failing requests

ASSUME DaytonaExecAssumption == /\ MaxRecords \in Nat /\ MaxInput \in Nat
                                /\ MaxToolErrors \in Nat

VARIABLES
    toolbox,    \* the sandbox's side: session, command, its output, stdin and file
    sessionRun, \* the call: SessionRun or the buffered request
    logStream,  \* StreamTask and SessionOutput
    inputPump,  \* InputPump
    dropped,    \* deletions left to detached tasks
    toolErrors, \* failed requests
    frames      \* FramedOutput over one byte stream

sessionVars == <<toolbox, sessionRun, logStream, inputPump, dropped, toolErrors>>
daytonaExecVars == <<sessionVars, frames>>

Letters == {"a", "b"}
DedupLimit == 2     \* MIN_DEDUP_BYTES
NoLogs == <<"none">>

ServiceSteps == {"file", "create", "execute", "buffered", "attach"}
SettleSteps == {"snapshot", "stopclose", "drain", "fetch", "close"}
SessionCallSteps == {"idle", "wait", "abort", "closefile", "done"} \cup ServiceSteps \cup SettleSteps

DaytonaExecTypeOK ==
    /\ toolbox.session \in {"none", "open", "gone"}
    /\ toolbox.command \in {"none", "running", "exited", "dead"}
    /\ sessionRun.at \in SessionCallSteps
    /\ sessionRun.outcome \in {"none", "ok", "error", "incomplete", "dropped"}
    /\ logStream.state \in {"off", "on", "clean", "broken", "aborted"}
    /\ inputPump.state \in {"none", "running", "done", "failed", "stopped"}
    /\ dropped \subseteq {"session", "file"} /\ sessionRun.left \subseteq {"session", "file"}

SessionInit ==
    /\ toolbox = [session |-> "none", command |-> "none", out |-> <<>>, read |-> 0,
                  eof |-> FALSE, file |-> FALSE]
    /\ sessionRun = [at |-> "idle", stdin |-> "none", handle |-> FALSE, file |-> FALSE,
                     termination |-> "none", logs |-> NoLogs, outcome |-> "none",
                     truncated |-> FALSE, left |-> {}]
    /\ logStream = [state |-> "off", seen |-> NewCapture(DedupLimit), inHand |-> <<>>,
                    captured |-> <<>>, delivered |-> <<>>, failed |-> FALSE,
                    cut |-> [at |-> 0, records |-> <<>>]]
    /\ inputPump = [state |-> "none", sent |-> 0, ended |-> FALSE]
    /\ dropped = {} /\ toolErrors = 0
-----------------------------------------------------------------------------
CallAt(step) == sessionRun.at = step
GoOn(step) == sessionRun' = [sessionRun EXCEPT !.at = step]
Answered == UNCHANGED toolErrors
RequestFails == toolErrors < MaxToolErrors /\ toolErrors' = toolErrors + 1

(* History: a request that creates or deletes this failed, and is not repeated. *)
Left(what) == sessionRun.left \cup {what}

(* What deleting the session does to the command in it. *)
SessionDeleted == [toolbox EXCEPT !.session = "gone",
                                  !.command = IF @ = "running" THEN "dead" ELSE @]


(* Session::close: a closed session is confirmed; otherwise the deletion is *)
(* confirmed or not, and the handle is gone either way.                     *)
close_session(confirmed, unconfirmed) ==
    \/ ~sessionRun.handle /\ confirmed /\ UNCHANGED <<toolbox, toolErrors>>
    \/ sessionRun.handle /\ toolbox' = SessionDeleted /\ Answered /\ confirmed
    \/ sessionRun.handle /\ toolbox' \in {toolbox, SessionDeleted} /\ RequestFails /\ unconfirmed

(* run_signals: a plain call takes the buffered endpoint, any other a session. *)
BeginExec(stdin, transport) ==
    /\ CallAt("idle")
    /\ transport = "buffered" => stdin # "stream"
    /\ sessionRun' = [sessionRun EXCEPT !.stdin = stdin,
                        !.at = IF stdin = "file" THEN "file"
                               ELSE IF transport = "buffered" THEN "buffered" ELSE "create",
                        !.termination = transport]
    /\ UNCHANGED <<toolbox, logStream, inputPump, dropped, toolErrors>>

Transport == sessionRun.termination

(* StdinFile::create: the upload precedes everything else; without an answer *)
(* nobody owns the file.                                                     *)
CreateStdinFile ==
    /\ CallAt("file")
    /\ \/ /\ toolbox' = [toolbox EXCEPT !.file = TRUE] /\ Answered
          /\ sessionRun' = [sessionRun EXCEPT !.file = TRUE,
                                              !.at = IF Transport = "buffered" THEN "buffered" ELSE "create"]
       \/ /\ toolbox' \in {toolbox, [toolbox EXCEPT !.file = TRUE]} /\ RequestFails
          /\ sessionRun' = [sessionRun EXCEPT !.at = "done", !.outcome = "error", !.left = Left("file")]
    /\ UNCHANGED <<logStream, inputPump, dropped>>

(* run_buffered: the response is a completed command, 408 a timeout, and the    *)
(* client's own deadline leaves it unknown whether the command still runs.  The *)
(* stdin file goes before any error is returned.                                *)
run_buffered ==
    /\ CallAt("buffered")
    /\ \E ends \in {"exited", "timed_out", "error", "incomplete"} :
          /\ IF ends \in {"exited", "timed_out"} THEN Answered ELSE RequestFails
          /\ toolbox' \in IF ends \in {"error", "incomplete"}
                          THEN {[toolbox EXCEPT !.command = c] : c \in {"none", "running", "exited"}}
                          ELSE {[toolbox EXCEPT !.command = IF ends = "exited" THEN "exited" ELSE "dead"]}
          /\ sessionRun' = [sessionRun EXCEPT !.at = "closefile", !.termination = ends,
                              !.outcome = IF ends \in {"error", "incomplete"} THEN ends ELSE "ok"]
    /\ UNCHANGED <<logStream, inputPump, dropped>>

(* Session::create and execute_session_command; an error closes what exists. *)
CreateSession ==
    /\ CallAt("create")
    /\ \/ /\ toolbox' = [toolbox EXCEPT !.session = "open"] /\ Answered
          /\ sessionRun' = [sessionRun EXCEPT !.handle = TRUE, !.at = "execute"]
       \/ /\ toolbox' \in {toolbox, [toolbox EXCEPT !.session = "open"]} /\ RequestFails
          /\ sessionRun' = [sessionRun EXCEPT !.at = "closefile", !.outcome = "error",
                                              !.left = Left("session")]
    /\ UNCHANGED <<logStream, inputPump, dropped>>

Executed == [toolbox EXCEPT !.command = "running"]

execute ==
    /\ CallAt("execute")
    /\ \/ toolbox' = Executed /\ Answered /\ GoOn("attach")
       \/ toolbox' \in {toolbox, Executed} /\ RequestFails
          /\ sessionRun' = [sessionRun EXCEPT !.at = "abort", !.outcome = "error"]
    /\ UNCHANGED <<logStream, inputPump, dropped>>

(* SessionRun::start spawns the stream task and the input pump. *)
SpawnTasks ==
    /\ CallAt("attach")
    /\ \/ /\ Answered
          /\ logStream' = [logStream EXCEPT !.state = "on"]
          /\ inputPump' = [inputPump EXCEPT !.state = IF sessionRun.stdin = "stream" THEN "running" ELSE "none"]
          /\ GoOn("wait")
       \/ /\ RequestFails /\ UNCHANGED <<logStream, inputPump>>
          /\ sessionRun' = [sessionRun EXCEPT !.at = "abort", !.outcome = "error"]
    /\ UNCHANGED <<toolbox, dropped>>
-----------------------------------------------------------------------------
(* wait_for_completion: the exit poll, the deadline, a stop, a failed sink; and *)
(* beside it a failed pump, which aborts the run.                               *)
PollExit ==
    /\ CallAt("wait")
    /\ \/ /\ toolbox.command = "exited" /\ Answered
          /\ sessionRun' = [sessionRun EXCEPT !.at = "drain", !.termination = "exited"]
       \/ /\ RequestFails
          /\ sessionRun' = [sessionRun EXCEPT !.at = "abort", !.outcome = "error"]
    /\ inputPump' = [inputPump EXCEPT !.state = IF sessionRun'.at = "drain" /\ @ = "running" THEN "stopped" ELSE @]
    /\ UNCHANGED <<toolbox, logStream, dropped>>

StopWaiting(termination) ==
    /\ CallAt("wait")
    /\ termination = "sink_failed" => logStream.failed
    /\ sessionRun' = [sessionRun EXCEPT !.at = "snapshot",
                        !.termination = IF termination = "sink_failed" THEN "cancelled" ELSE termination]
    /\ UNCHANGED <<toolbox, logStream, inputPump, dropped, toolErrors>>

PumpFailed ==
    /\ CallAt("wait") /\ inputPump.state = "failed"
    /\ sessionRun' = [sessionRun EXCEPT !.at = "abort", !.outcome = "error"]
    /\ UNCHANGED <<toolbox, logStream, inputPump, dropped, toolErrors>>

(* fetch_logs: a bounded snapshot of the log, or nothing. *)
FetchLogs(step, next) ==
    /\ CallAt(step)
    /\ \/ Answered /\ sessionRun' = [sessionRun EXCEPT !.at = next, !.logs = toolbox.out]
       \/ RequestFails /\ GoOn(next)
    /\ UNCHANGED <<toolbox, logStream, inputPump, dropped>>

(* settle: a stopped command's session must be gone before anything is reported. *)
StopClose ==
    /\ CallAt("stopclose")
    /\ close_session(sessionRun' = [sessionRun EXCEPT !.handle = FALSE, !.at = "drain"],
                     sessionRun' = [sessionRun EXCEPT !.handle = FALSE, !.at = "abort",
                                                      !.outcome = "incomplete", !.left = Left("session")])
    /\ inputPump' = [inputPump EXCEPT !.state = IF @ = "running" THEN "stopped" ELSE @]
    /\ UNCHANGED <<logStream, dropped>>

(* StreamTask::drain: the stream ends by itself or is aborted after the grace; *)
(* aborting it drops a delivery the sink has not taken, though its chunk is    *)
(* captured and counted as seen.                                               *)
DrainStream ==
    /\ CallAt("drain")
    /\ \/ logStream.state \in {"clean", "broken"} /\ UNCHANGED logStream
       \/ /\ logStream.state = "on"
          /\ logStream' = [logStream EXCEPT !.state = "aborted", !.inHand = <<>>,
                             !.cut = [at |-> Len(logStream.delivered), records |-> logStream.inHand]]
    /\ GoOn(IF logStream'.state # "clean" /\ sessionRun.logs = NoLogs /\ sessionRun.handle
            THEN "fetch" ELSE "close")
    /\ UNCHANGED <<toolbox, inputPump, dropped, toolErrors>>

(* plain_suffix_offset and suffix_offset: where a snapshot goes on past what the *)
(* stream delivered.                                                             *)
Overlap(tail, final) ==
    LET lengths == {n \in 1..Len(tail) : n <= Len(final)
                        /\ SubSeq(tail, Len(tail) - n + 1, Len(tail)) = SubSeq(final, 1, n)}
    IN  IF lengths = {} THEN 0 ELSE CHOOSE n \in lengths : \A k \in lengths : k <= n

(* Mutant: with bytes omitted, only the tail is compared. *)
suffix_offset_tail(seen, final) ==
    IF seen.omitted = 0
    THEN CASE IsPrefix(Retained(seen), final) -> Len(Retained(seen))
           [] IsPrefix(final, Retained(seen)) -> Len(final)
           [] OTHER -> Overlap(Retained(seen), final)
    ELSE Overlap(seen.tail, final)

suffix_offset(seen, final) ==
    IF seen.omitted = 0
    THEN CASE IsPrefix(Retained(seen), final) -> Len(Retained(seen))
           [] IsPrefix(final, Retained(seen)) -> Len(final)
           [] OTHER -> Overlap(Retained(seen), final)
    ELSE CASE /\ Len(final) >= seen.observed /\ IsPrefix(seen.head, final)
              /\ seen.tail = SubSeq(final, seen.observed - Len(seen.tail) + 1, seen.observed)
                -> seen.observed
           [] Len(final) <= seen.observed /\ IsPrefix(seen.head, final) -> Len(final)
           [] OTHER -> Overlap(seen.tail, final)

missing_suffix(seen, final) == SubSeq(final, suffix_offset(seen, final) + 1, Len(final))

(* close, then into_result: the missing suffix goes to the capture, and to the  *)
(* sink unless that has failed or fails now, on the suffix or on the            *)
(* sanitizer's last bytes; output that may be missing marks the result.         *)
Close ==
    LET clean == logStream.state = "clean"
        missing == IF sessionRun.logs = NoLogs THEN <<>>
                   ELSE missing_suffix(logStream.seen, sessionRun.logs)
    IN  /\ CallAt("close")
        /\ close_session(
             \E failed \in {logStream.failed, TRUE} :
                /\ sessionRun' = [sessionRun EXCEPT !.handle = FALSE, !.at = "closefile", !.outcome = "ok",
                      !.termination = IF failed THEN "cancelled" ELSE @,
                      !.truncated = (~clean /\ sessionRun.logs = NoLogs) \/ failed]
                /\ logStream' = [logStream EXCEPT !.failed = failed, !.captured = @ \o missing,
                                                  !.delivered = IF failed THEN @ ELSE @ \o missing],
             /\ sessionRun' = [sessionRun EXCEPT !.handle = FALSE, !.at = "closefile",
                                                 !.outcome = "incomplete", !.left = Left("session")]
             /\ UNCHANGED logStream)
        /\ UNCHANGED <<inputPump, dropped>>

(* abort: both tasks end, the session and the file are deleted, the error stays. *)
Abort ==
    /\ CallAt("abort")
    /\ inputPump' = [inputPump EXCEPT !.state = IF @ = "running" THEN "stopped" ELSE @]
    /\ logStream' = [logStream EXCEPT !.state = IF @ = "on" THEN "aborted" ELSE @, !.inHand = <<>>]
    /\ close_session(sessionRun' = [sessionRun EXCEPT !.handle = FALSE, !.at = "closefile"],
                     sessionRun' = [sessionRun EXCEPT !.handle = FALSE, !.at = "closefile",
                                                      !.left = Left("session")])
    /\ UNCHANGED dropped

(* StdinFile::close: a failed deletion is only logged. *)
CloseStdinFile ==
    /\ CallAt("closefile")
    /\ \/ ~sessionRun.file /\ UNCHANGED <<toolbox, toolErrors>>
       \/ sessionRun.file /\ toolbox' = [toolbox EXCEPT !.file = FALSE] /\ Answered
       \/ sessionRun.file /\ RequestFails /\ UNCHANGED toolbox
    /\ sessionRun' = [sessionRun EXCEPT !.file = FALSE, !.at = "done",
                                        !.left = IF sessionRun.file /\ toolbox'.file
                                                 THEN Left("file") ELSE @]
    /\ UNCHANGED <<logStream, inputPump, dropped>>

(* Mutant: close takes the handle before the deletion is answered. *)
DropForgetsClosing ==
    /\ sessionRun.at \notin {"idle", "done"}
    /\ sessionRun' = [sessionRun EXCEPT !.at = "done", !.outcome = "dropped",
                                        !.handle = FALSE, !.file = FALSE]
    /\ dropped' = (IF sessionRun.handle /\ sessionRun.at # "abort" THEN {"session"} ELSE {})
                    \cup (IF sessionRun.file THEN {"file"} ELSE {})
    /\ logStream' = [logStream EXCEPT !.state = IF @ = "on" THEN "aborted" ELSE @, !.inHand = <<>>]
    /\ UNCHANGED <<toolbox, inputPump, toolErrors>>

(* The caller drops the call: Drop of Session, StdinFile and StreamTask hand the *)
(* deletions to detached tasks.  The input pump has no Drop and runs on.         *)
DropExec ==
    /\ sessionRun.at \notin {"idle", "done"}
    /\ sessionRun' = [sessionRun EXCEPT !.at = "done", !.outcome = "dropped",
                                        !.handle = FALSE, !.file = FALSE]
    /\ dropped' = (IF sessionRun.handle THEN {"session"} ELSE {})
                    \cup (IF sessionRun.file THEN {"file"} ELSE {})
    /\ logStream' = [logStream EXCEPT !.state = IF @ = "on" THEN "aborted" ELSE @, !.inHand = <<>>]
    /\ UNCHANGED <<toolbox, inputPump, toolErrors>>

DetachedCleanup(what) ==
    /\ what \in dropped /\ dropped' = dropped \ {what}
    /\ \/ Answered /\ toolbox' = IF what = "session" THEN SessionDeleted
                                 ELSE [toolbox EXCEPT !.file = FALSE]
       \/ RequestFails /\ UNCHANGED toolbox
    /\ sessionRun' = [sessionRun EXCEPT !.left = IF toolErrors' # toolErrors THEN Left(what) ELSE @]
    /\ UNCHANGED <<logStream, inputPump>>
-----------------------------------------------------------------------------
(* The stream task: a chunk is recorded as seen and captured, then its records *)
(* reach the sink.                                                             *)
TakeChunk ==
    /\ logStream.state = "on" /\ logStream.inHand = <<>> /\ ~logStream.failed
    /\ \E n \in logStream.seen.observed + 1..Len(toolbox.out) :
          LET chunk == SubSeq(toolbox.out, logStream.seen.observed + 1, n)
          IN  logStream' = [logStream EXCEPT !.seen = CapturePush(@, chunk), !.inHand = chunk,
                                             !.captured = @ \o chunk]
    /\ UNCHANGED <<toolbox, sessionRun, inputPump, dropped, toolErrors>>

deliver ==
    /\ logStream.state = "on" /\ logStream.inHand # <<>>
    /\ \/ logStream' = [logStream EXCEPT !.delivered = Append(@, Head(logStream.inHand)), !.inHand = Tail(@)]
       \/ logStream' = [logStream EXCEPT !.failed = TRUE, !.inHand = <<>>, !.state = "broken"]
    /\ UNCHANGED <<toolbox, sessionRun, inputPump, dropped, toolErrors>>

(* The service closes the stream once it has sent the whole log, or breaks it. *)
StreamEnds ==
    /\ logStream.state = "on" /\ logStream.inHand = <<>>
    /\ \/ /\ toolbox.command # "running" /\ logStream.seen.observed = Len(toolbox.out)
          /\ logStream' = [logStream EXCEPT !.state = "clean"] /\ Answered
       \/ logStream' = [logStream EXCEPT !.state = "broken"] /\ RequestFails
    /\ UNCHANGED <<toolbox, sessionRun, inputPump, dropped>>

(* forward: a request of records, then the end record.  A refused request is no *)
(* error when the command has ended, or when that cannot be found out.          *)
Forward ==
    /\ inputPump.state = "running" /\ inputPump.sent < MaxInput
    /\ \/ /\ toolbox.command = "running" /\ Answered
          /\ inputPump' = [inputPump EXCEPT !.sent = @ + 1]
          /\ toolbox' = [toolbox EXCEPT !.read = @ + 1]
       \/ /\ toolbox.command # "running"
          /\ inputPump' = [inputPump EXCEPT !.state = "done"] /\ UNCHANGED <<toolbox, toolErrors>>
       \/ /\ RequestFails
          /\ toolbox' \in {toolbox, [toolbox EXCEPT !.read = IF toolbox.command = "running" THEN @ + 1 ELSE @]}
          /\ inputPump' = [inputPump EXCEPT !.state = IF toolbox.command = "running" THEN "failed" ELSE "done"]
    /\ UNCHANGED <<sessionRun, logStream, dropped>>

(* Mutant: a reader that fails looks like the end of the input. *)
EndInputOnError ==
    /\ inputPump.state = "running"
    /\ inputPump' = [inputPump EXCEPT !.state = "done", !.ended = TRUE]
    /\ toolbox' = [toolbox EXCEPT !.eof = toolbox.command = "running"]
    /\ UNCHANGED <<sessionRun, logStream, dropped, toolErrors>>

EndInput ==
    /\ inputPump.state = "running"
    /\ \/ /\ inputPump.sent = MaxInput
          /\ inputPump' = [inputPump EXCEPT !.state = "done", !.ended = TRUE]
          /\ toolbox' = [toolbox EXCEPT !.eof = toolbox.command = "running"]
       \/ inputPump' = [inputPump EXCEPT !.state = "failed"] /\ UNCHANGED toolbox
    /\ UNCHANGED <<sessionRun, logStream, dropped, toolErrors>>

(* The command writes records and ends. *)
CommandStep ==
    /\ toolbox.command = "running" /\ toolbox.session = "open"
    /\ \/ /\ Len(toolbox.out) < MaxRecords
          /\ \E letter \in Letters : toolbox' = [toolbox EXCEPT !.out = Append(@, letter)]
       \/ toolbox' = [toolbox EXCEPT !.command = "exited"]
    /\ UNCHANGED <<sessionRun, logStream, inputPump, dropped, toolErrors>>

SessionNext ==
    \/ \E stdin \in {"none", "file", "stream"}, transport \in {"buffered", "session"} :
          BeginExec(stdin, transport)
    \/ CreateStdinFile \/ run_buffered \/ CreateSession \/ execute \/ SpawnTasks
    \/ PollExit \/ PumpFailed
    \/ \E t \in {"timed_out", "cancelled", "killed", "sink_failed"} : StopWaiting(t)
    \/ FetchLogs("snapshot", "stopclose") \/ FetchLogs("fetch", "close")
    \/ StopClose \/ DrainStream \/ Close \/ Abort \/ CloseStdinFile \/ DropExec
    \/ \E what \in {"session", "file"} : DetachedCleanup(what)
    \/ TakeChunk \/ deliver \/ StreamEnds \/ Forward \/ EndInput \/ CommandStep
-----------------------------------------------------------------------------
(* FramedOutput: records "tag, quoted byte, newline" of at most MaxFrame bytes.  *)
(* "O" tags standard output, "x" is a byte that decodes, "?" one that does not.  *)
FrameBytes == {"O", "x", "?", "n"}
MaxFrame == 3
MaxWire == 6        \* bound on the bytes of one wire

FramesInit ==
    frames = [wire |-> <<>>, pending |-> <<>>, discarding |-> FALSE, emitted |-> 0,
              lost |-> 0, droppedBytes |-> 0, ended |-> FALSE]

Discard(f, bytes) == [f EXCEPT !.lost = @ + 1, !.droppedBytes = @ + bytes, !.pending = <<>>]

(* stream_tag and decode_quoted of a whole record. *)
Decodes(record) == record[1] = "O" /\ \A i \in 2..Len(record) - 1 : record[i] = "x"

(* Mutant: an oversized line is given up without waiting for its newline. *)
push_segment_resyncs(f, segment) ==
    LET whole == Last(segment) = "n"
        record == f.pending \o segment
    IN  CASE Len(record) > MaxFrame -> Discard(f, Len(record))
          [] Len(record) <= MaxFrame /\ ~whole -> [f EXCEPT !.pending = record]
          [] Len(record) <= MaxFrame /\ record = <<"n">> -> [f EXCEPT !.pending = <<>>]
          [] Len(record) <= MaxFrame /\ whole /\ Len(record) > 1 /\ Decodes(record)
               -> [f EXCEPT !.pending = <<>>, !.emitted = @ + 1]
          [] OTHER -> Discard(f, Len(record))

(* push on one segment: the bytes up to a newline or the end of the chunk. *)
push_segment(f, segment) ==
    LET whole == Last(segment) = "n"
        record == f.pending \o segment
    IN  CASE f.discarding -> [f EXCEPT !.droppedBytes = @ + Len(segment), !.discarding = ~whole]
          [] ~f.discarding /\ Len(record) > MaxFrame
               -> [Discard(f, Len(record)) EXCEPT !.discarding = ~whole]
          [] ~f.discarding /\ Len(record) <= MaxFrame /\ ~whole -> [f EXCEPT !.pending = record]
          [] ~f.discarding /\ record = <<"n">> -> [f EXCEPT !.pending = <<>>]
          [] ~f.discarding /\ Len(record) <= MaxFrame /\ whole /\ Len(record) > 1 /\ Decodes(record)
               -> [f EXCEPT !.pending = <<>>, !.emitted = @ + 1]
          [] OTHER -> Discard(f, Len(record))

Segments == {s \in SeqOf(FrameBytes, 3) : s # <<>> /\ \A i \in 1..Len(s) - 1 : s[i] # "n"}

PushSegment(segment) ==
    /\ ~frames.ended /\ Len(frames.wire) + Len(segment) <= MaxWire
    /\ frames' = [push_segment(frames, segment) EXCEPT !.wire = @ \o segment]

(* finish: an unterminated record is lost. *)
FinishFrames ==
    /\ ~frames.ended
    /\ frames' = [(IF frames.pending = <<>> THEN frames
                   ELSE Discard(frames, Len(frames.pending))) EXCEPT !.ended = TRUE]

FramesNext == (\E segment \in Segments : PushSegment(segment)) \/ FinishFrames

(* The records of a wire, read as a whole: its lines, the last one perhaps cut. *)
LineEnds(wire) == {i \in 1..Len(wire) : wire[i] = "n"}
LineStarts(wire) == {1} \cup {i + 1 : i \in LineEnds(wire)}
Line(wire, start) == SubSeq(wire, start, IF \E i \in LineEnds(wire) : i >= start
                                         THEN CHOOSE i \in LineEnds(wire) : i >= start /\ \A k \in start..i - 1 : wire[k] # "n"
                                         ELSE Len(wire))
Lines(wire) == {start \in LineStarts(wire) : start <= Len(wire) /\ wire[start] # "n"}
Sound(line) == Last(line) = "n" /\ Len(line) <= MaxFrame /\ Decodes(line)
-----------------------------------------------------------------------------
(* A result that reports an end reports a true one: no command of such a call runs *)
(* on, and its session is gone.  Session::close forgets a session whose deletion   *)
(* failed, so nobody tries again; the caller then never gets a result.             *)
ReportedEndIsReal ==
    (CallAt("done") /\ sessionRun.outcome = "ok") =>
        toolbox.command \in {"exited", "dead"} /\ toolbox.session # "open"

(* What the sink took, with the delivery the drain cut off put back in its place. *)
WithCut == LET cut == logStream.cut
           IN  SubSeq(logStream.delivered, 1, cut.at) \o cut.records
                 \o SubSeq(logStream.delivered, cut.at + 1, Len(logStream.delivered))

(* A natural exit that is not marked truncated has every record once and in order, *)
(* whatever of it came over the stream and whatever from the final log: in the     *)
(* result always, and at the sink but for the one delivery under way when the      *)
(* drain grace ran out, which its chunk being counted as seen keeps out of the     *)
(* final append.                                                                   *)
UntruncatedIsWhole ==
    (/\ CallAt("done") /\ sessionRun.outcome = "ok" /\ toolbox.session = "gone"
     /\ sessionRun.termination = "exited" /\ ~sessionRun.truncated)
        => logStream.captured = toolbox.out /\ WithCut = toolbox.out

(* Once a call is over and its detached deletions have run, a session or a stdin   *)
(* file that is left was left by a failed request about that very thing, never by  *)
(* a path that forgot it.  (A failed deletion after an error, after a dropped call *)
(* or of the file is only logged: the caller is not told what stayed.)             *)
LeftByFailureOnly ==
    (CallAt("done") /\ dropped = {}) =>
        /\ toolbox.session = "open" => "session" \in sessionRun.left
        /\ toolbox.file => "file" \in sessionRun.left

(* However the wire is cut into chunks, exactly its sound records are decoded and *)
(* every other one is counted as lost: a damaged record never swallows its        *)
(* neighbours or passes for output, and its loss is never silent.                 *)
FramesResync ==
    frames.ended =>
        LET sound == {start \in Lines(frames.wire) : Sound(Line(frames.wire, start))}
        IN  /\ frames.emitted = Cardinality(sound)
            /\ frames.lost = Cardinality(Lines(frames.wire) \ sound)

(* A command that reads the end of its streamed input has read all of it. *)
EndOfInputIsTheEnd == toolbox.eof => toolbox.read = MaxInput
=============================================================================
