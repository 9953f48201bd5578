----------------------------- MODULE PluginFiles -----------------------------
(***************************************************************************)
(* One file transfer between the host and a plugin: the call on the        *)
(* control connection, the data channel it names, the pump that moves the  *)
(* bytes on the host (client/fs.rs), and the request that moves them in    *)
(* the plugin (server/fs.rs).  call_with_channel joins call and pump: the  *)
(* caller's answer needs both.                                             *)
(*                                                                         *)
(* A chunk of the file is one unit.  The channel is a socket: it delivers  *)
(* in order, and its end is seen when the other side drops it.  The        *)
(* plugin's filesystem (external) may fail at any chunk, and the plugin    *)
(* may die.                                                                *)
(***************************************************************************)
EXTENDS Naturals, Sequences

CONSTANTS
    MaxChunks,   \* bound on the file's size
    BufferLimit  \* limits.buffered_value_bytes, in chunks

ASSUME FilesAssumption == MaxChunks \in Nat /\ BufferLimit \in Nat

Reads == {"read_to", "read"}       \* into a writer, into a bounded buffer
Writes == {"write_from", "write_append"}
Kinds == Reads \cup Writes

VARIABLES
    xKind, xSize,    \* what is transferred: the file (reads) or the source (writes)
    xDeclared,       \* the length the host declared for a write
    xCall,           \* the call's reply at the host: "none", "ok" or "err"
    xReply,          \* the reply on its way
    xLink,           \* the control connection: "open" or "closed"
    xPump,           \* "waiting" for the channel, "moving", "ok" or "err"
    xServe,          \* the plugin's request: "asked", "serving" or "over"
    xFrames,         \* frames in the channel, in the direction of the transfer
    xSent, xGot,     \* chunks sent, chunks received
    xStored,         \* the target file: chunks written, or Untouched
    xResult          \* what the caller got: "none", "ok" or "err"

fileVars == <<xKind, xSize, xDeclared, xCall, xReply, xLink, xPump, xServe, xFrames, xSent,
              xGot, xStored, xResult>>
xRequest == <<xKind, xSize, xDeclared>>

Frames == {"data", "eof"}
Untouched == MaxChunks + 1

FilesTypeOK ==
    /\ xKind \in Kinds /\ xSize \in 0..MaxChunks /\ xDeclared \in 0..MaxChunks
    /\ {xCall, xReply, xResult} \subseteq {"none", "ok", "err"}
    /\ xLink \in {"open", "closed"}
    /\ xPump \in {"waiting", "moving", "ok", "err"}
    /\ xServe \in {"asked", "serving", "over"}
    /\ xFrames \in UNION {[1..n -> Frames] : n \in 0..(MaxChunks + 1)}
    /\ xSent \in 0..MaxChunks /\ xGot \in 0..MaxChunks
    /\ xStored \in 0..Untouched

\* A source's length is declared from its metadata (upload) and may be wrong by the time
\* it is read; a buffered source's is exact.
FilesInit ==
    /\ xKind \in Kinds /\ xSize \in 0..MaxChunks /\ xDeclared \in 0..MaxChunks
    /\ xKind \in Reads \cup {"write_append"} => xDeclared = xSize
    /\ xCall = "none" /\ xReply = "none" /\ xLink = "open" /\ xPump = "waiting"
    /\ xServe = "asked" /\ xFrames = <<>> /\ xSent = 0 /\ xGot = 0
    /\ xStored = Untouched /\ xResult = "none"

Lowest(a, b) == IF a < b THEN a ELSE b

\* The host's end of the channel is still held; the plugin's is.
HostEnd == xPump = "moving"
PluginEnd == xServe = "serving"

-----------------------------------------------------------------------------
\* The plugin (server/fs.rs).

Replies_(body) == xReply' = body /\ xServe' = "over"

\* FS_READ, FS_WRITE: the sandbox is found and the channel is opened; the host's pump gets
\* its end when the open frame is acknowledged.
ServeOpens ==
    /\ xServe = "asked" /\ xPump = "waiting" /\ xResult = "none"
    /\ xServe' = "serving" /\ xPump' = "moving"
    /\ UNCHANGED <<xRequest, xCall, xReply, xLink, xFrames, xSent, xGot, xStored, xResult>>

\* The sandbox is unknown, no slot is free, or the host does not admit the channel.
ServeRefuses ==
    /\ xServe = "asked"
    /\ Replies_("err")
    /\ UNCHANGED <<xRequest, xCall, xLink, xPump, xFrames, xSent, xGot, xStored, xResult>>

\* send_file: the provider's bytes, chunk by chunk; a host that has gone fails the write.
send_file ==
    /\ PluginEnd /\ xKind \in Reads /\ xSent < xSize
    /\ IF HostEnd
         THEN xFrames' = Append(xFrames, "data") /\ xSent' = xSent + 1 /\ UNCHANGED <<xReply, xServe>>
         ELSE Replies_("err") /\ UNCHANGED <<xFrames, xSent>>
    /\ UNCHANGED <<xRequest, xCall, xLink, xPump, xGot, xStored, xResult>>

\* The provider's read fails: the channel is finished all the same, and the error is the reply.
ServeReadFails ==
    /\ PluginEnd /\ xKind \in Reads
    /\ xFrames' = Append(xFrames, "eof")
    /\ Replies_("err")
    /\ UNCHANGED <<xRequest, xCall, xLink, xPump, xSent, xGot, xStored, xResult>>

\* The whole file was sent: finish, and reply.
ServeReadEnds ==
    /\ PluginEnd /\ xKind \in Reads /\ xSent = xSize
    /\ IF HostEnd THEN xFrames' = Append(xFrames, "eof") /\ Replies_("ok")
                  ELSE Replies_("err") /\ UNCHANGED xFrames
    /\ UNCHANGED <<xRequest, xCall, xLink, xPump, xSent, xGot, xStored, xResult>>

\* receive_file into the provider's write_from (the file grows as it goes) or into a buffer
\* that write_append takes whole.
receive_file ==
    /\ PluginEnd /\ xKind \in Writes /\ xFrames # <<>> /\ Head(xFrames) = "data"
    /\ xFrames' = Tail(xFrames)
    /\ IF xGot < xDeclared
         THEN /\ xGot' = xGot + 1
              /\ xStored' = IF xKind = "write_from" THEN xGot + 1 ELSE xStored
              /\ UNCHANGED <<xReply, xServe>>
         ELSE Replies_("err") /\ UNCHANGED <<xGot, xStored>>
    /\ UNCHANGED <<xRequest, xCall, xLink, xPump, xSent, xResult>>

\* write_append of more than a buffered value may hold is refused before anything is read.
AppendTooLarge == xKind = "write_append" /\ xDeclared > BufferLimit

ServeLimits ==
    /\ PluginEnd /\ AppendTooLarge
    /\ Replies_("err")
    /\ UNCHANGED <<xRequest, xCall, xLink, xPump, xFrames, xSent, xGot, xStored, xResult>>

\* The end of the input: everything declared must have come.
ReceiveEnds ==
    /\ PluginEnd /\ xKind \in Writes /\ ~AppendTooLarge /\ xFrames # <<>> /\ Head(xFrames) = "eof"
    /\ xFrames' = Tail(xFrames)
    /\ IF xGot = xDeclared THEN Replies_("ok") /\ xStored' = xGot
                           ELSE Replies_("err") /\ UNCHANGED xStored
    /\ UNCHANGED <<xRequest, xCall, xLink, xPump, xSent, xGot, xResult>>

\* The host dropped its end before the end of the input ("closed before EOF").
ReceiveBreaks ==
    /\ PluginEnd /\ xKind \in Writes /\ xFrames = <<>> /\ ~HostEnd
    /\ Replies_("err")
    /\ UNCHANGED <<xRequest, xCall, xLink, xPump, xFrames, xSent, xGot, xStored, xResult>>

\* The provider's write fails at some point.
ServeWriteFails ==
    /\ PluginEnd /\ xKind \in Writes
    /\ Replies_("err")
    /\ UNCHANGED <<xRequest, xCall, xLink, xPump, xFrames, xSent, xGot, xStored, xResult>>

-----------------------------------------------------------------------------
\* The host's pump (client/fs.rs).

\* No channel comes within the open deadline, or the listener dropped it.
PumpTimesOut ==
    /\ xPump = "waiting" /\ xPump' = "err"
    /\ UNCHANGED <<xRequest, xCall, xReply, xLink, xServe, xFrames, xSent, xGot, xStored, xResult>>

\* BoundedBuffer: a buffered read refuses what exceeds the limit.
BufferTakes == xKind = "read_to" \/ xGot < BufferLimit

\* read_through_channel: a chunk is written to the caller's output, which may stall or fail;
\* the end frame ends the pump.
PumpReads ==
    /\ HostEnd /\ xKind \in Reads /\ xFrames # <<>>
    /\ xFrames' = Tail(xFrames)
    /\ IF Head(xFrames) = "eof" THEN xPump' = "ok" /\ UNCHANGED xGot
       ELSE \/ BufferTakes /\ xGot' = xGot + 1 /\ UNCHANGED xPump
            \/ xPump' = "err" /\ UNCHANGED xGot
    /\ UNCHANGED <<xRequest, xCall, xReply, xLink, xServe, xSent, xStored, xResult>>

\* FrameReader::read: the plugin's end was dropped before the end frame.
PumpBreaks ==
    /\ HostEnd /\ xKind \in Reads /\ xFrames = <<>> /\ ~PluginEnd
    /\ xPump' = "err"
    /\ UNCHANGED <<xRequest, xCall, xReply, xLink, xServe, xFrames, xSent, xGot, xStored, xResult>>

\* write_through_channel: at most the declared length is read from the source.
PumpWrites ==
    /\ HostEnd /\ xKind \in Writes /\ xSent < Lowest(xSize, xDeclared)
    /\ IF PluginEnd
         THEN xFrames' = Append(xFrames, "data") /\ xSent' = xSent + 1 /\ UNCHANGED xPump
         ELSE xPump' = "err" /\ UNCHANGED <<xFrames, xSent>>
    /\ UNCHANGED <<xRequest, xCall, xReply, xLink, xServe, xGot, xStored, xResult>>

\* The source is used up: the end frame, or an error when it was shorter than declared.
PumpWriteEnds ==
    /\ HostEnd /\ xKind \in Writes /\ xSent = Lowest(xSize, xDeclared)
    /\ IF xSent = xDeclared /\ PluginEnd
         THEN xPump' = "ok" /\ xFrames' = Append(xFrames, "eof")
         ELSE xPump' = "err" /\ UNCHANGED xFrames
    /\ UNCHANGED <<xRequest, xCall, xReply, xLink, xServe, xSent, xGot, xStored, xResult>>

-----------------------------------------------------------------------------
\* The call, and call_with_channel.

ReplyArrives ==
    /\ xReply # "none" /\ xCall = "none" /\ xLink = "open"
    /\ xCall' = xReply
    /\ UNCHANGED <<xRequest, xReply, xLink, xPump, xServe, xFrames, xSent, xGot, xStored, xResult>>

\* The control connection closes (the plugin died, was shut down, or the pipe broke).
FileControlCloses ==
    /\ xLink = "open" /\ xLink' = "closed"
    /\ UNCHANGED <<xRequest, xCall, xReply, xPump, xServe, xFrames, xSent, xGot, xStored, xResult>>

PluginDiesWithFile ==
    /\ xServe # "over"
    /\ xServe' = "over" /\ xLink' = "closed"
    /\ UNCHANGED <<xRequest, xCall, xReply, xPump, xFrames, xSent, xGot, xStored, xResult>>

AnswersAtPumpEnd == xPump = "ok"

\* call_with_pump answers Ok when both the pump and the call did.
JoinedOk == xPump = "ok" /\ xCall = "ok"

TransferReturns ==
    /\ xResult = "none" /\ JoinedOk
    /\ xResult' = "ok"
    /\ UNCHANGED <<xRequest, xCall, xReply, xLink, xPump, xServe, xFrames, xSent, xGot, xStored>>

\* It fails as soon as either fails; when the reply comes without a channel and none opens
\* within the grace period; and when the control connection closes before the reply, or the
\* bounded wait for the last frames after it runs out.
TransferFails ==
    /\ xResult = "none"
    /\ \/ xPump = "err" \/ xCall = "err"
       \/ xCall = "ok" /\ xPump = "waiting"
       \/ xLink = "closed" /\ ~JoinedOk
    /\ xResult' = "err"
    /\ xPump' = IF xPump \in {"waiting", "moving"} THEN "err" ELSE xPump
    /\ UNCHANGED <<xRequest, xCall, xReply, xLink, xServe, xFrames, xSent, xGot, xStored>>

-----------------------------------------------------------------------------
FilesNext ==
    \/ ServeOpens \/ ServeRefuses \/ send_file \/ ServeReadFails \/ ServeReadEnds
    \/ receive_file \/ ServeLimits \/ ReceiveEnds \/ ReceiveBreaks \/ ServeWriteFails
    \/ PumpTimesOut \/ PumpReads \/ PumpBreaks \/ PumpWrites \/ PumpWriteEnds
    \/ ReplyArrives \/ FileControlCloses \/ PluginDiesWithFile \/ TransferReturns \/ TransferFails

-----------------------------------------------------------------------------
\* A transfer that is answered Ok moved everything: a read returned the whole file however
\* the reply, the last frames and the end of the connection were ordered, and a write or an
\* append stored exactly what was declared, which is what the source held.
OkTransferIsWhole ==
    xResult = "ok" => IF xKind \in Reads THEN xGot = xSize
                      ELSE xStored = xDeclared /\ xDeclared <= xSize

=============================================================================
