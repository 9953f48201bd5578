---------------------------- MODULE DockerArchive ----------------------------
(***************************************************************************)
(* File transfer with a container as a tar stream (sandbox-driver-docker:  *)
(* fs.rs, fs/tar.rs): TarScanner, which picks a byte range of the first    *)
(* regular file out of an archive that arrives in arbitrary chunks, the    *)
(* read that follows a link, and the upload that archives a source of      *)
(* declared length.                                                        *)
(*                                                                         *)
(* A byte is a record of what it is part of; every byte of a header holds  *)
(* the header.  Block is TAR_BLOCK.                                        *)
(***************************************************************************)
EXTENDS Integers, Sequences, SequencesExt

CONSTANTS
    Block,      \* bytes in a tar block
    MaxFile,    \* bound on the size of an archived entry
    MaxEntries  \* bound on the entries before the end of an archive

ASSUME ArchiveAssumption == Block \in Nat \ {0} /\ MaxFile \in Nat /\ MaxEntries \in Nat

VARIABLES
    archive,   \* the bytes the daemon sends
    wanted,    \* the range: offset, and length or "all"
    pos,       \* bytes of the archive consumed
    chunk,     \* bytes of the current chunk not yet consumed
    scan,      \* ScanState, with the fields of the scanner
    output,    \* the bytes written to the caller
    reading,   \* read_range_to: which archive, and how it ended
    upload     \* an upload: declared length, source, what was sent, its step

archiveVars == <<archive, wanted, pos, chunk, scan, output, reading, upload>>

EntryKinds == {"file", "dir", "link", "pax"}
Zero == [is |-> "zero", kind |-> "pax", n |-> 0]

PaddingKeepsBlock(size) == Block - (size % Block)
\* padding_for, and padded without its overflow: sizes stay far below 2^64.
PaddingFor(size) == (Block - (size % Block)) % Block

Header(kind, size) == [i \in 1..Block |-> [is |-> "header", kind |-> kind, n |-> size]]
Content(size) == [i \in 1..size |-> [is |-> "data", kind |-> "file", n |-> i]]
Zeros(n) == [i \in 1..n |-> Zero]
\* The format fills up the last block of an entry.
Fill(size) == CHOOSE n \in 0..(Block - 1) : (size + n) % Block = 0
Entry(kind, size) == Header(kind, size) \o Content(size) \o Zeros(Fill(size))
EndOfArchive == Zeros(2 * Block)

\* Docker archives one resource: extension headers, then the resource.
Archives ==
    {FlattenSeq([i \in 1..n |-> Entry("pax", paxSize)]) \o Entry(kind, size) \o EndOfArchive :
       n \in 0..MaxEntries, paxSize \in 0..MaxFile,
       kind \in {"file", "dir", "link"}, size \in 0..MaxFile}
    \cup {EndOfArchive}

NewScanner == [state |-> "Header", got |-> 0, header |-> Zero, left |-> 0, position |-> 0,
               size |-> 0, found |-> FALSE]

ArchiveInit ==
    /\ archive = <<>>
    /\ wanted = [offset |-> 0, length |-> -1]
    /\ pos = 0
    /\ chunk = 0
    /\ scan = NewScanner
    /\ output = <<>>
    /\ reading = [at |-> "idle", via |-> "path"]
    /\ upload = [at |-> "idle", length |-> 0, has |-> 0, sent |-> <<>>]

ArchiveTypeOK ==
    /\ wanted \in [offset : 0..(MaxFile + 1), length : -1..MaxFile]
    /\ pos \in 0..Len(archive)
    /\ chunk \in 0..(Len(archive) - pos)
    /\ scan.state \in {"Header", "Skip", "Content", "Done"}
    /\ scan.got \in 0..(Block - 1)
    /\ scan.left \in 0..(MaxFile + Block)
    /\ scan.position \in 0..scan.size
    /\ scan.found \in BOOLEAN
    /\ reading.at \in {"idle", "stream", "finish", "File", "NotAFile", "eof", "missing"}
    /\ reading.via \in {"path", "target"}
    /\ upload.at \in {"idle", "prefix", "body", "trailer", "sent", "short", "refused"}

-----------------------------------------------------------------------------
(* TarScanner.                                                              *)

Lesser(a, b) == IF a < b THEN a ELSE b
Minus(a, b) == IF a > b THEN a - b ELSE 0          \* saturating_sub

RangeEndExclusiveOffset == IF wanted.length < 0 THEN 2 ^ 20 ELSE wanted.length
\* No length: u64::MAX.
RangeEnd == IF wanted.length < 0 THEN 2 ^ 20 ELSE wanted.offset + wanted.length

Take(n) == pos' = pos + n /\ chunk' = chunk - n

\* The full header decides: end, file, other resource, or data to skip.
HeaderRead(h) ==
    CASE h.is = "zero" -> [scan EXCEPT !.state = "Done", !.got = 0]
      [] h.is # "zero" /\ h.kind = "file" ->
           [scan EXCEPT !.state = "Content", !.got = 0, !.found = TRUE,
                        !.position = 0, !.size = h.n]
      [] h.is # "zero" /\ h.kind \in {"dir", "link"} -> [scan EXCEPT !.state = "Done", !.got = 0]
      [] OTHER -> [scan EXCEPT !.state = "Skip", !.got = 0, !.left = h.n + PaddingFor(h.n)]

FeedHeader ==
    /\ reading.at = "stream" /\ scan.state = "Header" /\ chunk > 0
    /\ LET take == Lesser(Block - scan.got, chunk)
       IN /\ Take(take)
          /\ scan' = IF scan.got + take < Block
                     THEN [scan EXCEPT !.got = scan.got + take]
                     ELSE HeaderRead(archive[pos + take])
    /\ UNCHANGED <<archive, wanted, output, reading, upload>>

FeedSkip ==
    /\ reading.at = "stream" /\ scan.state = "Skip" /\ (chunk > 0 \/ scan.left = 0)
    /\ LET take == Lesser(scan.left, chunk)
       IN /\ Take(take)
          /\ scan' = [scan EXCEPT !.left = scan.left - take,
                                  !.state = IF scan.left = take THEN "Header" ELSE "Skip"]
    /\ UNCHANGED <<archive, wanted, output, reading, upload>>

\* Keep the part of the chunk inside the range; done at the end of either.
FeedContent ==
    /\ reading.at = "stream" /\ scan.state = "Content"
    /\ chunk > 0 \/ scan.size = 0 \/ RangeEnd = 0
    /\ LET take == Lesser(chunk, Minus(scan.size, scan.position))
           from == Lesser(Minus(wanted.offset, scan.position), take)
           to == Lesser(Minus(RangeEnd, scan.position), take)
           next == scan.position + take
       IN /\ output' = output \o SubSeq(archive, pos + from + 1, pos + to)
          /\ scan' = [scan EXCEPT !.position = next,
                                  !.state = IF next >= scan.size \/ next >= RangeEnd
                                            THEN "Done" ELSE "Content"]
          /\ Take(chunk)
    /\ UNCHANGED <<archive, wanted, reading, upload>>

-----------------------------------------------------------------------------
(* read_range_to.                                                           *)

ReadRangeTo ==
    /\ reading.at = "idle" /\ upload.at = "idle"
    /\ archive' \in Archives
    /\ wanted' \in [offset : 0..(MaxFile + 1), length : -1..MaxFile]
    /\ reading' = [reading EXCEPT !.at = "stream"]
    /\ UNCHANGED <<pos, chunk, scan, output, upload>>

\* The next chunk of the stream; the last one was consumed.
NextChunk ==
    /\ reading.at = "stream" /\ scan.state # "Done" /\ chunk = 0
    /\ ~(scan.state = "Skip" /\ scan.left = 0)
    /\ ~(scan.state = "Content" /\ (scan.size = 0 \/ RangeEnd = 0))
    /\ chunk' \in 1..(Len(archive) - pos)
    /\ UNCHANGED <<archive, wanted, pos, scan, output, reading, upload>>

\* The stream breaks off cleanly.
ArchiveStreamEnds ==
    /\ reading.at = "stream" /\ scan.state # "Done" /\ chunk = 0
    /\ reading' = [reading EXCEPT !.at = "finish"]
    /\ UNCHANGED <<archive, wanted, pos, chunk, scan, output, upload>>

\* A scanner that is content with what it has.
FinishAnyState ==
    /\ reading.at = "finish" \/ (reading.at = "stream" /\ scan.state = "Done")
    /\ reading' = [reading EXCEPT !.at = IF scan.found THEN "File" ELSE "NotAFile"]
    /\ UNCHANGED <<archive, wanted, pos, chunk, scan, output, upload>>

Finish ==
    /\ reading.at = "finish" \/ (reading.at = "stream" /\ scan.state = "Done")
    /\ reading' = [reading EXCEPT !.at = IF scan.state # "Done" THEN "eof"
                                         ELSE IF scan.found THEN "File" ELSE "NotAFile"]
    /\ UNCHANGED <<archive, wanted, pos, chunk, scan, output, upload>>

\* Not a regular file: resolve the link and read its target, once.
FollowLink ==
    /\ reading = [at |-> "NotAFile", via |-> "path"]
    /\ \/ /\ archive' \in Archives
          /\ reading' = [at |-> "stream", via |-> "target"]
          /\ pos' = 0
          /\ chunk' = 0
          /\ scan' = NewScanner
       \/ /\ reading' = [reading EXCEPT !.at = "missing"]
          /\ UNCHANGED <<archive, pos, chunk, scan>>
    /\ UNCHANGED <<wanted, output, upload>>

-----------------------------------------------------------------------------
(* write_from: the archive's prefix, the source in short reads, padding.    *)

WriteFrom ==
    /\ reading.at = "idle" /\ upload.at = "idle"
    /\ \E length, has \in 0..MaxFile :
         upload' = [at |-> "prefix", length |-> length, has |-> has, sent |-> <<>>]
    /\ UNCHANGED <<archive, wanted, pos, chunk, scan, output, reading>>

SendPrefix ==
    /\ upload.at = "prefix"
    /\ upload' = [upload EXCEPT !.sent = Header("file", upload.length), !.at = "body"]
    /\ UNCHANGED <<archive, wanted, pos, chunk, scan, output, reading>>

SendBody ==
    /\ upload.at = "body"
    /\ LET read == Len(upload.sent) - Block
           more == Lesser(upload.length, upload.has) - read
       IN \/ /\ read = upload.length
             /\ upload' = [upload EXCEPT !.at = "trailer"]
          \/ /\ read < upload.length /\ more = 0
             /\ upload' = [upload EXCEPT !.at = "short"]
          \/ \E n \in 1..more :
               upload' = [upload EXCEPT !.sent = @ \o SubSeq(Content(MaxFile), read + 1, read + n)]
    /\ UNCHANGED <<archive, wanted, pos, chunk, scan, output, reading>>

SendTrailer ==
    /\ upload.at = "trailer"
    /\ upload' = [upload EXCEPT !.at = "sent",
                                !.sent = @ \o Zeros(PaddingFor(upload.length) + 2 * Block)]
    /\ UNCHANGED <<archive, wanted, pos, chunk, scan, output, reading>>

\* The daemon rejects the upload while it is being sent.
UploadRefused ==
    /\ upload.at \in {"prefix", "body", "trailer"}
    /\ upload' = [upload EXCEPT !.at = "refused"]
    /\ UNCHANGED <<archive, wanted, pos, chunk, scan, output, reading>>

\* What was uploaded is read back.
ReadBack ==
    /\ upload.at = "sent" /\ reading.at = "idle"
    /\ archive' = upload.sent
    /\ reading' = [reading EXCEPT !.at = "stream"]
    /\ UNCHANGED <<wanted, pos, chunk, scan, output, upload>>

ArchiveNext ==
    \/ ReadRangeTo \/ NextChunk \/ FeedHeader \/ FeedSkip \/ FeedContent \/ ArchiveStreamEnds
    \/ Finish \/ FollowLink
    \/ WriteFrom \/ SendPrefix \/ SendBody \/ SendTrailer \/ UploadRefused \/ ReadBack

-----------------------------------------------------------------------------
(* Properties.                                                              *)

\* The first entry that is no extension header.
Resource ==
    LET real == SelectSeq(archive, LAMBDA b : b.is = "header" /\ b.kind # "pax")
    IN IF real = <<>> THEN Zero ELSE real[1]

\* The bytes [offset, offset + length) of the archived file, cut at its end.
ExpectedRange ==
    SubSeq(Content(Resource.n), wanted.offset + 1,
           IF wanted.length < 0 THEN Resource.n
           ELSE Lesser(Resource.n, wanted.offset + wanted.length))

\* However the stream is cut into chunks, a read that reports a file wrote
\* exactly the range, and one that is still running wrote a prefix of it; a
\* stream that broke off early is never reported as a file.
ReadIsTheRange ==
    /\ reading.at = "File" => Resource.kind = "file" /\ output = ExpectedRange
    /\ reading.at \in {"stream", "finish", "eof"} /\ scan.found => IsPrefix(output, ExpectedRange)

\* A resource that is no regular file writes nothing, so that following a link
\* starts from an empty output.
NotAFileWritesNothing == reading.at \in {"NotAFile", "missing"} => output = <<>>

\* An archive that was sent whole is whole blocks and reads back as the first
\* `length` bytes of the source; a source that is short never passes for sent.
UploadIsWhole ==
    upload.at = "sent" =>
      /\ Len(upload.sent) % Block = 0
      /\ upload.has >= upload.length
      /\ SelectSeq(upload.sent, LAMBDA b : b.is = "data") = Content(upload.length)
=============================================================================
