---------------------------- MODULE CaptureBuffer ----------------------------
(***************************************************************************)
(* OutputCaptureBuffer (sandbox-driver: capture.rs): bounded retention     *)
(* with a stable head and a rolling tail.  Everything is drained; what     *)
(* does not fit is counted as omitted.                                     *)
(***************************************************************************)
EXTENDS Integers, Sequences, SequencesExt

(* OutputCaptureBuffer::new, push and to_bytes. *)
NewCapture(cap) == [cap |-> cap, headCap |-> cap \div 2, head |-> <<>>, tail |-> <<>>,
                    observed |-> 0, omitted |-> 0]

(* The newest bytes that fit in the tail. *)
Newest(bytes, n) == SubSeq(bytes, IF Len(bytes) > n THEN Len(bytes) - n + 1 ELSE 1, Len(bytes))

(* Mutant: the head keeps filling after the tail has begun. *)
CapturePushWidens(buffer, chunk) ==
    LET headCap == buffer.headCap + Len(buffer.tail)
        room == headCap - Len(buffer.head)
        take == IF room < Len(chunk) THEN room ELSE Len(chunk)
        rest == buffer.tail \o SubSeq(chunk, take + 1, Len(chunk))
        tail == Newest(rest, buffer.cap - buffer.headCap)
    IN  [buffer EXCEPT !.head = @ \o SubSeq(chunk, 1, take), !.tail = tail,
                       !.observed = @ + Len(chunk), !.omitted = @ + Len(rest) - Len(tail)]

CapturePush(buffer, chunk) ==
    LET room == buffer.headCap - Len(buffer.head)
        take == IF room < Len(chunk) THEN room ELSE Len(chunk)
        rest == buffer.tail \o SubSeq(chunk, take + 1, Len(chunk))
        tail == Newest(rest, buffer.cap - buffer.headCap)
    IN  [buffer EXCEPT !.head = @ \o SubSeq(chunk, 1, take), !.tail = tail,
                       !.observed = @ + Len(chunk), !.omitted = @ + Len(rest) - Len(tail)]

Retained(buffer) == buffer.head \o buffer.tail
=============================================================================
