---------------------------- MODULE OutputStreams ----------------------------
(***************************************************************************)
(* The two byte-stream transformers every provider feeds a command's       *)
(* output through (sandbox-driver: capture.rs, sanitize.rs): bounded       *)
(* retention with a stable head and a rolling tail, and the sanitizer that *)
(* takes terminal escape sequences out of output that arrives in chunks.   *)
(*                                                                         *)
(* A byte is a representative of its class in the sanitizer's tables, so   *)
(* one value stands for every byte the code treats alike.                  *)
(***************************************************************************)
EXTENDS CaptureBuffer

CONSTANTS MaxText       \* bound on the bytes of one stream

ASSUME TextAssumption == MaxText \in Nat

VARIABLES
    text,       \* the policy, and the bytes pushed so far
    filter,     \* OutputSanitizer: policy, state, pending_c2, utf8_remaining
    cleaned,    \* what push and finish have returned
    kept        \* an OutputCaptureBuffer fed with the same chunks

outputVars == <<text, filter, cleaned, kept>>

Policies == {"raw", "strip_ansi", "strip_all"}

(* Byte classes.  "esc" 0x1b; "[", "]", "P" (P X ^ _) and "\\" introduce or *)
(* end sequences; "m" is any other final byte 0x30..0x7e; "sp" 0x20..0x2f;  *)
(* "bel" 0x07; "nul" other C0 controls; "nl" tab, line feed and carriage    *)
(* return; "csi" 0x9b, "osc" 0x9d, "st" 0x9c, "dcs" (0x90 0x98 0x9e 0x9f),  *)
(* "c1" the rest of 0x80..0x9f; "cont" 0xa0..0xbf; "c2" 0xc2; "lead" the  *)
(* lead byte of a three-byte character.                                     *)
Bytes == {"esc", "[", "]", "P", "\\", "m", "sp", "bel", "nul", "nl",
          "csi", "osc", "st", "dcs", "c1", "cont", "c2", "lead"}
EightBit == {"csi", "osc", "st", "dcs", "c1"}
Controls == {"esc", "bel", "nul", "nl"}

Filters == [policy : Policies,
            state : {"ground", "escape", "intermediate", "csi", "osc", "oscEscape", "oscC2",
                     "string", "stringEscape", "stringC2"},
            pendingC2 : BOOLEAN, utf8 : 0..2]

NewFilter(policy) == [policy |-> policy, state |-> "ground", pendingC2 |-> FALSE, utf8 |-> 0]

(* One step of the sanitizer yields the next filter and the bytes it lets out. *)
To(f, state, out) == [filter |-> [f EXCEPT !.state = state], out |-> out]

process_c1(f, byte, encoded) ==
    CASE byte = "dcs" -> To(f, "string", <<>>)
      [] byte = "csi" -> To(f, "csi", <<>>)
      [] byte = "osc" -> To(f, "osc", <<>>)
      [] byte = "st"  -> To(f, "ground", <<>>)
      [] byte = "c1"  -> To(f, "ground", IF f.policy = "strip_all" THEN <<>>
                                         ELSE IF encoded THEN <<"c2", byte>> ELSE <<byte>>)

(* A byte in the ground state once a pending 0xc2 and the bytes of the current *)
(* character have been dealt with.                                             *)
GroundByte(f, byte) ==
    CASE byte = "esc"      -> To(f, "escape", <<>>)
      [] byte \in EightBit -> process_c1(f, byte, FALSE)
      [] byte = "c2"       -> To([f EXCEPT !.pendingC2 = TRUE], "ground", <<>>)
      [] byte = "lead"     -> To([f EXCEPT !.utf8 = 2], "ground", <<byte>>)
      [] byte \in {"nul", "bel"} -> To(f, "ground", IF f.policy = "strip_all" THEN <<>> ELSE <<byte>>)
      [] OTHER             -> To(f, "ground", <<byte>>)

ContinueCharacter(f, byte) ==
    IF f.utf8 > 0 /\ byte \in EightBit \cup {"cont"}
    THEN To([f EXCEPT !.utf8 = @ - 1], "ground", <<byte>>)
    ELSE GroundByte([f EXCEPT !.utf8 = 0], byte)

process_ground(f, byte) ==
    LET g == [f EXCEPT !.pendingC2 = FALSE]
    IN  CASE ~f.pendingC2 -> ContinueCharacter(f, byte)
          [] f.pendingC2 /\ byte \in EightBit -> process_c1(g, byte, TRUE)
          [] f.pendingC2 /\ byte = "cont" -> To(g, "ground", <<"c2", byte>>)
          [] OTHER -> LET step == ContinueCharacter(g, byte)
                      IN  [step EXCEPT !.out = <<"c2">> \o @]

(* Mutant: a byte that begins no sequence is let through as it is. *)
process_escape_passes(f, byte) ==
    CASE byte = "["  -> To(f, "csi", <<>>)
      [] byte = "]"  -> To(f, "osc", <<>>)
      [] byte = "P"  -> To(f, "string", <<>>)
      [] byte = "sp" -> To(f, "intermediate", <<>>)
      [] byte \in {"m", "\\"} -> To(f, "ground", <<>>)
      [] byte = "esc" -> To(f, "escape", <<>>)
      [] OTHER       -> To(f, "ground", <<byte>>)

process_escape(f, byte) ==
    CASE byte = "["  -> To(f, "csi", <<>>)
      [] byte = "]"  -> To(f, "osc", <<>>)
      [] byte = "P"  -> To(f, "string", <<>>)
      [] byte = "sp" -> To(f, "intermediate", <<>>)
      [] byte \in {"m", "\\"} -> To(f, "ground", <<>>)
      [] byte = "esc" -> To(f, "escape", <<>>)
      [] OTHER       -> process_ground([f EXCEPT !.state = "ground"], byte)

(* ESC with intermediate bytes, and a control sequence, end at a final byte. *)
process_sequence(f, byte, finals) ==
    CASE byte \in finals -> To(f, "ground", <<>>)
      [] byte = "esc"    -> To(f, "escape", <<>>)
      [] OTHER           -> To(f, f.state, <<>>)

(* Operating-system commands and control strings end at ST or, the former, BEL; *)
(* an ESC or a 0xc2 may begin the ST.                                            *)
process_string(f, byte, body, escape, c2, ends) ==
    CASE byte \in ends -> To(f, "ground", <<>>)
      [] byte = "esc"  -> To(f, escape, <<>>)
      [] byte = "c2"   -> To(f, c2, <<>>)
      [] OTHER         -> To(f, body, <<>>)

Finals == {"m", "\\", "[", "]", "P"}

process(f, byte) ==
    CASE f.state = "ground" -> process_ground(f, byte)
      [] f.state = "escape" -> process_escape(f, byte)
      [] f.state \in {"intermediate", "csi"} -> process_sequence(f, byte, Finals)
      [] f.state \in {"osc", "oscC2"} ->
             process_string(f, byte, "osc", "oscEscape", "oscC2", {"bel", "st"})
      [] f.state = "oscEscape" ->
             process_string(f, byte, "osc", "oscEscape", "oscC2", {"\\"})
      [] f.state \in {"string", "stringC2"} ->
             process_string(f, byte, "string", "stringEscape", "stringC2", {"st"})
      [] f.state = "stringEscape" ->
             process_string(f, byte, "string", "stringEscape", "stringC2", {"\\"})

(* push of a chunk; under the raw policy the chunk itself. *)
push(f, chunk) ==
    IF f.policy = "raw" THEN [filter |-> f, out |-> chunk]
    ELSE FoldLeft(LAMBDA acc, byte : LET step == process(acc.filter, byte)
                                     IN  [filter |-> step.filter, out |-> acc.out \o step.out],
                  [filter |-> f, out |-> <<>>], chunk)

finish(f) == IF f.policy # "raw" /\ f.state = "ground" /\ f.pendingC2 THEN <<"c2">> ELSE <<>>

sanitize(policy, bytes) ==
    LET pushed == push(NewFilter(policy), bytes) IN pushed.out \o finish(pushed.filter)
-----------------------------------------------------------------------------
(* A caller that asks for no retention, or for this many bytes. *)
RetainedLimit == 3

-----------------------------------------------------------------------------
OutputInit ==
    /\ \E policy \in Policies : /\ text = [policy |-> policy, pushed |-> <<>>, ended |-> FALSE]
                                /\ filter = NewFilter(policy)
                                /\ kept = NewCapture(IF policy = "raw" THEN 0 ELSE RetainedLimit)
    /\ cleaned = <<>>

(* The next chunk of the stream reaches the sanitizer and the capture. *)
PushChunk(chunk) ==
    LET pushed == push(filter, chunk)
    IN  /\ ~text.ended /\ Len(text.pushed) + Len(chunk) <= MaxText
        /\ text' = [text EXCEPT !.pushed = @ \o chunk]
        /\ filter' = pushed.filter
        /\ cleaned' = cleaned \o pushed.out
        /\ kept' = CapturePush(kept, chunk)

FinishStream ==
    /\ ~text.ended
    /\ text' = [text EXCEPT !.ended = TRUE]
    /\ cleaned' = cleaned \o finish(filter)
    /\ filter' = NewFilter(text.policy)
    /\ UNCHANGED kept

OutputNext == (\E chunk \in SeqOf(Bytes, 2) \ {<<>>} : PushChunk(chunk)) \/ FinishStream

OutputTypeOK == filter \in Filters /\ text.policy \in Policies
-----------------------------------------------------------------------------
(* What the policy lets through holds no escape sequence, however the stream was *)
(* cut into chunks and whatever interrupted its characters: sanitizing it again  *)
(* takes nothing more away, and nothing a raw stream carries is lost.            *)
SanitizedIsClean ==
    text.ended => /\ sanitize(text.policy, cleaned) = cleaned
                  /\ "esc" \in Range(cleaned) => text.policy = "raw"
                  /\ text.policy = "raw" => cleaned = text.pushed

(* What is retained is the oldest and the newest bytes of the stream, whatever its *)
(* chunks were, and every byte is retained or counted as omitted.                  *)
CaptureKeepsEnds ==
    LET n == Len(text.pushed)
        head == SubSeq(text.pushed, 1, IF n < kept.headCap THEN n ELSE kept.headCap)
        rest == SubSeq(text.pushed, Len(head) + 1, n)
    IN  /\ Retained(kept) = head \o Newest(rest, kept.cap - kept.headCap)
        /\ kept.observed = n
        /\ kept.omitted = n - Len(Retained(kept))
=============================================================================
