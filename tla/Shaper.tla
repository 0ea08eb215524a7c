------------------------------- MODULE Shaper -------------------------------
(***************************************************************************)
(* Shaping a terminal's output (supra_shell) over the resumable escape     *)
(* scanner and the truncation planner of libsupra_ansi (supra_ffi).  Bytes *)
(* come in reads of any size; the transcript must not depend on where the  *)
(* reads were cut.  A byte is one of                                       *)
(*   a, [       text; in a sequence the final byte, after ESC the CSI      *)
(*   ESC CR LF BS                                                          *)
(*   lead       the first of two bytes of a UTF-8 scalar                   *)
(*   cont       0x9B, a continuation byte and the 8-bit CSI as well        *)
(***************************************************************************)
EXTENDS Naturals, Sequences, SequencesExt

CONSTANTS
  Bytes,          \* the bytes a child may write
  MaxRead,        \* bytes of one read
  MaxStream,      \* bound: bytes of the stream
  MaxLineCells,   \* Shaper::max_line_cells
  MaxLines        \* Shaper::max_lines

ASSUME ShaperAssumption ==
  /\ Bytes \subseteq {"a", "[", "ESC", "CR", "LF", "BS", "lead", "cont"}
  /\ MaxRead \in Nat /\ MaxStream \in Nat /\ MaxLineCells \in Nat /\ MaxLines \in Nat

VARIABLES shaper, stream   \* the shaper fed read by read, and every byte it was fed
shaperVars == <<shaper, stream>>

(***************************************************************************)
(* Scanner                                                                 *)
(***************************************************************************)
\* state: where in a sequence; expect: continuation bytes owed; run: inside a
\* run of text; kind: what the last byte was part of.
NewScanner == [state |-> "Ground", expect |-> 0, run |-> FALSE, kind |-> "none"]
FinalByte(b) == b \in {"a", "["}

\* One byte outside any sequence.  The run of text looks at what is owed before
\* it looks at the byte; the start of a token does not.
Ground(sc, b) ==
  LET owed == IF sc.run /\ b # "cont" THEN 0 ELSE sc.expect
      text == b \in {"a", "[", "LF", "lead"} \/ (b = "cont" /\ owed > 0)
  IN CASE text /\ b = "cont" -> [state |-> "Ground", expect |-> owed - 1, run |-> TRUE, kind |-> "tail"]
       [] text /\ b # "cont" -> [state |-> "Ground", expect |-> IF b = "lead" THEN 1 ELSE 0,
                                 run |-> TRUE, kind |-> "text"]
       [] b = "ESC" -> [state |-> "Escape", expect |-> owed, run |-> FALSE, kind |-> "none"]
       [] b = "cont" /\ ~text -> [state |-> "Csi", expect |-> owed, run |-> FALSE, kind |-> "none"]
       [] b \in {"CR", "BS"} -> [state |-> "Ground", expect |-> owed, run |-> FALSE, kind |-> "control"]

\* supra_ansi_scan, one byte: a sequence straddling two reads stays one token.
Scan(sc, b) ==
  CASE sc.state = "Ground" -> Ground(sc, b)
    [] sc.state = "Escape" ->
         IF b = "[" THEN [sc EXCEPT !.state = "Csi", !.kind = "none"]
         ELSE [sc EXCEPT !.state = "Ground", !.kind = IF b = "a" THEN "seq" ELSE "bad"]
    [] sc.state = "Csi" ->
         IF FinalByte(b) THEN [sc EXCEPT !.state = "Ground", !.kind = "seq"]
         ELSE [sc EXCEPT !.state = "Ignore", !.kind = "none"]
    [] sc.state = "Ignore" ->
         IF FinalByte(b) THEN [sc EXCEPT !.state = "Ground", !.kind = "bad"] ELSE sc

(***************************************************************************)
(* Truncation                                                              *)
(***************************************************************************)
\* plan_truncate: whole clusters up to max_cells; a sequence takes no cell and
\* an unfinished one is left out.
plan_truncate(line) ==
  LET Take(acc, b) ==
        LET sc == Scan(acc.sc, b) IN
        IF acc.cut THEN acc
        ELSE CASE sc.kind = "text" /\ acc.cells = MaxLineCells -> [acc EXCEPT !.cut = TRUE]
               [] sc.kind = "text" /\ acc.cells < MaxLineCells ->
                    [acc EXCEPT !.sc = sc, !.cells = @ + 1, !.at = @ + 1, !.prefix = acc.at + 1]
               [] sc.kind \in {"tail", "seq", "control"} ->
                    [acc EXCEPT !.sc = sc, !.at = @ + 1, !.prefix = acc.at + 1]
               [] sc.kind \in {"none", "bad"} -> [acc EXCEPT !.sc = sc, !.at = @ + 1]
  IN FoldLeft(Take, [sc |-> NewScanner, cells |-> 0, at |-> 0, prefix |-> 0, cut |-> FALSE], line)

(***************************************************************************)
(* Line discipline                                                         *)
(***************************************************************************)
NewShaper == [scanner |-> NewScanner, line |-> <<>>, cursor |-> 0, ring |-> <<>>,
              truncated |-> 0, dropped |-> 0, finished |-> FALSE]

write_at_cursor(sh, b) ==
  [sh EXCEPT !.line = IF sh.cursor = Len(sh.line) THEN Append(@, b)
                      ELSE [@ EXCEPT ![sh.cursor + 1] = b],
             !.cursor = @ + 1]

\* An empty line is not kept; a full ring gives up its oldest line.
commit_open_line(sh) ==
  LET plan == plan_truncate(sh.line)
      kept == SubSeq(sh.line, 1, plan.prefix)
      open == [sh EXCEPT !.line = <<>>, !.cursor = 0]
      seen == [open EXCEPT !.truncated = IF plan.cut THEN @ + 1 ELSE @]
  IN IF sh.line = <<>> THEN open
     ELSE IF MaxLines = 0 THEN [seen EXCEPT !.dropped = @ + 1]
     ELSE IF Len(sh.ring) = MaxLines
          THEN [seen EXCEPT !.ring = Append(Tail(@), kept), !.dropped = @ + 1]
          ELSE [seen EXCEPT !.ring = Append(@, kept)]

\* apply, for the byte that ends or extends a token.
apply(sh, b) ==
  CASE sh.scanner.kind \in {"text", "tail"} ->
         IF b = "LF" THEN commit_open_line(sh) ELSE write_at_cursor(sh, b)
    [] sh.scanner.kind = "control" ->
         [sh EXCEPT !.cursor = IF b = "CR" \/ @ = 0 THEN 0 ELSE @ - 1]
    [] sh.scanner.kind \in {"none", "seq", "bad"} -> sh

\* The shaper after each byte of a read, the first n of them at n.
take(sh, b) == apply([sh EXCEPT !.scanner = Scan(@, b)], b)
Fed(sh, bytes) ==
  LET after[n \in 0..Len(bytes)] == IF n = 0 THEN sh ELSE take(after[n - 1], bytes[n])
  IN after

\* Fault: a read forgets the sequence the one before it broke off in.
push_Fresh(sh, bytes) ==
  IF sh.finished THEN sh ELSE Fed([sh EXCEPT !.scanner = NewScanner], bytes)[Len(bytes)]

\* push: a new read starts a new token unless a sequence is pending.
push(sh, bytes) ==
  IF sh.finished THEN sh ELSE Fed([sh EXCEPT !.scanner.run = FALSE], bytes)[Len(bytes)]

\* finish: a pending sequence is dropped, the open line committed.
finish(sh) == commit_open_line([sh EXCEPT !.scanner = NewScanner, !.finished = TRUE])

\* suggests_prompt: a short unterminated line; "[" stands for the prompt glyphs.
suggests_prompt(sh) == ~sh.finished /\ sh.line # <<>> /\ Last(sh.line) = "["

ShaperTypeOK ==
  /\ stream \in Seq(Bytes) /\ Len(stream) <= MaxStream + MaxRead
  /\ shaper.cursor \in 0..Len(shaper.line) /\ Len(shaper.ring) <= MaxLines

ShaperInit == shaper = NewShaper /\ stream = <<>>

Read(chunk) ==
  /\ ~shaper.finished /\ Len(stream) < MaxStream
  /\ shaper' = push(shaper, chunk) /\ stream' = stream \o chunk

Finish == ~shaper.finished /\ shaper' = finish(shaper) /\ UNCHANGED stream

ShaperNext == Finish \/ \E n \in 1..MaxRead : \E chunk \in [1..n -> Bytes] : Read(chunk)
ShaperSpec == ShaperInit /\ [][ShaperNext]_shaperVars

(***************************************************************************)
(* Properties                                                              *)
(***************************************************************************)
InOneRead == LET one == push(NewShaper, stream)
             IN IF shaper.finished THEN finish(one) ELSE one
Transcript(sh) == <<sh.ring, sh.line, sh.cursor, sh.dropped, sh.truncated, suggests_prompt(sh)>>

\* A scalar that was begun is completed.
WellFormed == \A i \in 1..Len(stream) - 1 : stream[i] = "lead" => stream[i + 1] = "cont"

\* "The same byte stream in, the same shaped output out, whatever chunk
\* boundaries it crossed" (shaping.rs), for streams of whole UTF-8 scalars.
ChunksDoNotMatter == WellFormed => Transcript(shaper) = Transcript(InOneRead)

\* The same sentence as it stands, for every byte stream a child may write.
AnyChunks == Transcript(shaper) = Transcript(InOneRead)
=============================================================================
