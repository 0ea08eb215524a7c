------------------------------- MODULE Redact -------------------------------
(***************************************************************************)
(* Redaction at the log sink (supra_log redact): one pass over a formatted *)
(* line that replaces what is named, or looks, like a credential.          *)
(*                                                                         *)
(* A line is a sequence of symbols.  "f" is a secret field's name, "s" a   *)
(* credential's prefix, "P", "N" and "D" the PEM marks BEGIN, END and the  *)
(* dashes that close either; "t" and "n" any other token character, "q" a  *)
(* quote, "b" a backslash (with "n" an escaped newline), then "=", ":",    *)
(* "," and " ".                                                            *)
(***************************************************************************)
EXTENDS Integers, Sequences, FiniteSets, FiniteSetsExt, SequencesExt, Functions

\* Charset::contains; and what may not stand before a credential's prefix.
Token == {"t", "n", "f", "s", "D"}
\* SHAPES: the prefix, and the shortest payload worth redacting (16 and up).
MIN_PAYLOAD == 2
\* SECRET_FIELDS: a name may be the beginning of another, which is tried after it.
SECRET_FIELDS == <<<<"f">>, <<"f", "t">>>>

From(line, i) == SubSeq(line, i, Len(line))
StartsWith(s, prefix) == IsPrefix(prefix, s)
\* find: the first place, counted from 0, or -1.
find(s, what) ==
  LET at == {i \in 1..Len(s) : StartsWith(From(s, i), what)} IN IF at = {} THEN -1 ELSE Min(at) - 1
\* take_while: the length of the longest beginning within a set.
RunLength(s, chars) == Max({n \in 0..Len(s) : \A i \in 1..n : s[i] \in chars})
TrimStart(s) == From(s, RunLength(s, {" "}) + 1)

\* Fault: every place counts as the start of a token.
is_boundary_Always(line, i) == TRUE
is_boundary(line, i) == i = 1 \/ line[i - 1] \notin Token

\* might_contain_secret, derived from the same tables.
might_contain_secret(line) == \E i \in DOMAIN line : line[i] \in {"s", "f", "P"}

NoMatch == [consumed |-> 0, head |-> 0]

\* match_pem: from the END mark through the first dashes before an escaped newline, be
\* they its own or those of a BEGIN after it; without such, through its own closing
\* dashes, or to the line's end.
match_pem(line, i) ==
  LET rest == From(line, i)
      at == find(rest, <<"N">>)
      newline == find(From(rest, at + 1), <<"D", "b", "n">>)
      dashes == find(From(rest, at + 2), <<"D">>) IN
  IF ~StartsWith(rest, <<"P">>) THEN NoMatch
  ELSE [consumed |-> IF at >= 0 /\ newline >= 0 THEN at + newline + 3
                     ELSE IF at >= 0 /\ dashes >= 0 THEN at + 1 + dashes + 1
                     ELSE Len(rest),
        head |-> 0]

\* Fault: an escaped quote ends the string.
json_string_value_Raw(s) ==
  IF s = <<>> \/ s[1] # "q" \/ find(Tail(s), <<"q">>) < 0 THEN -1 ELSE find(Tail(s), <<"q">>) + 2

\* json_string_value: the length of the quoted string a text begins with, or -1.
RECURSIVE ClosingQuote(_, _)
ClosingQuote(s, at) ==
  IF at > Len(s) THEN -1
  ELSE IF s[at] = "b" THEN ClosingQuote(s, at + 2)
  ELSE IF s[at] = "q" THEN at ELSE ClosingQuote(s, at + 1)
json_string_value(s) == IF s = <<>> \/ s[1] # "q" THEN -1 ELSE ClosingQuote(s, 2)

\* strip_json_name: what follows the quoted name and its colon, or nothing.
strip_json_name(rest, field) ==
  LET quoted == <<"q">> \o field \o <<"q">>
      after == TrimStart(From(rest, Len(quoted) + 1)) IN
  IF StartsWith(rest, quoted) /\ StartsWith(after, <<":">>) THEN TrimStart(Tail(after)) ELSE <<>>

compact_value_len(value) ==
  IF StartsWith(value, <<"q">>)
  THEN IF json_string_value(value) < 0 THEN Len(value) ELSE json_string_value(value)
  ELSE RunLength(value, Range(value) \ {" "})

\* match_field: the first field that matches, quoted or compact; head is what is kept.
FieldMatch(line, i, field) ==
  LET rest == From(line, i)
      after == strip_json_name(rest, field)
      total == json_string_value(after)
      named == field \o <<"=">>
      length == compact_value_len(From(rest, Len(named) + 1)) IN
  IF total >= 0 THEN [consumed |-> Len(rest) - Len(after) + total, head |-> Len(rest) - Len(after)]
  ELSE IF StartsWith(rest, named) /\ is_boundary(line, i) /\ length > 0
  THEN [consumed |-> Len(named) + length, head |-> Len(named)] ELSE NoMatch

match_field(line, i) ==
  LET hits == SelectSeq([k \in DOMAIN SECRET_FIELDS |-> FieldMatch(line, i, SECRET_FIELDS[k])],
                        LAMBDA m : m # NoMatch) IN
  IF hits = <<>> THEN NoMatch ELSE hits[1]

match_shape(line, i) ==
  LET length == RunLength(From(line, i + 1), Token) IN
  IF is_boundary(line, i) /\ line[i] = "s" /\ length >= MIN_PAYLOAD
  THEN [consumed |-> 1 + length, head |-> 1] ELSE NoMatch

match_at(line, i) ==
  IF match_pem(line, i) # NoMatch THEN match_pem(line, i)
  ELSE IF match_field(line, i) # NoMatch THEN match_field(line, i) ELSE match_shape(line, i)

\* redact: the places of the line that are still there afterwards.
RECURSIVE Kept(_, _)
Kept(line, i) ==
  IF i > Len(line) THEN {}
  ELSE IF match_at(line, i) = NoMatch THEN {i} \cup Kept(line, i + 1)
  ELSE i..(i + match_at(line, i).head - 1) \cup Kept(line, i + match_at(line, i).consumed)
redact(line) == IF might_contain_secret(line) THEN Kept(line, 1) ELSE DOMAIN line

(***************************************************************************)
(* What the formatters write, and what of it is secret                     *)
(***************************************************************************)
Escaped(value) ==
  FoldLeft(LAMBDA text, c : text \o (IF c \in {"q", "b"} THEN <<"b", c>> ELSE <<c>>), <<>>, value)

\* A key's block: the marks closed, each on a line of its own, the last with a newline
\* after it ("pem") or cut off there ("key").
Newline == <<"b", "n">>
Block(value, end) == <<"P", "t", "D">> \o Newline \o value \o Newline \o <<"N", "t", "D">> \o end
IsKey(piece) == piece.kind \in {"pem", "key"}

\* A piece [kind, name, value] rendered: its text, and the places in it to hide.
Rendered(piece) ==
  LET quoted == <<"q">> \o Escaped(piece.value) \o <<"q">>
      member == <<"q">> \o piece.name \o <<"q", ":">>
      pair == piece.name \o <<"=">>
      text == CASE piece.kind = "json" -> member \o quoted
                [] piece.kind = "pair" -> pair \o piece.value
                [] piece.kind = "debug" -> pair \o quoted
                [] piece.kind = "pem" -> Block(piece.value, Newline)
                [] piece.kind = "key" -> Block(piece.value, <<>>)
                [] piece.kind = "word" -> piece.value
      named == CASE piece.kind = "json" -> (Len(member) + 2)..(Len(text) - 1)
                 [] piece.kind \in {"pair", "debug"} -> (Len(pair) + 1)..Len(text)
                 [] IsKey(piece) -> DOMAIN text
                 [] piece.kind = "word" -> {}
      shaped == UNION {(i + 1)..(i + RunLength(From(text, i + 1), Token)) : i \in
                  {j \in DOMAIN text : /\ text[j] = "s" /\ (j = 1 \/ text[j - 1] \notin Token)
                                       /\ RunLength(From(text, j + 1), Token) >= MIN_PAYLOAD}} IN
  [text |-> text,
   secret |-> IF IsKey(piece) \/ piece.name \in Range(SECRET_FIELDS) THEN named ELSE shaped]

\* The places of a line of two pieces, apart by a space or a comma, that are secret; a
\* replaced string keeps its quotes.
Joined(first, second) ==
  Rendered(first).text \o (IF first.kind = "json" THEN <<",">> ELSE <<" ">>) \o Rendered(second).text
Quotes(line) == {i \in DOMAIN line : line[i] = "q"}
Secrets(first, second) ==
  Rendered(first).secret \cup {Len(Rendered(first).text) + 1 + i : i \in Rendered(second).secret}

\* "A PEM block, redacted whole ... from -----BEGIN to the end of the closing marker"
\* (match_pem), as for any credential: nothing that was secret is left.  Refuted by a key
\* cut off at its END mark before another: the first match runs on through the BEGIN of
\* the second, whose body is then nobody's.
RedactedWhole(first, second) ==
  redact(Joined(first, second)) \cap (Secrets(first, second) \ Quotes(Joined(first, second))) = {}
TwoKeys(first, second) == first.kind = "key" /\ IsKey(second)

\* Two pieces on a line, unless they are two keys of which the first is cut off: nothing
\* of a named or a recognisable credential is left, escapes and quotes in it
\* notwithstanding, and nothing else is lost, a name that only resembles a secret field's
\* and the rest of the line included.
RedactsExactly(first, second) ==
  LET line == Joined(first, second) IN
  \/ TwoKeys(first, second)
  \/ /\ RedactedWhole(first, second)
     /\ DOMAIN line \ (Secrets(first, second) \cup Quotes(line)) \subseteq redact(line)
=============================================================================
