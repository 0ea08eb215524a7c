----------------------------- MODULE Canonical -----------------------------
(***************************************************************************)
(* What a seal names.  The canonical bytes a value is hashed over          *)
(* (supra_types hash, sealed, segment), the strict reader and canonical    *)
(* writer of tool arguments (supra_llm canonical), and the small values    *)
(* with an order of their own (lineage, ephemeral block).                  *)
(*                                                                         *)
(* A byte is a number; a string's or an id's content is a sequence of      *)
(* them; a fixed-width length or integer is one number.  blake3 is taken   *)
(* to be injective, so a hash is the bytes it is over.  JSON text is a     *)
(* sequence of tokens.                                                     *)
(***************************************************************************)
EXTENDS Integers, Sequences, FiniteSets, FiniteSetsExt, SequencesExt, Functions

(***************************************************************************)
(* CanonicalWriter                                                         *)
(***************************************************************************)
\* Fault: fields are written without their lengths.
WBytes_Bare(tag, value) == <<tag>> \o value

WBytes(tag, value) == <<tag, Len(value)>> \o value
WU8(tag, n) == WBytes(tag, <<n>>)
WBool(tag, b) == WU8(tag, IF b THEN 1 ELSE 0)
WOptStr(tag, option) == IF option = <<>> THEN WU8(tag, 0) ELSE WU8(tag, 1) \o WBytes(tag, option[1])
WNested(tag, kind, bytes) == WU8(tag, kind) \o bytes
WCount(tag, n) == WBytes(tag, <<n>>)

BlockDiscriminant == [text |-> 0, thinking |-> 1, tool_use |-> 2, tool_result |-> 3]
RoleDiscriminant == [user |-> 0, assistant |-> 1]

\* Block::write_canonical.
BlockBytes(b) ==
  WU8(0, BlockDiscriminant[b.block]) \o
  CASE b.block = "text" -> WBytes(1, b.text)
    [] b.block = "thinking" -> WBytes(1, b.text) \o WOptStr(2, b.signature)
    [] b.block = "tool_use" -> WBytes(1, b.call) \o WBytes(2, b.name) \o WBytes(3, b.input)
    [] OTHER -> WBytes(1, b.call) \o WBytes(2, b.content) \o WBool(3, b.is_error)

\* MemoryIndexEntry and SegmentKind::write_canonical.
EntryBytes(e) == WBytes(1, e.turn) \o WBytes(2, e.turn) \o WBytes(3, e.topic) \o WBytes(4, e.gist)
KindBytes(k) ==
  CASE k.kind = "tools" -> WU8(0, 0)
    [] k.kind = "system" -> WU8(0, 1)
    [] k.kind = "memory" -> WU8(0, 2) \o WNested(1, 3, EntryBytes(k.entry))
    [] OTHER -> WU8(0, 3) \o WBytes(1, k.turn) \o WU8(2, RoleDiscriminant[k.role])

\* Segment::write_canonical, behind its kind byte (ContentHash::of).
SegmentBytes(s) ==
  <<1>> \o WBytes(1, s.id) \o WNested(2, 4, KindBytes(s.kind)) \o WCount(3, Len(s.blocks))
  \o FlattenSeq([i \in 1..Len(s.blocks) |-> WNested(4, 2, BlockBytes(s.blocks[i]))])

\* Sealed::seal, and reading one back.
seal(seq, s) == [seq |-> seq, hash |-> SegmentBytes(s), value |-> s]
Unsealed(repr) == IF SegmentBytes(repr.value) = repr.hash THEN {repr} ELSE {}

(***************************************************************************)
(* Segment::new                                                            *)
(***************************************************************************)
is_tool_traffic(b) == b.block \in {"tool_use", "tool_result"}

\* first_interleaving: where a second run of tool traffic begins, 0 for nowhere.
first_interleaving(blocks) ==
  LET starts == {i \in 1..Len(blocks) : is_tool_traffic(blocks[i])
                                        /\ (i = 1 \/ ~is_tool_traffic(blocks[i - 1]))} IN
  IF Cardinality(starts) < 2 THEN 0 ELSE Min(starts \ {Min(starts)})

MAX_CONTENT_BYTES == 3      \* 80 in the code
EntryFits(e) == Len(e.topic) + Len(e.gist) <= MAX_CONTENT_BYTES

Acceptable(s) ==
  /\ s.kind.kind = "memory" => s.blocks = <<>> /\ EntryFits(s.kind.entry)
  /\ first_interleaving(s.blocks) = 0

\* Fault: a run of tool traffic counts once for each of its blocks.
lookback_positions_Each(blocks) == Len(blocks)

\* lookback_positions: a run of tool traffic is one position.
lookback_positions(blocks) ==
  Cardinality({i \in 1..Len(blocks) : is_tool_traffic(blocks[i]) =>
                                        (i = 1 \/ ~is_tool_traffic(blocks[i - 1]))})

(***************************************************************************)
(* Lineage and the ephemeral block                                         *)
(***************************************************************************)
MAX_DEPTH == 1
\* child: <<>> for an error.
child(chain, id) ==
  IF id \in Range(chain) \/ Len(chain) > MAX_DEPTH THEN <<>> ELSE Append(chain, id)
\* A chain read back is grown again link by link.
LineageOf(chain) ==
  IF chain = <<>> THEN <<>>
  ELSE FoldLeft(LAMBDA l, id : IF l = <<>> THEN <<>> ELSE child(l, id), <<chain[1]>>, Tail(chain))

\* EphemeralBlock::set and clear on <<key, value>> in key order.
EphemeralSet(entries, key, value) ==
  LET before == SelectSeq(entries, LAMBDA e : e[1] < key)
      after == SelectSeq(entries, LAMBDA e : e[1] > key) IN
  Append(before, <<key, value>>) \o after
EphemeralClear(entries, key) == SelectSeq(entries, LAMBDA e : e[1] # key)
EphemeralRead(entries) == FoldLeft(LAMBDA b, e : EphemeralSet(b, e[1], e[2]), <<>>, entries)

(***************************************************************************)
(* Canonical JSON                                                          *)
(***************************************************************************)
\* A string token and what it decodes to: "A" spells a with an escape.
Strings == {"a", "A", "b"}
Decoded == [a |-> "a", A |-> "a", b |-> "b"]
KeyOrder == [a |-> 1, b |-> 2]
Tok(text, i) == IF i \in 1..Len(text) THEN text[i] ELSE "end"
ws(text, i) == IF Tok(text, i) = "ws" THEN i + 1 ELSE i

\* Scanner: each operator returns where it stopped, 0 for invalid text, -1 for a
\* duplicate key.
RECURSIVE ScanValue(_, _), ScanItems(_, _), ScanMembers(_, _, _)
ScanItems(text, i) ==
  LET after == ScanValue(text, i)
      j == ws(text, after) IN
  IF after <= 0 THEN after
  ELSE IF Tok(text, j) = "]" THEN j + 1
  ELSE IF Tok(text, j) = "," THEN ScanItems(text, j + 1) ELSE 0

\* Fault: keys are compared as they are spelled.
ScanMembers_Spelled(text, i, seen) ==
  LET at == ws(text, i)
      colon == ws(text, at + 1)
      after == ScanValue(text, colon + 1)
      j == ws(text, after) IN
  IF Tok(text, at) \notin Strings THEN 0
  ELSE IF Tok(text, at) \in seen THEN -1
  ELSE IF Tok(text, colon) # ":" THEN 0
  ELSE IF after <= 0 THEN after
  ELSE IF Tok(text, j) = "}" THEN j + 1
  ELSE IF Tok(text, j) = "," THEN ScanMembers(text, j + 1, seen \cup {Tok(text, at)}) ELSE 0

ScanMembers(text, i, seen) ==
  LET at == ws(text, i)
      key == Decoded[Tok(text, at)]
      colon == ws(text, at + 1)
      after == ScanValue(text, colon + 1)
      j == ws(text, after) IN
  IF Tok(text, at) \notin Strings THEN 0
  ELSE IF key \in seen THEN -1
  ELSE IF Tok(text, colon) # ":" THEN 0
  ELSE IF after <= 0 THEN after
  ELSE IF Tok(text, j) = "}" THEN j + 1
  ELSE IF Tok(text, j) = "," THEN ScanMembers(text, j + 1, seen \cup {key}) ELSE 0

\* A scalar is any run up to a separator: the parser after this one judges it.
ScanValue(text, i) ==
  LET at == ws(text, i)
      inner == ws(text, at + 1) IN
  CASE Tok(text, at) = "end" -> 0
    [] Tok(text, at) = "{" -> IF Tok(text, inner) = "}" THEN inner + 1 ELSE ScanMembers(text, inner, {})
    [] Tok(text, at) = "[" -> IF Tok(text, inner) = "]" THEN inner + 1 ELSE ScanItems(text, inner)
    [] Tok(text, at) \in {",", "]", "}", ":"} -> at
    [] OTHER -> at + 1

\* reject_duplicates: the whole text is one value.
reject_duplicates(text) ==
  LET after == ScanValue(text, 1) IN
  IF after = -1 THEN "duplicate"
  ELSE IF after = 0 \/ ws(text, after) # Len(text) + 1 THEN "invalid" ELSE "ok"

\* A parsed value: a leaf's token, or the members of an array or an object (an
\* array's members have no key).
Leaf(token) == [t |-> "leaf", token |-> token, items |-> <<>>]
Arr(vs) == [t |-> "arr", token |-> "", items |-> [i \in 1..Len(vs) |-> [key |-> "", value |-> vs[i]]]]
Obj(ms) == [t |-> "obj", token |-> "", items |-> [i \in 1..Len(ms) |-> [key |-> ms[i][1], value |-> ms[i][2]]]]

\* check: a float anywhere refuses the value.
RECURSIVE HasFloat(_)
HasFloat(v) == v.token = "1.5" \/ \E i \in 1..Len(v.items) : HasFloat(v.items[i].value)

\* emit: keys decoded and in order, no spaces.
RECURSIVE emit(_)
emit(v) ==
  LET member(m) == (IF m.key = "" THEN <<>> ELSE <<Decoded[m.key], ":">>) \o emit(m.value)
      items == IF v.t = "obj"
               THEN SortSeq(v.items, LAMBDA m, n : KeyOrder[Decoded[m.key]] < KeyOrder[Decoded[n.key]])
               ELSE v.items
      inside == FlattenSeq([i \in 1..Len(items) |->
                  (IF i = 1 THEN <<>> ELSE <<",">>) \o member(items[i])]) IN
  CASE v.t = "leaf" -> <<IF v.token \in Strings THEN Decoded[v.token] ELSE v.token>>
    [] v.t = "arr" -> <<"[">> \o inside \o <<"]">>
    [] OTHER -> <<"{">> \o inside \o <<"}">>

\* canonicalize, of a text that is v spelled some way.
canonicalize(text, v) ==
  IF reject_duplicates(text) # "ok" THEN <<reject_duplicates(text)>>
  ELSE IF HasFloat(v) THEN <<"float">> ELSE emit(v)

(***************************************************************************)
(* What sealing and canonical text promise                                 *)
(***************************************************************************)
\* A seal names one segment: two segments with the same canonical bytes are the
\* same segment, and a record read back with another value's hash is refused.
SealNames(s, segments) ==
  \A t \in segments :
    /\ SegmentBytes(t) = SegmentBytes(s) => t = s
    /\ t # s => Unsealed([seq |-> 0, hash |-> SegmentBytes(t), value |-> s]) = {}

\* An accepted segment takes, of the cache's lookback window, one position for
\* each of its other blocks and one for all its tool traffic.
LookbackExact(s) ==
  (Acceptable(s) /\ s.blocks # <<>>) =>
    lookback_positions(s.blocks) =
      Cardinality({i \in 1..Len(s.blocks) : ~is_tool_traffic(s.blocks[i])})
      + (IF \E i \in 1..Len(s.blocks) : is_tool_traffic(s.blocks[i]) THEN 1 ELSE 0)

RECURSIVE Spell(_), Repeats(_), Meaning(_)
Spell(v) ==
  LET inside == FlattenSeq([i \in 1..Len(v.items) |->
        (IF i = 1 THEN <<"ws">> ELSE <<",", "ws">>)
        \o (IF v.t = "obj" THEN <<v.items[i].key, "ws", ":">> ELSE <<>>) \o Spell(v.items[i].value)]) IN
  CASE v.t = "leaf" -> <<v.token>>
    [] v.t = "arr" -> <<"[">> \o inside \o <<"ws", "]">>
    [] OTHER -> <<"{">> \o inside \o <<"}">>
Repeats(v) ==
  \/ v.t = "obj" /\ \E i, j \in 1..Len(v.items) : i # j /\ Decoded[v.items[i].key] = Decoded[v.items[j].key]
  \/ \E i \in 1..Len(v.items) : Repeats(v.items[i].value)
Meaning(v) ==
  CASE v.t = "leaf" -> <<v.t, IF v.token \in Strings THEN Decoded[v.token] ELSE v.token>>
    [] v.t = "arr" -> <<v.t, [i \in 1..Len(v.items) |-> Meaning(v.items[i].value)]>>
    [] OTHER -> <<v.t, {<<Decoded[v.items[i].key], Meaning(v.items[i].value)>> : i \in 1..Len(v.items)}>>

\* Tool arguments have one canonical text: a key repeated under any spelling, at
\* any depth, is refused; what is accepted means the same whatever its order,
\* spelling and spaces, gives the same text, and that text is its own canonical
\* form; and no text cut short is taken for a value.
CanonicalText(v, values) ==
  /\ (reject_duplicates(Spell(v)) = "duplicate") <=> Repeats(v)
  /\ ~Repeats(v) => reject_duplicates(emit(v)) = "ok"
  /\ \A w \in values : (~Repeats(v) /\ ~Repeats(w) /\ ~HasFloat(v) /\ ~HasFloat(w)) =>
       ((Meaning(v) = Meaning(w)) <=> (canonicalize(Spell(v), v) = canonicalize(Spell(w), w)))
  /\ v.t # "leaf" => \A n \in 1..(Len(Spell(v)) - 1) : reject_duplicates(SubSeq(Spell(v), 1, n)) # "ok"

\* A lineage read back is one that could have been grown: a root, at most one
\* child, no agent twice; and an ephemeral block reads the same whatever order
\* its entries came in, a cleared one as if its entry had never come.
OrderedValues(chain, entries) ==
  /\ (LineageOf(chain) = chain /\ chain # <<>>) <=>
       (Len(chain) \in 1..(MAX_DEPTH + 1) /\ Cardinality(Range(chain)) = Len(chain))
  /\ IsInjective([i \in 1..Len(entries) |-> entries[i][1]]) =>
       /\ \A other \in SetToSeqs(Range(entries)) : EphemeralRead(other) = EphemeralRead(entries)
       /\ \A e \in Range(entries) :
            EphemeralClear(EphemeralRead(entries), e[1])
              = EphemeralRead(SelectSeq(entries, LAMBDA other : other # e))
=============================================================================
