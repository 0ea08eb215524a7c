------------------------------- MODULE Syntax -------------------------------
(***************************************************************************)
(* Declarations and structural edits: harvest (supra_digest parse), the    *)
(* gists made of symbols (supra_digest anchors), and outline, references,  *)
(* splice and rename (supra_ast).                                          *)
(***************************************************************************)
EXTENDS Integers, Sequences, FiniteSets, FiniteSetsExt, SequencesExt, Functions

NoName == ""

(***************************************************************************)
(* Harvest.  A tree is the sequence of its nodes in the order of the walk; *)
(* a node is [up, kind, field, ident]: the place of the node above it, 0   *)
(* for none, "decl", "impl" or "plain", its name field and its first       *)
(* identifier, which for an impl is the target.                            *)
(***************************************************************************)
node_name(node) == IF node.field # NoName THEN node.field ELSE node.ident
impl_target(node) == node.ident
IsSymbol(node) == node.kind = "decl" /\ node_name(node) # NoName

\* Fault: a declaration passes on what encloses it instead of itself.
Nested_Outer(tree, u, outer) == outer

\* Children of a declaration nest under the symbol last harvested.
Nested(tree, u, outer) ==
  LET named == {j \in 1..u : IsSymbol(tree[j])} IN
  IF named = {} THEN outer ELSE node_name(tree[Max(named)])

\* harvest: the enclosing name pushed with each node.
Enclosing(tree) ==
  LET pushed[i \in 0..Len(tree)] ==
        IF i = 0 \/ tree[i].up = 0 THEN NoName
        ELSE LET u == tree[i].up IN
             CASE tree[u].kind = "impl" -> IF impl_target(tree[u]) # NoName THEN impl_target(tree[u])
                                           ELSE pushed[u]
               [] tree[u].kind = "decl" -> Nested(tree, u, pushed[u])
               [] OTHER -> pushed[u] IN
  pushed
harvest(tree) ==
  LET found == SelectSeq([i \in DOMAIN tree |-> i], LAMBDA i : IsSymbol(tree[i])) IN
  [k \in DOMAIN found |-> [name |-> node_name(tree[found[k]]), parent |-> Enclosing(tree)[found[k]]]]

(***************************************************************************)
(* Outline                                                                 *)
(***************************************************************************)
\* One symbol's depth, from the shallowest other symbol of its parent's name.
Deeper(symbols, depths, i) ==
  LET above == {depths[j] : j \in {k \in DOMAIN symbols : k # i /\ symbols[k].name = symbols[i].parent}} IN
  IF symbols[i].parent = NoName \/ above = {} THEN depths
  ELSE [depths EXCEPT ![i] = Max({@, Min(above) + 1})]
\* One pass, each symbol seeing what the pass has done so far.
Pass(symbols, depths) ==
  FoldLeft(LAMBDA d, i : Deeper(symbols, d, i), depths, [i \in DOMAIN symbols |-> i])
\* The loop, cut off after as many passes as there are symbols and one.
RECURSIVE Passes(_, _, _)
Passes(symbols, depths, left) ==
  IF left = 0 THEN depths ELSE Passes(symbols, Pass(symbols, depths), left - 1)
outline(symbols) == Passes(symbols, [i \in DOMAIN symbols |-> 0], Len(symbols) + 1)
Settled(symbols) == Pass(symbols, outline(symbols)) = outline(symbols)

\* The loop that finds the depths ends on every file.
OutlineSettles(tree) == Settled(harvest(tree))

\* The loop that finds the depths ends exactly when from every symbol one comes, by
\* some symbol of its parent's name and so on, to one whose parent has no other
\* symbol's name; a name that leads back to itself only is what keeps it going.
OutlineEndsAtATop(tree) ==
  LET symbols == harvest(tree)
      above(i) == {j \in DOMAIN symbols : j # i /\ symbols[i].parent # NoName /\ symbols[j].name = symbols[i].parent}
      topped[n \in 0..Len(symbols)] ==
        IF n = 0 THEN {i \in DOMAIN symbols : above(i) = {}}
        ELSE topped[n - 1] \cup {i \in DOMAIN symbols : above(i) \cap topped[n - 1] # {}} IN
  OutlineSettles(tree) <=> topped[Len(symbols)] = DOMAIN symbols

\* In a file whose declarations all have names, and without impl blocks, a
\* symbol's parent is the declaration around it; the depths settle, and no
\* symbol is shown deeper than it is nested, nor one that is nested at the top.
OutlineNests(tree) ==
  LET symbols == harvest(tree)
      places == SelectSeq([i \in DOMAIN tree |-> i], LAMBDA i : IsSymbol(tree[i]))
      above[i \in 0..Len(tree)] == IF i = 0 THEN {} ELSE {tree[i].up} \cup above[tree[i].up]
      around(i) == {j \in above[i] \ {0} : tree[j].kind = "decl"} IN
  (\A i \in DOMAIN tree : tree[i].kind # "impl" /\ (tree[i].kind = "decl" => IsSymbol(tree[i]))) =>
    /\ Settled(symbols)
    /\ \A k \in DOMAIN symbols :
         LET outer == around(places[k]) IN
         /\ symbols[k].parent = IF outer = {} THEN NoName ELSE node_name(tree[Max(outer)])
         /\ outline(symbols)[k] <= Cardinality(outer)
         /\ outer # {} => outline(symbols)[k] > 0

(***************************************************************************)
(* Source text: letters 1 and 2, the space 0, 9, which makes the word      *)
(* after it a declaration's name, and 8, which makes it a field of the one *)
(* before.  Offsets count from 0.  parse stands for the grammar: the nodes *)
(* of the tree, [kind, start, end].  7 is what only the grammar of TSX     *)
(* reads, 6 what only that of TypeScript does.                             *)
(***************************************************************************)
Letters == {1, 2}
KEYWORD == <<2, 2>>
Slice(text, start, end) == SubSeq(text, start + 1, end)
Words(text) ==
  {<<s, e>> \in (0..Len(text)) \X (0..Len(text)) :
     /\ s < e /\ \A i \in (s + 1)..e : text[i] \in Letters
     /\ s = 0 \/ text[s] \notin Letters
     /\ e = Len(text) \/ text[e + 1] \notin Letters}
Identifiers(text) == {w \in Words(text) : Slice(text, w[1], w[2]) # KEYWORD}
Marked(text, mark) == {w \in Identifiers(text) : w[1] > 0 /\ text[w[1]] = mark}

\* The grammar the digest reads a file by, and the one references and edits are.
digest_grammar(file) == IF file.tsx THEN "tsx" ELSE "typescript"
grammar == "typescript"
has_error(language, text) ==
  \/ \E i \in DOMAIN text : text[i] \in {8, 9} /\ ~\E w \in Identifiers(text) : w[1] = i
  \/ \E i \in DOMAIN text : text[i] = 8 /\ ~\E w \in Identifiers(text) : w[2] = i - 1
  \/ (IF language = "tsx" THEN 6 ELSE 7) \in Range(text)
KindOf(text, w) == IF w \in Marked(text, 8) THEN "field_identifier" ELSE "identifier"
parse(text) ==
  {[kind |-> "file", start |-> 0, end |-> Len(text)]}
  \cup {[kind |-> "declaration", start |-> w[1] - 1, end |-> w[2]] : w \in Marked(text, 9)}
  \cup {[kind |-> KindOf(text, w), start |-> w[1], end |-> w[2]] : w \in Identifiers(text)}
Declared(text) == {Slice(text, w[1], w[2]) : w \in Marked(text, 9)}

Refused == <<-1>>

\* find_exact: from the root down, the first node of exactly this range, so the
\* outermost of those that share it.
find_exact(text, start, end) ==
  LET exact(kind) == [kind |-> kind, start |-> start, end |-> end] \in parse(text) IN
  IF start = end THEN "none"
  ELSE IF exact("file") THEN "file"
  ELSE IF exact("declaration") THEN "declaration"
  ELSE IF \E kind \in {"identifier", "field_identifier"} : exact(kind) THEN KindOf(text, <<start, end>>) ELSE "none"

\* replace_node: one node before, error-free after, and of the same kind.
replace_node(text, start, end, replacement) ==
  LET kind == find_exact(text, start, end)
      spliced == Slice(text, 0, start) \o replacement \o Slice(text, end, Len(text)) IN
  IF start >= end \/ end > Len(text) \/ kind = "none" \/ has_error(grammar, text) \/ has_error(grammar, spliced)
     \/ find_exact(spliced, start, start + Len(replacement)) # kind
  THEN Refused ELSE spliced

\* query_references: where the name stands as a node of a kind that counts, in a
\* reachable file; a field's is none of them.
Counted == {"identifier", "type_identifier", "property_identifier"}
Occurrences(text, name) ==
  {w[1] : w \in {v \in Identifiers(text) : Slice(text, v[1], v[2]) = name /\ KindOf(text, v) \in Counted}}
query_references(name, files, reachable) ==
  {f \in DOMAIN files : f \in reachable /\ Occurrences(files[f].text, name) # {}}

\* Fault: front to back, with the offsets of the text before the edit.
Splices_Forward(text, old, new) ==
  FoldLeft(LAMBDA t, o : IF t = Refused THEN t ELSE replace_node(t, o, o + Len(old), new),
           text, SetToSortSeq(Occurrences(text, old), <))

\* Back to front, so that earlier offsets stay valid.
Splices(text, old, new) ==
  FoldLeft(LAMBDA t, o : IF t = Refused THEN t ELSE replace_node(t, o, o + Len(old), new),
           text, SetToSortSeq(Occurrences(text, old), >))

\* rename: every file's text as it becomes, or <<>> when the whole is refused.
rename(old, new, files, reachable) ==
  LET touched == query_references(old, files, reachable)
      rewritten(f) == Splices(files[f].text, old, new) IN
  IF old = <<>> \/ new = <<>> \/ old = new \/ touched = {}
     \/ (\E f \in touched : has_error(digest_grammar(files[f]), files[f].text) \/ new \in Declared(files[f].text))
     \/ (\E f \in touched : rewritten(f) = Refused)
  THEN <<>>
  ELSE [f \in DOMAIN files |-> IF f \in touched THEN rewritten(f) ELSE files[f].text]

\* The words of a text in order, and what stands between them.
WordOrder(text) == SetToSortSeq(Words(text), LAMBDA v, w : v[1] < w[1])
Word(text, i) == Slice(text, WordOrder(text)[i][1], WordOrder(text)[i][2])
Between(text) == SelectSeq(text, LAMBDA c : c \notin Letters)
Behind8(text, i) == WordOrder(text)[i][1] > 0 /\ text[WordOrder(text)[i][1]] = 8

\* A rename to an identifier that is not refused rewrites, in the files within
\* reach, exactly the old name's occurrences that are not fields of something, and
\* nothing else, whatever the two names' lengths; and one to a name not declared
\* there is refused only for a file that one of the two grammars cannot read.
RenameWhole(old, new, files, reachable) ==
  LET after == rename(old, new, files, reachable)
      touched == query_references(old, files, reachable)
      identifier == new \notin {<<>>, KEYWORD} /\ Range(new) \subseteq Letters IN
  /\ (after # <<>> /\ identifier) => \A f \in DOMAIN files :
       LET text == files[f].text IN
       /\ Len(WordOrder(after[f])) = Len(WordOrder(text))
       /\ \A i \in DOMAIN WordOrder(text) :
            Word(after[f], i) = IF f \in reachable /\ Word(text, i) = old /\ ~Behind8(text, i)
                                THEN new ELSE Word(text, i)
       /\ Between(after[f]) = Between(text)
  /\ (touched # {} /\ identifier /\ new # old /\ \A f \in touched :
        /\ \A language \in {grammar, digest_grammar(files[f])} : ~has_error(language, files[f].text)
        /\ new \notin Declared(files[f].text)) => after # <<>>

\* Refuted: after a rename no file within reach says the old name.
NameGone(old, new, files, reachable) ==
  LET after == rename(old, new, files, reachable) IN
  after # <<>> => \A f \in reachable : \A i \in DOMAIN WordOrder(after[f]) : Word(after[f], i) # old

\* Refuted: what the digest can read an edit can verify, and the other way round.
GatesAgree(files) ==
  \A f \in DOMAIN files : has_error(digest_grammar(files[f]), files[f].text) <=> has_error(grammar, files[f].text)

(***************************************************************************)
(* Gists.  A text is the sequence of its words' lengths in bytes.          *)
(***************************************************************************)
MAX_CONTENT_BYTES == 80
Bytes(words) == IF words = <<>> THEN 0 ELSE FoldSeq(+, 0, words) + Len(words) - 1

\* Fault: the space before a word is not counted.
Shortened_Tight(words, room) ==
  SubSeq(words, 1, Max({n \in 0..Len(words) : FoldSeq(+, 0, SubSeq(words, 1, n)) <= room}))

\* Words are taken while one more, and a space, fit.
Shortened(words, room) ==
  SubSeq(words, 1, Max({n \in 0..Len(words) : \A k \in 1..n :
                          Bytes(SubSeq(words, 1, k - 1)) + words[k] + 1 <= room}))

\* gist_for_entry: the most informative candidate that fits, whole or shortened;
\* "in" and the colon of "parent: line" take 2 bytes and 1.
gist_for_entry(topic, parent, line, kind) ==
  LET candidates == SelectSeq(<<IF parent > 0 /\ line # <<>> THEN <<parent + 1>> \o line ELSE <<>>,
                                line,
                                IF parent > 0 THEN <<2, parent>> ELSE <<>>,
                                <<kind>>>>, LAMBDA c : c # <<>>)
      room == Max({0, MAX_CONTENT_BYTES - topic})
      try(c) == IF topic + Bytes(c) <= MAX_CONTENT_BYTES THEN c
                ELSE IF Bytes(c) > 16 /\ Len(c) > 1 /\ room > 20 THEN Shortened(c, room) ELSE <<>>
      fitting == SelectSeq([i \in DOMAIN candidates |-> try(candidates[i])], LAMBDA g : g # <<>>) IN
  IF fitting = <<>> THEN <<>> ELSE fitting[1]

\* An index entry keeps to its bytes however it was shortened, and is refused
\* only when the topic leaves no room for the kind alone.
GistFits(topic, parent, line, kind) ==
  LET gist == gist_for_entry(topic, parent, line, kind) IN
  /\ gist # <<>> => topic + Bytes(gist) <= MAX_CONTENT_BYTES
  /\ gist = <<>> => topic + kind > MAX_CONTENT_BYTES

(***************************************************************************)
(* Positions (supra_lsp client).  A text is a sequence of characters: the  *)
(* number of bytes of one in UTF-8, or LF or CR, of one byte.  In UTF-16 a *)
(* character of four bytes is two units.  Offsets count bytes from 0.      *)
(***************************************************************************)
LF == 10
CR == 13
Width(c) == IF c \in {LF, CR} THEN 1 ELSE c
len_utf16(c) == IF c = 4 THEN 2 ELSE 1
Offset(text, i) == FoldSeq(+, 0, [k \in 1..i - 1 |-> Width(text[k])])

Units(chars) == FoldSeq(+, 0, [k \in DOMAIN chars |-> len_utf16(chars[k])])

\* Where the line of the character at a place starts: after the last LF before it.
LineStart(text, i) == Max({0} \cup {k \in 1..i - 1 : text[k] = LF}) + 1
Breaks(text, i) == Cardinality({k \in 1..i - 1 : text[k] = LF})

\* The characters that begin before the byte are counted, the one it is inside too.
position_of(text, byte) ==
  LET i == Cardinality({k \in DOMAIN text : Offset(text, k) < byte}) + 1 IN
  [line |-> Breaks(text, i), character |-> Units(SubSeq(text, LineStart(text, i), i - 1))]

\* On the line, the first character at or past the units, or that ends the line.
NoOffset == -1
byte_offset(text, line, character) ==
  LET end == Len(text) + 1
      start == Min({i \in 1..end : Breaks(text, i) = line})
      stops == {i \in start..Len(text) : text[i] \in {LF, CR} \/ Units(SubSeq(text, start, i - 1)) >= character} IN
  IF line > Breaks(text, end) THEN NoOffset
  ELSE Offset(text, IF stops = {} THEN end ELSE Min(stops))

\* The place of a symbol survives the way to the server and back: every character
\* but one behind a carriage return is found again at its own byte, however wide
\* the ones before it; a position off the end of a line stays on it, and every
\* line of the file can be named (position_of, byte_offset).
PositionsRoundTrip(text) ==
  /\ \A i \in 1..Len(text) + 1 :
       LET at == position_of(text, Offset(text, i)) IN
       (\A k \in LineStart(text, i)..i - 1 : text[k] # CR) =>
         byte_offset(text, at.line, at.character) = Offset(text, i)
  /\ \A line \in 0..Len(text), character \in 0..2 * Len(text) + 1 :
       LET byte == byte_offset(text, line, character) IN
       /\ byte = NoOffset <=> line > Breaks(text, Len(text) + 1)
       /\ byte # NoOffset => position_of(text, byte).line = line
=============================================================================
