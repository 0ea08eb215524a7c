------------------------------ MODULE Display ------------------------------
(***************************************************************************)
(* What the terminal shows (supra_tui, supra_theme): the frame folded from *)
(* the events a subscriber was handed and the number it missed, and the    *)
(* layout of the status line, the meter and the viewport.                  *)
(*                                                                         *)
(* A text is the sequence of its clusters' widths in cells; colours take   *)
(* no cells and are left out.                                              *)
(***************************************************************************)
EXTENDS Integers, Sequences, FiniteSets, FiniteSetsExt, SequencesExt, Functions

CONSTANTS MaxPublished     \* bound: events published

VARIABLES frame,           \* FrameState, as the renderer has it
          happened,        \* the same counters of the turn, nothing missed
          behind,          \* events missed since the last delivery
          published

displayVars == <<frame, happened, behind, published>>

(***************************************************************************)
(* Events, by topic (supra_types event)                                    *)
(***************************************************************************)
SessionEvents == {"SessionStarted", "SessionResumed", "SessionEnded"}
TurnEvents == {"TurnStarted", "TurnCompleted", "TurnFailed"}
PromptEvents == {"SegmentSealed", "BreakpointPlaced", "PrefixPadded", "TurnsEvicted", "RecallServed",
                 "GenerationRewritten"}
CacheEvents == {"CacheHit", "CacheWrite", "CacheBreak"}
ProviderEvents == {"RequestSent", "FirstByte", "WarmupComplete", "FanOut", "StreamDelta", "ThinkingDelta",
                   "RequestFailed", "RateLimited", "UsageReported", "UsageDrift"}
CohortEvents == {"CohortTierEstimated", "PeerSpawned", "SpawnRefused", "ClaimPublished", "RoleRotated",
                 "VoteYes", "VoteNo", "QuorumReached", "QuorumUnreachable", "CohortAborted"}
ToolEvents == {"ToolRequested", "PermissionDecision", "ToolStarted", "ToolCompleted", "ToolFailed"}
GateEvents == {"GateCompleted", "FindingRaised", "FindingConfirmed"}
GuardEvents == {"GuardLayerTriggered"}
JournalEvents == {"SnapshotTaken", "Undone"}
DigestEvents == {"DigestUpdated", "AnchorsServed"}

topic == [Session |-> SessionEvents, Turn |-> TurnEvents, Prompt |-> PromptEvents, Cache |-> CacheEvents,
          Provider |-> ProviderEvents, Cohort |-> CohortEvents, Tool |-> ToolEvents, Gate |-> GateEvents,
          Guard |-> GuardEvents, Journal |-> JournalEvents, Digest |-> DigestEvents]
Events == UNION Range(topic)

(***************************************************************************)
(* The frame                                                               *)
(***************************************************************************)
BlankFrame == [streamed_chars |-> 0, thinking_chars |-> 0, spend |-> 0, completions |-> 0,
               yes |-> 0, votes |-> 0, quorum |-> FALSE, cache_broken |-> FALSE, missed_events |-> 0]

\* Fault: what was missed is noted only with an event of no other effect.
apply_Quiet(f, e, missed) ==
  CASE e = "StreamDelta" -> [f EXCEPT !.streamed_chars = @ + 1]
    [] e = "ThinkingDelta" -> [f EXCEPT !.thinking_chars = @ + 1]
    [] e = "UsageReported" -> [f EXCEPT !.spend = @ + 1, !.completions = @ + 1]
    [] e = "VoteYes" -> [f EXCEPT !.votes = @ + 1, !.yes = @ + 1]
    [] e = "VoteNo" -> [f EXCEPT !.votes = @ + 1]
    [] e = "QuorumReached" -> [f EXCEPT !.quorum = TRUE]
    [] e = "CacheBreak" -> [f EXCEPT !.cache_broken = TRUE]
    [] e = "TurnStarted" -> BlankFrame
    [] OTHER -> [f EXCEPT !.missed_events = @ + missed]

\* FrameState::apply; a turn's start forgets the turn before, its losses too.
apply(f, e, missed) ==
  LET g == [f EXCEPT !.missed_events = @ + missed] IN
  CASE e = "StreamDelta" -> [g EXCEPT !.streamed_chars = @ + 1]
    [] e = "ThinkingDelta" -> [g EXCEPT !.thinking_chars = @ + 1]
    [] e = "UsageReported" -> [g EXCEPT !.spend = @ + 1, !.completions = @ + 1]
    [] e = "VoteYes" -> [g EXCEPT !.votes = @ + 1, !.yes = @ + 1]
    [] e = "VoteNo" -> [g EXCEPT !.votes = @ + 1]
    [] e = "QuorumReached" -> [g EXCEPT !.quorum = TRUE]
    [] e = "CacheBreak" -> [g EXCEPT !.cache_broken = TRUE]
    [] e = "TurnStarted" -> BlankFrame
    [] OTHER -> g

\* Events the frame counts, and one that stands for those it ignores.
Folded == {"StreamDelta", "ThinkingDelta", "UsageReported", "VoteYes", "VoteNo", "QuorumReached",
           "CacheBreak", "TurnStarted"}
Told == Folded \cup {CHOOSE e \in Events : e \notin Folded}

DisplayInit == frame = BlankFrame /\ happened = BlankFrame /\ behind = 0 /\ published = 0

\* render_drain: the deliveries folded into the frame, and the facts the line
\* drawn of it shows besides those it always has.
render_drain(f, deliveries) == FoldLeft(LAMBDA g, d : apply(g, d.event, d.missed_before), f, deliveries)
FactsShown(f) == (IF f.missed_events > 0 THEN {"missed"} ELSE {}) \cup (IF f.cache_broken THEN {"broken"} ELSE {})
                 \cup (IF f.completions = 0 THEN {"estimated"} ELSE {})

\* An event is published and drained, with the number lost before it.
Delivered(e) ==
  /\ published < MaxPublished
  /\ happened' = apply(happened, e, 0)
  /\ frame' = render_drain(frame, <<[event |-> e, missed_before |-> behind]>>)
  /\ behind' = 0 /\ published' = published + 1

\* Or it is overwritten in the ring before the renderer drains it.
Lost(e) ==
  /\ published < MaxPublished
  /\ happened' = apply(happened, e, 0)
  /\ behind' = behind + 1 /\ published' = published + 1
  /\ UNCHANGED frame

DisplayNext == \E e \in Told : Delivered(e) \/ Lost(e)

DisplayTypeOK ==
  /\ \A f \in {frame, happened} :
       /\ DOMAIN f = DOMAIN BlankFrame /\ f.quorum \in BOOLEAN /\ f.cache_broken \in BOOLEAN
       /\ \A c \in DOMAIN f \ {"quorum", "cache_broken"} : f[c] \in 0..MaxPublished
  /\ behind \in 0..MaxPublished /\ published \in 0..MaxPublished

\* The frame never passes a partial count off as whole: when the line tells of no
\* loss and none is waiting to be reported, it shows exactly what happened in the
\* turn, the broken cache and whether the cost is an estimate included.
FrameHonest ==
  ("missed" \notin FactsShown(frame) /\ behind = 0) => frame = happened /\ FactsShown(frame) = FactsShown(happened)

(***************************************************************************)
(* Layout                                                                  *)
(***************************************************************************)
Cells(text) == FoldSeq(+, 0, text)
\* truncate: the longest run of whole clusters within the cells.
truncate(text, cells) ==
  SubSeq(text, 1, Max({n \in 0..Len(text) : Cells(SubSeq(text, 1, n)) <= cells}))

NEVER_SHED == 0
FULL_SEPARATOR == 2
COMPACT_SEPARATOR == 1

\* live: a segment is [shed_at, text, fact]; a compact form for what is never shed.
live(facts) ==
  LET segment(fact, at) == [shed_at |-> at, text |-> facts[fact].full, fact |-> fact]
      shown(fact) == facts[fact].full # <<>>
      order == <<"context", "cache", "cost", "broken", "mode", "model", "missed", "telemetry", "hooks">>
      level == [context |-> 0, cache |-> 0, cost |-> 0, broken |-> 0, mode |-> 0, model |-> 1,
                missed |-> 1, telemetry |-> 2, hooks |-> 2]
      present == SelectSeq(order, shown)
      kept == SelectSeq(present, LAMBDA f : level[f] = NEVER_SHED) IN
  [segments |-> [i \in 1..Len(present) |-> segment(present[i], level[present[i]])],
   compact |-> [i \in 1..Len(kept) |-> [shed_at |-> 0, text |-> facts[kept[i]].short, fact |-> kept[i]]]]

total_width(segments, separator) ==
  FoldSeq(LAMBDA s, sum : sum + Cells(s.text),
          IF segments = <<>> THEN 0 ELSE (Len(segments) - 1) * separator, segments)
fits(segments, cols, separator) == total_width(segments, separator) <= cols

\* Fault: the segments shed first are those to be kept longest.
Shed_Lowest(segments) ==
  LET low == Min({segments[i].shed_at : i \in 1..Len(segments)}) IN
  SelectSeq(segments, LAMBDA s : s.shed_at # low)

Shed(segments) ==
  LET high == Max({segments[i].shed_at : i \in 1..Len(segments)}) IN
  SelectSeq(segments, LAMBDA s : s.shed_at # high)

\* select_segments: shed a level at a time until the rest fits.
RECURSIVE select_segments(_, _, _)
select_segments(segments, cols, separator) ==
  IF fits(segments, cols, separator) \/ \A i \in 1..Len(segments) : segments[i].shed_at = NEVER_SHED
  THEN segments ELSE select_segments(Shed(segments), cols, separator)

\* render_segments: what is drawn of each, until no cell is left.
RECURSIVE Drawn(_, _, _)
Drawn(segments, room, separator) ==
  IF segments = <<>> \/ room <= 0 \/ truncate(segments[1].text, room) = <<>> THEN <<>>
  ELSE LET text == truncate(segments[1].text, room) IN
       <<[fact |-> segments[1].fact, text |-> text, whole |-> text = segments[1].text]>>
       \o Drawn(Tail(segments), room - Cells(text) - separator, separator)

render(line, cols) ==
  LET full == select_segments(line.segments, cols, FULL_SEPARATOR) IN
  IF cols = 0 THEN [drawn |-> <<>>, separator |-> 0]
  ELSE IF fits(full, cols, FULL_SEPARATOR)
  THEN [drawn |-> Drawn(full, cols, FULL_SEPARATOR), separator |-> FULL_SEPARATOR]
  ELSE [drawn |-> Drawn(line.compact, cols, COMPACT_SEPARATOR), separator |-> COMPACT_SEPARATOR]

\* A gauge's two glyphs by their width classes: an ambiguous one takes two cells
\* where the locale is wide.
BLOCK_SHADE == [filled |-> "ambiguous", empty |-> "neutral"]
PORTABLE == [filled |-> "neutral", empty |-> "neutral"]
char_width(class, wide) == IF wide /\ class = "ambiguous" THEN 2 ELSE 1
cells(gauge, wide) == [filled |-> char_width(gauge.filled, wide), empty |-> char_width(gauge.empty, wide)]
is_stable(gauge, wide) ==
  cells(gauge, wide) = cells(gauge, FALSE) /\ cells(gauge, wide).filled = cells(gauge, wide).empty
gauge_for(wide) == IF is_stable(BLOCK_SHADE, wide) THEN BLOCK_SHADE ELSE PORTABLE

\* Meter::render: the glyphs on and off, and their widths.
meter(total, wide, part, whole) ==
  LET width == cells(gauge_for(wide), wide)
      slots == total \div Max({width.filled, width.empty, 1})
      p == Min({part, whole})
      on == IF whole = 0 THEN 0 ELSE p * (slots \div whole) + (p * (slots % whole)) \div whole IN
  [on |-> on, off |-> Max({0, slots - on}), width |-> width]
Viewport(total, visible, offset) ==
  [total |-> total, visible |-> visible, offset |-> Min({offset, Max({0, total - visible})})]
visible_range(v) ==
  LET start == Min({v.offset, v.total}) IN <<start, Min({v.total, start + v.visible})>>

\* The status line keeps to its columns, and no column short of the compact form
\* costs a fact that is never shed; and a fact is shed only after those of a
\* higher level.
StatusShows(facts, cols) ==
  LET line == live(facts)
      shown == render(line, cols)
      drawn == {shown.drawn[i].fact : i \in 1..Len(shown.drawn)}
      kept == {line.compact[i].fact : i \in 1..Len(line.compact)} IN
  /\ FoldSeq(LAMBDA d, sum : sum + Cells(d.text),
             IF shown.drawn = <<>> THEN 0 ELSE (Len(shown.drawn) - 1) * shown.separator, shown.drawn) <= cols
  /\ fits(line.compact, cols, COMPACT_SEPARATOR) =>
       kept \subseteq drawn /\ \A i \in 1..Len(shown.drawn) : shown.drawn[i].whole
  /\ \A i, j \in 1..Len(line.segments) :
       (line.segments[i].fact \in drawn /\ line.segments[j].shed_at < line.segments[i].shed_at)
         => line.segments[j].fact \in drawn

\* In a wide locale as in a narrow one the meter takes exactly its cells; it is
\* the floor of the exact share, full only when all of it is done; and a viewport
\* never shows an empty row while one is hidden.
GaugesExact(n, part, whole) ==
  /\ \A wide \in BOOLEAN :
       LET m == meter(n, wide, part, whole) IN
       /\ m.on * m.width.filled + m.off * m.width.empty = n
       /\ whole > 0 => m.on = (Min({part, whole}) * n) \div whole
       /\ (n > 0 /\ part < whole) => m.off > 0
  /\ LET r == visible_range(Viewport(n, whole, part)) IN r[2] - r[1] = Min({n, whole})
=============================================================================
