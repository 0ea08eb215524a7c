---------------------------- MODULE PromptLedger ----------------------------
(***************************************************************************)
(* The prompt prefix and the turns evicted from it (supra_prompt: ledger,  *)
(* evict, generation, breakpoints; supra_store: turns).  A conversation    *)
(* appends sealed segments, seals and rewrites generations, evicts turns   *)
(* into the store, compacts the prefix around them, takes snapshots, and   *)
(* is restored from one after a crash.  A stored row may be damaged behind *)
(* the store's back.                                                       *)
(*                                                                         *)
(* A digest is the value digested: hashes do not collide.  Every turn is   *)
(* one segment, named by its turn id.  The caller of these libraries is    *)
(* outside the repository: Append1, Compact and the actions of snapshots   *)
(* keep to what the documentation of the operations asks of it.            *)
(***************************************************************************)
EXTENDS Integers, Sequences, FiniteSets, SequencesExt

CONSTANTS
  Segments,         \* segments callers hold: records [id, kind, turn, blocks]
  LOOKBACK_BLOCKS,  \* positions the provider looks back (20)
  MaxPushes,        \* bound: segments pushed in a conversation
  MaxGenerations    \* bound: generations sealed in a conversation

Kind == {"ToolManifest", "SystemContract", "MemoryIndex", "Turn"}

Block == {"Text", "Thinking", "SignedThinking", "ToolUse", "ToolResult"}

ASSUME LedgerAssumption ==
  /\ LOOKBACK_BLOCKS \in Nat /\ MaxPushes \in Nat /\ MaxGenerations \in Nat
  /\ \A s \in Segments : s.kind \in Kind /\ s.blocks \in Seq(Block)
  /\ \A s, t \in Segments : s.id = t.id => s = t
  /\ \A s, t \in Segments :
       s.kind = "Turn" /\ t.kind = "Turn" /\ s.turn = t.turn => s = t

VARIABLES
  ledger,   \* the PromptLedger, with its history; NoLedger while down
  saved,    \* the last LedgerSnapshot written, or NoLedger
  evicted   \* the evicted_turn table: turn id -> row

vars == <<ledger, saved, evicted>>

-----------------------------------------------------------------------------
(***************************************************************************)
(* Segments.                                                               *)
(***************************************************************************)
IsToolTraffic(block) == block \in {"ToolUse", "ToolResult"}

\* first_interleaving: something sits between two runs of tool traffic.
Interleaved(blocks) ==
  \E i, j, n \in DOMAIN blocks :
    /\ i < j /\ j < n
    /\ IsToolTraffic(blocks[i]) /\ ~IsToolTraffic(blocks[j])
    /\ IsToolTraffic(blocks[n])

\* Segment::new
WellFormed(segment) ==
  /\ segment.kind = "MemoryIndex" => segment.blocks = <<>>
  /\ ~Interleaved(segment.blocks)

\* A run of tool traffic is one position.
lookback_positions(blocks) ==
  LET Starts(i) == IsToolTraffic(blocks[i]) =>
                     i = 1 \/ ~IsToolTraffic(blocks[i - 1])
  IN  Len(SelectSeq([i \in DOMAIN blocks |-> Starts(i)], LAMBDA b : b))

-----------------------------------------------------------------------------
(***************************************************************************)
(* The ledger's operations.  pushes, turns and seals are history: how many *)
(* segments were ever pushed, the turns among them, and every seal taken   *)
(* with the pushes there had been.                                         *)
(***************************************************************************)
NoSeal == [generation |-> -1, segments |-> <<>>, prefix_hash |-> <<>>]

NewLedger == [entries |-> <<>>, next_seq |-> 0, generation |-> 0,
              latest_generation |-> NoSeal,
              pushes |-> 0, turns |-> {}, seals |-> {}]

NoLedger == [NewLedger EXCEPT !.generation = -1]

Ids(entries) == [i \in DOMAIN entries |-> entries[i].segment.id]

\* Fault: positions left out of the digest.
prefix_hash_NoPositions(entries) == [i \in DOMAIN entries |-> entries[i].segment]

prefix_hash(entries) ==
  [i \in DOMAIN entries |-> <<entries[i].seq, entries[i].segment>>]

Present(l, id) == \E i \in DOMAIN l.entries : l.entries[i].segment.id = id

\* append: the ledger assigns the position; a duplicate id is refused.
append(l, segment) ==
  IF Present(l, segment.id) THEN l
  ELSE [l EXCEPT
          !.entries  = Append(@, [seq |-> l.next_seq, segment |-> segment]),
          !.next_seq = @ + 1,
          !.pushes   = @ + 1,
          !.turns    = IF segment.kind = "Turn" THEN @ \cup {segment.turn} ELSE @]

SealOf(l) == [generation |-> l.generation, segments |-> Ids(l.entries),
              prefix_hash |-> prefix_hash(l.entries)]

seal_generation(l) ==
  [l EXCEPT !.generation = @ + 1,
            !.latest_generation = SealOf(l),
            !.seals = @ \cup {[seal |-> SealOf(l), pushes |-> l.pushes]}]

verify_generation(l, seal) == prefix_hash(l.entries) = seal.prefix_hash

\* Positions go on where they were: next_seq is left alone.
clear_for_rewrite(l) == [l EXCEPT !.entries = <<>>]

Contents(l) == [i \in DOMAIN l.entries |-> l.entries[i].segment]

\* One append after the other.
append_each(l, segments) ==
  LET after[n \in 0..Len(segments)] ==
        IF n = 0 THEN l ELSE append(after[n - 1], segments[n])
  IN  after[Len(segments)]

\* Seal, clear, append the given segments afresh, and seal again.
Regenerate(l, segments) ==
  seal_generation(append_each(clear_for_rewrite(seal_generation(l)), segments))

\* validate_snapshot
ValidSnapshot(l) ==
  LET seal == l.latest_generation
  IN  /\ \A i \in DOMAIN l.entries : l.entries[i].seq = i - 1
      /\ IsInjective(Ids(l.entries))
      /\ l.next_seq = Len(l.entries)
      /\ IF seal = NoSeal THEN l.generation = 0
         ELSE /\ l.generation = seal.generation + 1
              /\ seal.segments = Ids(l.entries)
              /\ seal.prefix_hash = prefix_hash(l.entries)

-----------------------------------------------------------------------------
(***************************************************************************)
(* Eviction.                                                               *)
(***************************************************************************)
\* Fault: only the first block is looked at.
decide_First(blocks) ==
  IF blocks # <<>> /\ blocks[1] = "ToolUse" THEN "Keep" ELSE "Drop"

\* ThinkingDisposition::decide and render_body: a turn that calls a tool is
\* kept whole; otherwise unsigned thinking goes.
decide(blocks) ==
  IF \E i \in DOMAIN blocks : blocks[i] = "ToolUse" THEN "Keep" ELSE "Drop"

render_body(blocks, disposition) ==
  IF disposition = "Keep" THEN blocks
  ELSE SelectSeq(blocks, LAMBDA b : b # "Thinking")

plan_eviction(segment) == render_body(segment.blocks, decide(segment.blocks))

TurnSegments == {s \in Segments : s.kind = "Turn"}
TurnIds == {s.turn : s \in TurnSegments}

\* A row: the digest written, the body now, whether an eviction of this turn
\* has been acknowledged to the running conversation, and whether the body
\* was damaged after that (both history).
Row(body) == [stored |-> TRUE, hash |-> body, body |-> body, acked |-> TRUE, late |-> FALSE]

NoRow == [Row(<<>>) EXCEPT !.stored = FALSE, !.acked = FALSE]

Stored(turn) == evicted[turn].stored

Intact(turn) == evicted[turn].body = evicted[turn].hash

\* recall_turn: NotFound or Corrupt unless the bytes still hash to the digest.
recall_turn(turn) ==
  IF Stored(turn) /\ Intact(turn) THEN [ok |-> TRUE, bytes |-> evicted[turn].body]
                                  ELSE [ok |-> FALSE, bytes |-> <<>>]

\* The listings, which read the digest column and no body.
turn_metadata(turn) == [turn |-> turn, digest |-> evicted[turn].hash]
evicted_turns == {turn_metadata(t) : t \in {u \in TurnIds : Stored(u)}}

-----------------------------------------------------------------------------
(***************************************************************************)
(* Breakpoints.                                                            *)
(***************************************************************************)
KindOf(entries, i) == entries[i].segment.kind

\* One past the last segment of a kind, and 0 when there is none.
EndOf(entries, kind) ==
  Max({0} \cup {i \in DOMAIN entries : KindOf(entries, i) = kind})

Plan(entries, previous_turn_end) ==
  <<EndOf(entries, "ToolManifest"), EndOf(entries, "SystemContract"),
    EndOf(entries, "MemoryIndex"), previous_turn_end>>

\* A region begun after one it must precede.
Reversed == {<<"SystemContract", "ToolManifest">>, <<"MemoryIndex", "ToolManifest">>,
             <<"MemoryIndex", "SystemContract">>}

RegionOrder(entries) ==
  \A i, j \in DOMAIN entries :
    i < j => <<KindOf(entries, i), KindOf(entries, j)>> \notin Reversed

\* plan_breakpoints_at answers Ok.
Planned(entries, previous_turn_end) ==
  /\ previous_turn_end <= Len(entries)
  /\ RegionOrder(entries)
  /\ previous_turn_end >= EndOf(entries, "MemoryIndex")

find_reversal(plan) == \E i \in 1..3 : plan[i] > plan[i + 1]

Positions(entries, offset) ==
  FoldLeft(LAMBDA sum, e : sum + lookback_positions(e.segment.blocks), 0,
           SubSeq(entries, offset + 1, Len(entries)))

check_lookback(plan, entries) ==
  \A i \in 1..4 : Positions(entries, plan[i]) <= LOOKBACK_BLOCKS

validate(plan, entries) == ~find_reversal(plan) /\ check_lookback(plan, entries)

-----------------------------------------------------------------------------
(***************************************************************************)
(* The conversation.                                                       *)
(***************************************************************************)
Init ==
  /\ ledger = NewLedger
  /\ saved = NoLedger
  /\ evicted = [t \in TurnIds |-> NoRow]

Up == ledger # NoLedger

\* An index entry is appended only once its turn's eviction has been
\* acknowledged, as plan_eviction asks.
Append1(segment) ==
  /\ Up /\ ledger.pushes < MaxPushes
  /\ WellFormed(segment) /\ ~Present(ledger, segment.id)
  /\ segment.kind = "MemoryIndex" => evicted[segment.turn].acked
  /\ ledger' = append(ledger, segment)
  /\ UNCHANGED <<saved, evicted>>

Seal ==
  /\ Up /\ ledger.generation < MaxGenerations
  /\ ledger' = seal_generation(ledger)
  /\ UNCHANGED <<saved, evicted>>

\* generation::rewrite
rewrite ==
  /\ Up /\ ledger.generation + 1 < MaxGenerations
  /\ ledger.pushes + Len(ledger.entries) <= MaxPushes
  /\ ledger' = Regenerate(ledger, Contents(ledger))
  /\ UNCHANGED <<saved, evicted>>

\* Fault: an equal digest column is taken for an equal body.
Evictable_ByDigest(turn, body) == ~Stored(turn) \/ evicted[turn].hash = body

\* Store::evict_turn, of a live turn: a new row, or a row that already holds
\* these very bytes.  Other bytes (Conflict) and damaged ones (Corrupt) are
\* refused, and nothing changes.
Evictable(turn, body) ==
  \/ ~Stored(turn)
  \/ evicted[turn].hash = body /\ Intact(turn)

Acknowledged(turn, body) ==
  IF Stored(turn) THEN [evicted[turn] EXCEPT !.acked = TRUE] ELSE Row(body)

evict_turn(segment) ==
  /\ Up /\ segment \in TurnSegments /\ Present(ledger, segment.id)
  /\ Evictable(segment.turn, plan_eviction(segment))
  /\ evicted' = [evicted EXCEPT ![segment.turn] =
                   Acknowledged(segment.turn, plan_eviction(segment))]
  /\ UNCHANGED <<ledger, saved>>

\* The caller of evict and clear_for_rewrite: a turn whose eviction has been
\* acknowledged in this conversation gives way to its index entry.  The new
\* generation has each segment once, and what is not a turn before the turns,
\* its regions in order.
Kept(l, turn, index) ==
  ({l.entries[i].segment : i \in DOMAIN l.entries} \ {turn}) \cup {index}

Orderly(a, b) == a.kind = "Turn" => b.kind = "Turn"

Compactions(l, turn, index) ==
  {next \in SetToSeqs(Kept(l, turn, index)) :
     \A i, j \in DOMAIN next : i < j =>
       Orderly(next[i], next[j]) /\ <<next[i].kind, next[j].kind>> \notin Reversed}

Compact(turn, index) ==
  /\ Up /\ turn \in TurnSegments /\ Present(ledger, turn.id)
  /\ index.kind = "MemoryIndex" /\ index.turn = turn.turn
  /\ WellFormed(index) /\ evicted[turn.turn].acked
  /\ ledger.generation + 1 < MaxGenerations
  /\ \E next \in Compactions(ledger, turn, index) :
       /\ ledger.pushes + Len(next) <= MaxPushes
       /\ ledger' = Regenerate(ledger, next)
  /\ UNCHANGED <<saved, evicted>>

\* snapshot, written with the session's checkpoint.
snapshot ==
  /\ Up
  /\ saved' = ledger
  /\ UNCHANGED <<ledger, evicted>>

Crash ==
  /\ Up /\ saved # NoLedger
  /\ ledger' = NoLedger
  /\ evicted' = [t \in TurnIds |-> [evicted[t] EXCEPT !.acked = FALSE, !.late = FALSE]]
  /\ UNCHANGED saved

\* from_snapshot refuses what it cannot prove.
from_snapshot ==
  /\ ~Up /\ ValidSnapshot(saved)
  /\ ledger' = saved
  /\ UNCHANGED <<saved, evicted>>

\* A body is changed in place; its digest column is not.
Damage(turn) ==
  /\ Stored(turn) /\ Intact(turn)
  /\ evicted' = [evicted EXCEPT ![turn].body = <<"damaged">>,
                               ![turn].late = evicted[turn].acked]
  /\ UNCHANGED <<ledger, saved>>

Next ==
  \/ \E s \in Segments : Append1(s) \/ evict_turn(s)
  \/ \E s, i \in Segments : Compact(s, i)
  \/ Seal \/ rewrite
  \/ snapshot \/ Crash \/ from_snapshot
  \/ \E t \in TurnIds : Damage(t)

Spec == Init /\ [][Next]_vars

-----------------------------------------------------------------------------
(***************************************************************************)
(* What must hold.                                                         *)
(***************************************************************************)
\* The live prefix is a run of consecutive positions that ends just before
\* next_seq, each segment once, within the bounds of the instance (append).
TypeOK ==
  /\ \A l \in {ledger, saved} :
       /\ IsInjective(Ids(l.entries))
       /\ \A i \in DOMAIN l.entries :
            /\ l.entries[i].segment \in Segments
            /\ l.entries[i].seq = l.next_seq - Len(l.entries) + i - 1
       /\ l.generation \in -1..MaxGenerations
       /\ l.next_seq \in 0..MaxPushes
  /\ DOMAIN evicted = TurnIds

\* A seal re-proves exactly while the prefix it froze has not moved: once a
\* segment has been pushed, by an append, a rewrite or a compaction, no seal
\* of an earlier prefix verifies again, however the prefix develops
\* (verify_generation, over rewrites and restored snapshots).
SealNamesPrefix ==
  \A s \in ledger.seals :
    verify_generation(ledger, s.seal) <=> s.pushes = ledger.pushes

\* Eviction is lossless: every turn of the conversation is live, or can be
\* recalled, or its row was damaged only after the store had acknowledged it.
\* In particular a retried eviction is not acknowledged over a row damaged
\* meanwhile, across crashes and restored snapshots (Store::evict_turn).
NoTurnLost ==
  Up => \A s \in TurnSegments : s.turn \in ledger.turns =>
          \/ Present(ledger, s.id)
          \/ recall_turn(s.turn).ok
          \/ evicted[s.turn].late

\* What recall returns is the turn: whole when it calls a tool, and else
\* short of nothing but unsigned thinking; never damaged bytes; and the store
\* lists it under the digest of what it returns (decide, render_body,
\* recall_turn, evicted_turns).
RecallVerbatim ==
  \A s \in TurnSegments : recall_turn(s.turn).ok =>
    /\ \/ recall_turn(s.turn).bytes = s.blocks
       \/ /\ ~Contains(s.blocks, "ToolUse")
          /\ recall_turn(s.turn).bytes = SelectSeq(s.blocks, LAMBDA b : b # "Thinking")
    /\ [turn |-> s.turn, digest |-> recall_turn(s.turn).bytes] \in evicted_turns

\* Every plan that would be sent freezes whole regions: all tools up to BP1
\* with no system contract or index entry among them, all contracts up to
\* BP2 with no index entry among them, and nothing but turns after BP4; and
\* every breakpoint is within the provider's reach (plan_breakpoints_at and
\* validate together).
PlanFreezesRegions ==
  \A end \in 0..Len(ledger.entries) :
    LET entries == ledger.entries
        plan    == Plan(entries, end)
        within(i, j) == {KindOf(entries, n) : n \in (i + 1)..j}
    IN  Planned(entries, end) /\ validate(plan, entries) =>
          /\ within(0, plan[1]) \subseteq {"ToolManifest", "Turn"}
          /\ "ToolManifest" \notin within(plan[1], Len(entries))
          /\ within(0, plan[2]) \subseteq {"ToolManifest", "SystemContract", "Turn"}
          /\ within(plan[4], Len(entries)) \subseteq {"Turn"}

\* The live prefix is of its type, a seal verifies exactly while the prefix it
\* froze stands, and a plan that would be sent freezes whole regions (append,
\* verify_generation, plan_breakpoints_at).
PrefixSound == TypeOK /\ SealNamesPrefix /\ PlanFreezesRegions

\* "Capture the complete durable state needed to resume appending": every
\* snapshot taken can be restored (snapshot, validate_snapshot).
SnapshotRestores == saved # NoLedger => ValidSnapshot(saved)

\* Regions in order yield ordered offsets: for a prefix with its regions in
\* order, the plan at its full length has no reversal (the test of that name).
OrderedOffsets ==
  LET entries == ledger.entries
  IN  Planned(entries, Len(entries)) => ~find_reversal(Plan(entries, Len(entries)))

-----------------------------------------------------------------------------
(***************************************************************************)
(* An instance: a tool manifest, a system contract, a turn that calls a    *)
(* tool after unsigned thinking, a prose turn with both kinds of thinking, *)
(* their index entries, and a segment whose constructor is refused.        *)
(***************************************************************************)
Segment(id, kind, turn, blocks) ==
  [id |-> id, kind |-> kind, turn |-> turn, blocks |-> blocks]

SmallSegments ==
  {Segment("m", "ToolManifest", "none", <<>>),
   Segment("s", "SystemContract", "none", <<"Text">>),
   Segment("a", "Turn", "t1", <<"Thinking", "ToolUse">>),
   Segment("b", "Turn", "t2", <<"Thinking", "SignedThinking">>),
   Segment("ia", "MemoryIndex", "t1", <<>>),
   Segment("ib", "MemoryIndex", "t2", <<>>),
   Segment("x", "Turn", "t3", <<"ToolUse", "Text", "ToolResult">>)}
=============================================================================
