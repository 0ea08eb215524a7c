# A TLA+ development of supra-harness

supra-harness is a coding agent: one binary (`supra_cli`) that runs a turn by
admitting a cohort of model peers, letting one propose an answer and the others
vote on it, and keeping what was said in a prompt ledger, a session file and an
SQLite store. Around that loop stand the clients of providers, language, debug
and MCP servers, the tools and the processes they start, the indexes of a source
tree, and the files the program keeps for itself. This directory holds TLA+
models of these parts, the TLC configurations that check them on small
instances, and TLAPS proofs of the results about voting, the turn, the event
bus, the files, the prompt, the gate before a tool, providers, server processes,
children, plugins and skills. Paths below are relative to the repository's `crates/`.

Run a configuration with `tlc -config MCTurn_run.cfg Turn`, check a proof with
`tlapm BlackboardProofs.tla`. `PROJECT.json` lists the components, the runs, the
source lines of every definition, hazards, findings and theorems.

## The system

| Component | State it keeps | Operations | Interacts with |
|---|---|---|---|
| `supra_types` | none (cohort arithmetic, segments, hashes, risk axes) | admit, tally, canonical bytes | everyone |
| `supra_blackboard` | claims in memory; three tables | open, publish, publish_blind, vote, next_proposer | the store file, several processes |
| `supra_eventbus` | registry, ring per subscription, locks, condition variables | publish, subscribe, receive, drop | every component publishes |
| `supra_core` turn | one turn over one claim | start, record, finish | blackboard, bus, ledger |
| `supra_cli` | tasks of a run, the prompt | hooks, proposal, validator tasks, retries, save; the lines typed | turn, provider, hooks, session |
| `supra_hook`, `supra_command` | tables of hooks and of commands | fire; parse, search | runtime, prompt |
| `supra_session` | a file per session, a lock file | record, resume, branch, save, save_checkpoint | several processes |
| `supra_prompt` | the prompt prefix, seals | append, seal, rewrite, snapshot, evict, plan breakpoints | store, session checkpoint |
| `supra_store` | SQLite: evicted turns; schema versions | evict, recall, open, migrate | blackboard, journal, vector, mcp |
| `supra_journal` | file snapshots | snapshot, undo | tools, file system |
| `supra_permission`, `supra_tool` | grants, frozen manifest | validate, decide, batch, invoke | runtime, user |
| `supra_guard`, `supra_sandbox`, `supra_shell`, `supra_ffi` | process trees, terminals | vet, spawn, read, kill, shape output | tools, operating system |
| `supra_mcp`, `supra_lsp`, `supra_dap` | requests in flight, manifests | probe, call, correlate, restart | external processes |
| `supra_llm` | one request | send, read a stream, replay a conversation, count usage | providers |
| `supra_introspector`, `supra_cohort` | a gate's child; evidence | run gates, compare answers, place findings; size a task | cargo, blackboard |
| `supra_log`, `supra_telemetry` | generations of a log file; consent | write, rotate, redact; record | every component |
| `supra_plugin`, `supra_skill` | instances and limits; skills | verify, call; load, reload | runtime, watcher |
| `supra_vector`, `supra_digest`, `supra_ast` | indexes | update, search, scan, edit, rename | store, source tree |
| `supra_config`, `supra_secrets`, `supra_update` | layers; secrets; installed binary | resolve; store; verify and apply | start-up |
| `supra_tui`, `supra_theme`, `supra_eval` | the frame; prices | fold events, lay out; price, gate | bus, usage |

What is hard here, and not reached by the unit tests: two processes on one
SQLite file, session file, vault, log or installed binary; a crash or a power
loss between a write, its rename and its sync, or between a commit and the
update of memory; a publisher, a consumer and a drop of the bus at once;
validator tasks that end in any order while the turn is being decided; an answer
that comes after its call gave up, or in two pieces around the deadline; a
stream cut anywhere; a child that outlives its parent and holds its pipe; a pid
reused between a look and a signal; a cache read beside a writer; a watcher's
event applied to a file that has changed again. `PROJECT.json` has each of these
as a hazard at its line.

## Modules

| Module | Models | Kind |
|---|---|---|
| `QuorumTally` | tier table, admission, quorum, `QuorumTally` | operators |
| `Cohort` | a cohort admitted and voting in any order | machine over `QuorumTally` |
| `Blackboard` | boards over one store | machine over `QuorumTally` |
| `Turn` | one run of `supra run` | `Blackboard` composed with runtime, hooks and provider calls |
| `LossyStream` | what one subscription promises | abstract specification |
| `EventBus` | the bus with its locks | implements `LossyStream` |
| `PromptLedger` | ledger, eviction, snapshots, breakpoints, the evicted-turn table | machine |
| `SessionStore` | one session file and its writers | machine |
| `StoreSchema` | opening and migrating one database | machine |
| `Journal` | snapshots of a file and their undo | machine |
| `Secrets` | keyring and vault | machine |
| `Update` | check and apply of a signed release | machine |
| `LogSink` | writers of one rotating log | machine |
| `Vector` | index handles that open, write and search one file; codes, cache, rank fusion | machine |
| `Digest` | scan, watcher events, graph, pool of gists | machine |
| `Repl` | invocations and the prompt over a directory of sessions | machine over `Commands` |
| `Provider` | one request over three transports | machine |
| `Mcp`, `Lsp`, `Dap` | clients of server processes | machines |
| `ToolGate` | the registry with the MCP gateway tool; from a tool call to its execution | machine |
| `Spawn` | guard, sandbox, process handle, shell session | machine |
| `Shaper` | output of a terminal, cut anywhere | machine |
| `Plugin`, `Skills` | a component under the host; the skill loader | machines |
| `Gate` | a gate's child, pipes, caps and teardown | machine |
| `Display` | frame, status line, gauge, viewport | machine and operators |
| `Checkpoint` | a session's checkpoint as a value | operators |
| `Config`, `Commands`, `Hooks` | layers, and what a start makes of environment and flags; the command table; hook lines and firing | operators |
| `Risk` | scrutiny and findings; usage and price | operators |
| `Canonical`, `Replay`, `Redact` | bytes hashed; requests as sent; redaction | operators |
| `Syntax` | harvest, outline, splice, rename, gists, positions | operators |
| `CohortProofs`, `BlackboardProofs`, `TurnProofs`, `EventBusProofs`, `LedgerProofs`, `DurableProofs`, `PeerProofs` | theorems | |
| `MCDurable`, `MCPeers`, `MCCases` | instances for TLC; the other configurations run their component's module | |

Definitions keep the source's names (`record_vote`, `ordinary_tally`,
`plan_eviction`, ...). A definition whose comment begins with "Fault:" is a
version of the next one with a plausible mistake; nothing uses it except the
mutation runs that show a property can fail. `PROJECT.json` lists one for every
property, the others do the same for the remaining parts of a property that
covers several machines.

**Scenes.** Machines that share no state are checked in one run without their
product: the initial state picks a `scene`, the machine of that scene moves, and
the others stay as they begin (`MCDurable`, `MCPeers`). The state space is the
sum of the machines', and a property that covers several machines says for each
scene what it asks there.

**Cases.** A function that keeps no state is checked on every input of a bounded
set: `MCCases` has one initial state per input (`case`), the input's `sort` says
which property is about it, and the property compares what the code computes
with a definition of what it should. `Cohort` and `Display`, which do have
state, run in the same module under their own sorts.

### Cohort and quorum

`admit` picks the tier and size for a request limit; `quorum(k)` is the rounded-up
two thirds, `byzantine_tolerance(k)` what it survives. `record` counts a vote,
`status` answers Open, Reached or Unreachable. `Cohort` admits for any limit and
casts votes one by one.

### Blackboard

The state is the three tables and, for each board, whether its process is up and
what it holds in memory. A call is one step: its transaction is atomic, and the
update of memory after it either happens or the process dies instead
(`Remember`), which is the crash window of `record_vote`. `Open` rebuilds memory
from rows and refuses rows it finds inconsistent (`Malformed`). A board never
re-reads the store, so with two boards each decides from its own past. Refused
calls change nothing and are no steps. Claim bodies are left out.

### Turn

`Turn` extends `Blackboard` with the runtime task (`phase`), a provider call per
peer with its attempts, the join set, the events and the save. Each hook may
succeed, fail, ask to stop, or never come back (`HookStep`, see Fairness). `Record(a)` is the whole of joining a task and
`Turn::record`: vote, `VoteCast`, and, when decided, the verdict's event,
`CohortAborted` and the aborts. `Drained` is the end of `abort_and_drain`.

### Event bus

A publisher takes a sequence number and fans out under the registry lock, only
trying each queue lock; a consumer holds its queue lock across several steps, so
a publisher may find it taken (`Contended`) and count a loss. `Notify` follows the
unlock, as in `offer`. `nth` and the variables marked history exist for the
properties. `LossyStream` says what a subscriber may observe: deliveries in
order, each with the exact number missed before it, and an end that is final.

### Session store

Documents are legacy or versioned. A save takes the lock file, decides from what
it reads under it, writes a temporary, renames and syncs the directory;
`durable` is the set of documents a power loss may leave. `Crash`, `SaveFails`
and `PowerLoss` may happen between any two of these. `CarefulNext` is a use for which
the guarantees hold: a session shared between processes has been upgraded, and
only a process that is alone saves without an expected revision. `SessionSpec` lets
any processes share a file of either form, and `MCSessionStore_legacy` shows what it may lose.

### Prompt ledger

`append`, `seal_generation`, `rewrite`, `snapshot`, `from_snapshot` and
`Store::evict_turn` are as in the code; a digest is the value digested. The
caller that evicts, appends the index entry and compacts the prefix is not in
the repository yet, so `Compact`, `Crash` and `Damage` are the environment the
documentation describes: an index entry appears only after its turn's eviction
was acknowledged, and a compaction appends every remaining segment once, what is
not a turn before the turns and its regions in order, in any such arrangement.
History in the ledger record (`pushes`, `turns`, `seals`) is
saved and restored with it.

### What is kept on disk

`StoreSchema`: each process reads a version and applies the next step in one
transaction; builds that know different numbers of steps share a file.
`Journal`: an undo holds its transaction from the look-up over temporary, rename
and sync to the mark and the commit, so a crash leaves the file renamed and the
row unmarked; an id is the millisecond and random bits it was minted with. `Secrets` follows the
same discipline (lock, temporary, sync, rename, sync of the directory), and each
step is an action that may fail; between the keyring's delete and the vault's an
older copy is uncovered, and `doubted` keeps it when the vault's part fails.
`Update` has no lock: each installer looks at the archive, extracts, syncs, looks
at the destination again and renames, and archive and destination may be replaced
by somebody else between any two of these. `LogSink` splits a write
into the count of lost lines it takes along, the mutex, the lock file, the
rotation one rename at a time, and the append. `Vector` gives every transaction
its snapshot: opening is two of them (the meta row, then the rows), a write
commits and then applies itself to the handle, a search looks at the revision and
then at the rows, and other threads and handles step in between; `lapped` marks a
handle whose own write passed over another's. `Digest` keeps the files, the queue of the watcher and the two locks; a
rescan lists one directory after the other, reads its files one by one, and installs index and graph in two steps;
`unsure` marks a path whose event overlapped a rescan. A file that goes is told
as removed, or, when it was renamed away, as a modification (`heard`), which
`apply_event` cannot read and skips; `moved` has those files until a scan forgets them. `Repl` numbers turns, so
that the conversation of a session is a sequence that can be compared.

### Whom the program deals with

`Provider` lets the server say any event at any point; `heard` records what it
said, per block, and the answer must be that or an error. `Mcp`, `Lsp` and `Dap`
have the server's side of the pipe as state: an answer may come late, in two
pieces, after a death, or not at all. The manifest of `Mcp` is a table keyed by the
joined name: `INSERT OR IGNORE` passes over a row whose name is taken or that a
`CHECK` refuses (`Admitted`), and adds the rest. `ToolGate` is the path of a call from the
registry (name, arguments, precondition, effect) through the gate (mode, rules,
damping, grants) to a batch of questions answered by position, with the registry
changing, files being read and rules being granted in between. In
`Spawn` the kernel is an actor that reuses pids and copies descriptors into every
fork. Sessions start on threads of their own, in any interleaving, beside threads that
open and close descriptors: the intermediate process of an isolated payload never execs, so it
keeps the slave and the report pipe of every other session that is being started
(`holds`) until its payload ends; `crossed` marks such a session, `since` what
was opened after its audit. A request has what the permission gate would say of
it, and no step looks at it, as in `spawn`. `Shaper` runs the scanner over every stream and every way to cut it, and
compares with the uncut stream. `Plugin` lets the guest call host functions in
any order, from its start code as from its export; a start that fails drops its Store
with the calls recorded in it (`lost`); `Skills` applies a watcher's event to what the file holds by then;
`Gate` has the pipes, their readers and the grandchildren.

### Functions

A text is a sequence of what its reader tells apart (widths of clusters, kinds of
token, quote and backslash; for a rename, letters, marks that make the next word a
field or a declaration, and two marks of which each grammar reads but one), a tree the sequence of its nodes in walking order,
a hash the bytes it is over. The comment that opens each module says what stands
for what.

## Runs

Passing runs (each about two minutes or less with two workers):

| Run | Instance | Shows |
|---|---|---|
| `MCBlackboard_two` | 2 boards, 1 claim, 4 agents | stored rows always hydrate; verdicts rest on stored votes; boards never contradict each other or the store; rows are never changed |
| `MCBlackboard_one` | 1 board, 3 interchangeable claims, 2 turns, 3 agents | restart is transparent; a full roster decides; rotation is fair |
| `MCEventBus_ring` | 2 publishers, 1 subscriber with a ring of 2, 4 events | gaps and losses exact and in order; no lost wake-up; refinement of `LossyStream`; `publish` returns and drop wakes everyone |
| `MCTurn_run` | cohorts of 1 to 4, 3 attempts | sealed only by quorum; events match the board; nothing left running; the run ends, unless a hook's command never does |
| `MCPromptLedger_keep` | 6 segments, 5 pushes, 2 seals | no turn lost; recall is the turn or nothing; a seal verifies exactly while its prefix stands and an accepted plan freezes whole regions |
| `MCDurable` | nine scenes, two or three processes or threads each | acknowledged turns, secrets, releases, log lines and undos survive crashes and power loss; revisions name content; schemas move forward; searches and the digest follow the files; a resumed conversation is the one that was held |
| `MCPeers` | ten scenes against servers, children and guests that do anything | a completion is what the server said, whole; a call returns its own answer; nothing runs without consent or edits unread; children are vetted, signalled and read to the end; plugins and skills stay within bounds |
| `MCCases` | every limit and vote count; 24 sorts of input | admission is maximal, quorums intersect, verdicts exact; what is sent, structured, chosen and shown is what was meant |

Why the bounds are enough to meet the cases: cohorts of 1 to 4 have all shapes of
quorum (blind, unanimous, with and without slack); two boards are enough for any
pair of opposite verdicts; a ring of 2 overflows and wraps with 4 events while a
loss by contention falls before, between and after; 3 attempts is the constant of
the code; 3 turns let two processes each add one to a shared session; 5 pushes
allow a compaction followed by a contract and a second index entry. On disk, two
processes and two renames let one process's file be replaced by another's while a
third is being undone; two passphrases and two accounts tell a lost secret from a
swapped one; three log threads in two processes, two kept generations and four
lines rotate while a line waits; a cache of one slot under two embeddings evicts
in the middle of a search; seven typed lines reach a branch of a resumed session
and back. Among the peers, five LSP ids and three processes reach a second death
after the retry; four DAP requests and three events put an event on both sides
of each answer; three MCP ids let an answer arrive two calls late; two servers of
which one's tool has the other's joined name, and pages of two tools, a bad name or a row no
table holds among them, two pages to a listing and three tools to a server, give listings that
are kept in part, refused and over the budget; streams of
four bytes, read two at a time, cut an escape sequence and a UTF-8 scalar at every
place; two pids for two sessions force reuse, and two sessions are enough for one to fork in the
middle of the other's start (sessions are interchangeable, and so are pids); pipes of two chunks and outputs of
three fill a pipe and pass the cap. Each bound is a named constant in the guard it
limits.

Assumptions about the outside, each a constant: `MayLeaveGroup = FALSE`
(no grandchild of a gate leaves its process group), `KeyringFlips = FALSE` (the
keyring does not appear or vanish while the program runs), `AnswersInOrder = TRUE`
(a debug adapter answers in order). The code does not guard against the other
case: with the first reversed TLC finds `ProcessesContained` violated, with the second
`FilesKept`, with the third `AnswersAreMine`. Of the three threads on the vector
index `t1` writes, `t2` searches and `t3`, on a handle of its own, does both, with
answers of 0 or 1 hits and room for one vector in the cache (`CacheBytes`);
`IndexesFresh` asks of it `FreshInTurn`, that a handle whose writes never passed
over another's answers from the file as it is, and `MCDurable_handles` shows what
becomes of one that did.

The named assumptions on constants say what the code gives: sets that name real
things are not empty (`Agent`, and in `Turn` also `Board`, `Claim` and `TurnId`;
`Bytes` of the journal; `Pieces` of a stream), agents are finitely many naturals in
the order of their text, the value that stands for "nobody" is nobody's name
(`"free"` among session processes and holders of the vault, `"none"` among journal
workers, accounts, session ids and plugins, `"no thread"` among logging threads,
`"nobody"` and `"other"` among shell sessions), a pid is not 0, a server is
configured once, the skill files come in an order, the scenes checked are scenes
there are, limits and bounds are naturals, and those on restarts of a language
server, on allowed paths and on a pipe's room are at least one. TLC
evaluates them in every run of a module that extends theirs.

`CHECK_DEADLOCK FALSE` is used where the system may stop: the bus is gone, a run is
over, a snapshot is refused, a bound is used up, a case has no step.

Violation runs, each a disagreement between the code and what it says of itself:

| Run | Code | Says |
|---|---|---|
| `MCTurn_hooks` | `fire_hooks` propagates a failed hook command, so a run whose answer was already sealed fails | `supra_cli/src/runtime.rs:62`, a failure "does not fail the turn" |
| `MCSessionStore_legacy` | a legacy file's revision is its turn count, and a legacy save replaces without comparing; a stale compare-and-swap then succeeds | `supra_session/src/store.rs:230`, "a stale writer refuses" |
| `MCPromptLedger_snapshot` | `clear_for_rewrite` leaves `next_seq`; after a rewrite `from_snapshot` refuses what `snapshot` took | `supra_prompt/src/ledger.rs:144`, "complete durable state needed to resume appending" |
| `MCDurable_handles` | `upsert` and `remove` set a handle's revision to their own commit's (`supra_vector/src/index.rs:280`), also when another handle committed before; the handle then never loads that write | `supra_vector/src/schema.rs:123`, a handle with older resident state "reloads before answering a query" |

### Claims refuted, without a run

Nineteen more definitions state a sentence of the source or its documents, and no
configuration names them: TLC refutes each when it is added to the run of its component.

| Property | Sentence | Because |
|---|---|---|
| `MCCases!OutlineEnds` (sort `outline`) | the comment on the loop of `outline`, that depths settle | a parent is taken by name among all other symbols: an impl block holding a type of its own name makes two symbols each deeper than the other; `StructureFaithful` says exactly of which trees the loop ends (`OutlineEndsAtATop`) |
| `Blackboard!PairStaysOpen` | `supra_blackboard/README.md:32`, "at k=2 one yes of two needed stays `Open` forever" | publishing is the proposer's yes, and the only validator's is the second |
| `PromptLedger!OrderedOffsets` | the test `regions_in_order_yield_ordered_offsets` | an empty region has offset 0, taken for a reversal |
| `Provider!SameContract` | `supra_llm/src/client.rs`, send: the error contract "is identical on every path" | statuses are classified differently by the transports |
| `Lsp!DeathIsARestart` | `supra_lsp/src/client.rs:10`, "A server death is a restart, not a turn failure" | only a death while references are owed is one |
| `ToolGate!PlanIsReadOnly` | `supra_types/src/permission.rs:143`, "Anything with a side effect is refused rather than queued" | a structural edit is damped to the level of a read |
| `Shaper!AnyChunks` | `shaping.rs`, the same output "whatever chunk boundaries it crossed" | a broken-off UTF-8 scalar is read differently at the start of a read |
| `Digest!ImportsRecorded` | `apply_event`, a re-read file "re-records the imports the new bytes declare" | an import behind a comment is not seen |
| `Digest!BlastRadiusFollows` | the same, that the graph moves with the index | an edge keeps the `internal` flag it was made with |
| `Digest!GoneFilesDropped` | `supra_digest/src/digest.rs:312`, "re-index changed files, drop deleted ones" | a file renamed away is told as a modification, cannot be read, and is skipped (line 332) |
| `Mcp!NoHalfManifest` | `supra_mcp/src/gateway.rs:175`, "the cache never holds half a manifest" | `INSERT OR IGNORE` (`cache.rs:91`) passes over a row that a `CHECK` refuses or whose name is taken |
| `Spawn!OutputAlwaysEnds` | `supra_ffi/src/pty.rs:31`, once the parent's slave is closed the reader sees the end | another session's intermediate process, forked in between, holds the slave |
| `Spawn!SpawnReturns` | `linux_spawn.cpp:422`, the report pipe is closed so that it does not "block the parent's read()" | only its own session's: another's start waits for that payload's exit |
| `Spawn!NothingLeaks` | `supra_sandbox/src/spawn.rs`, "A single leak defeats the whole boundary" | a descriptor opened without close-on-exec between the audit and the fork is inherited |
| `Spawn!ConsentAsked` | `supra_sandbox/src/spawn.rs:12`, the permission gate as a layer that is not optional | `spawn` never asks it |
| `Plugin!EveryCallAudited` | `supra_plugin/README.md:97`, dispatch is "audited per plugin instance" | calls of start code that then fails go with the Store |
| `Redact!RedactedWhole` (two keys on a line) | `supra_log/src/redact.rs:209`, "A PEM block, redacted whole" | after a key whose END mark no newline follows, the match runs into the header of the next, whose body stays |
| `MCCases!OldNameGone` (sort `rename`) | `supra_ast/src/rename.rs:1`, "every eligible occurrence rewritten" | a `field_identifier` does not count (`query.rs:173`) |
| `MCCases!SameFilesRead` (sort `rename`) | `supra_ast/src/splice.rs:158`, what the digest can anchor the gate can verify "and vice versa" | the digest reads `.tsx` as TSX, the gate as TypeScript |

### Observed, without a run

Where code and documentation part, or where a guarantee ends. The models do what
the code does, and the properties are stated short of these.

Voting and turns
- `supra_blackboard/README.md:11` says a proposer's vote never counts toward its
  own claim; `ordinary_tally` starts an ordinary claim with the proposer's
  approval. `VerdictsRestOnVotes` counts it as the code does.
- A hook's command is waited for without a deadline (`supra_hook/src/registry.rs:125`): one that
  never exits holds the run, also after the answer was sealed. `TurnEnds` is
  stated with that exception.
- `supra_blackboard/README.md:29` counts the proposer of a claim as pending for ever
  and concludes that two peers never decide; in the code the validator's yes decides,
  which is what `FullRosterDecides` says.
- `bus.rs:93` says a non-zero gap means the ring overflowed; a contended lock
  gives one too.
- `cohort.rs:374` says the turn loop escalates as soon as the quorum is out of
  reach; `collect_validations` goes on waiting when that came from failed calls.
- A claim published with an empty roster is decided by its own publication; the
  open board does not notice and a reopened one does.
- A SessionEnd hook that fails after the save loses the printed answer and keeps
  the turn. A stop (exit 42) is hidden when another hook of the point failed.
- `evidence_ref` can exceed `MAX_EVIDENCE_BYTES`; a path component such as
  `build/` makes a task count as mutating.
- The quorum shown in the frame spans all claims of a turn, and `TurnStarted`
  drops the missed count that came with it.

Files
- A legacy save that finds nothing to add to a versioned file returns Ok without
  a sync, so the retry of a save that failed to sync is acknowledged and a power
  loss may still take the turn. `AckedTurnsKept` is about saves that published.
- `migrate` looks for a too-new file only before its loop.
- A journal undo retried after a crash overwrites an edit made in between;
  snapshots of one millisecond are ordered by their random bits.
- A secret's delete takes the keyring's copy first: when the vault's part then fails,
  an older copy in the vault is uncovered. Retried after a failed directory sync it
  answers false without a sync; an unlock between load and save re-encrypts under another passphrase; a
  keyring that comes or goes uncovers old values.
- A destination replaced after the updater's second look is overwritten; staging
  names of crashed updaters with one pid are never reclaimed.
- A log line that fails after its notice was written reports the loss twice.
- Two threads that upsert on one vector handle give a search a transient stale
  row; the two lanes of a hybrid search read different transactions.
- `push_turn` accepts a nil turn and `branch` the session's own id, which
  `validate` then refuses.
- `live_probe` resolves the configuration from a command line of its own, so
  `--ignore-project-config` and `--secrets-file` given with `eval --live` do
  nothing; a relative `HOME` gives a relative log file (`supra_log/src/lib.rs:196`).
- The project layer may raise the cohort limit, the thinking budget and the
  threshold, though `source.rs` says it may only tighten.

Peers
- A `retry-after` of 0 is used as it is; the Google reader drops an unfinished
  tail, its calls without an id share one name; an empty OpenAI completion cannot
  be replayed. `openai_tools` refuses what its comment says it skips.
- Usage is called exact but is rounded to whole mills, and for Anthropic the
  uncached part is undercharged.
- MCP: a row that the table refuses, or whose name collides after `namespaced`, is
  passed over and the rest kept; `ManifestKept` asks for what the table admits. The
  timeout is per line; a blank line reads as a closed pipe; half a line at the
  deadline spoils the next call.
- DAP: `wait_event` discards queued events of other names. LSP: a request from the
  server with the pending id is taken for the answer; a byte behind a CR maps back
  to the CR.
- `StructuralEdit` is damped below what the catalogue says. `ShellSession::kill`
  answers true for a child that exited and was not reaped; on Linux a kill with no
  grace waits for ever; `TreeBudget`'s burst is never enforced; the descriptor
  audit races other threads, so `ChildrenVetted` allows a child what was opened after
  its own audit.
- Two sessions that start at once: the one whose child is forked first keeps the
  other's terminal and report pipe open until its payload exits. `OutputEnds` is about sessions
  into whose start no fork fell. The permission gate that `spawn.rs:12` names as a
  third layer is asked by nobody there, and `ChildrenVetted` is about the guard and the
  sandbox only.
- A gate is waited for without a deadline, and a grandchild that left the group
  holds the reader for ever.
- A skill event that was refused is never tried again. A plugin's
  `interface#function` import passes `verify` and is offered by nobody; host calls of
  start code that fails are recorded nowhere that can be read.

Source trees, lines and screens
- `import_targets` loses a `use` behind a comment, takes other code for imports and
  never knows `pub(crate) use`; `super::` is not climbed; an edge's `internal` flag
  is frozen; a rescan that overlaps an event may reinstall the older file; `a.c` and
  `a.h` are one module, and removing the file that has it leaves the other without one; a gist
  without an embedding is in neither lane; a file renamed away stays in index and graph until
  the next scan, which `DigestFollowsTree` excepts; `check_budget` leaves before the pool
  is drained.
- `find_exact` returns the outermost node, not the deepest; a nameless declaration
  hands its children to the previous symbol; a topic of 73 to 80 bytes is refused
  because the kind is always appended; a rename leaves uses of a field or a method, and a
  `.tsx` the digest reads may be one no edit can verify.
- Two keys on a log line, the first cut off at its END mark: the second is not redacted.
- `shell_words` ends a double quote at a single one and drops empty words.
- `/resume` says "resumed" without looking; an unknown slash command or a bad id
  ends the prompt; `//help` is `help`; an empty line is skipped, not refused.

## Fairness

- `TurnSpec`: weak fairness of the runtime task (`RuntimeStep`), which the executor
  polls until it returns, and of each provider call, which has a deadline per attempt.
  None of the four steps that wait for a hook's command (`HookStep`): `fire` has no
  deadline, and `TurnEnds` says that the run ends or waits at a hook for good.
- `PublisherSpec`: weak fairness of publishers only. The half of `NobodyHangs`
  about `publish` therefore holds with consumers that stop for ever, even holding
  their lock.
- The half about dropping the bus assumes in addition that consumers finish calls
  they started and that the dropping thread runs; `Close` waits for a mutex and is
  given strong fairness: a mutex released again and again is granted in the end.
- Nothing else assumes fairness; the other properties are about safety.

## Proofs

Each proof module names its inductive invariant, shows that the initial states
have it and that every action keeps it, one lemma per action, and reads the
checked properties off it. All bounds of the models are arbitrary naturals there,
and all sets arbitrary ones within the named assumptions.

**`CohortProofs`**, for every set of limits up to the ceiling and every number of
votes: `Admission`, `Intersection`, `Exactness`, `Stability`. The invariant
`CohortInv` says that the tally belongs to the admitted size and that its counts
fit in it. `AdmitFits` and `AdmitMaximal` are the arithmetic of the tier table;
`QuorumArithmetic` that of quorums. Assumption: limits are within
`1..PEER_CEILING`, which the code's configuration enforces.

**`BlackboardProofs`**, for any boards, claims, turns and finite set of agents:
`TypeCorrect`, `Hydration`, `VerdictsRest`, `Agreement`, `Durability`, all from
`Invariance`, the inductive invariant `IInv`:

- rosters fit their k (`RosterFits`) and votes come from rosters
  (`VotesRostered`), without which a hydrated tally could have no room;
- what a board holds is part of the store, and its incremental tally is what
  counting its own slots afresh would give (`MemoryPartOfStore`), without which
  nothing ties a verdict taken from memory to durable votes;
- verdicts rest on stored votes.

Agreement then follows by counting: a reached and an unreachable verdict of one
claim would need more members than the claim has. The lemma `CountedRecord`, that
recording one more vote is counting one more slot, carries the incremental tally.

Three results need that at most one board is up at a time (`OneAtATime`, a
temporal hypothesis: any number of boards may follow each other, and each may
crash anywhere). `BoardsInStep` strengthens `IInv` by `InStep`, that the open
board holds every stored claim with its stored votes, and `RowsSettled`, that a
row is closed as soon as its votes decide it. `RestartIsTransparent` and
`RosterDecides` follow; the claims published with an empty roster are exempt, as
in the checked property. With two boards up these are false, because a board
never re-reads the store. `SharesStayEven` is about `RotatingSpec`, which takes
proposers from `next_proposer`: `RotationIsUse` shows it is a use of boards with
finitely many stored claims, and `NextProposer` that the choice is the least of
the least loaded (`NatMin` used twice), so a step never raises a share above the
smallest plus one.

**`TurnProofs`**, for any cohort, limit and number of attempts: `SealsHaveQuorum`,
`TurnAndBoard`, `NothingOutlives`. Every step of a run is a blackboard step or
leaves the blackboard alone, so `IInv` is an invariant of the run; `TurnInv` adds
that before `start` nothing has happened (`Quiet`), and afterwards (`Running`)
the claim's row is the one this run published, its votes are the verdicts of the
joined tasks, the phase says how far the run got, and the events count and order
votes and verdict. A quorum of stored votes is then a quorum of approving peers.

**`EventBusProofs`**, for any publishers, subscriptions, filters and capacities:
`TypeCorrect`, `WakeupsKept`, `DeliveryCorrect` and `StreamRefinement`. What
happens to one subscription's ring is a lemma on values (`Lose`, `Evict`, `Push`,
`Take1`) about `StreamOK`: numbers ascend, each gap is the distance to its
predecessor, and offered = taken + buffered + missed. `BusInv` adds that one publisher
at a time is past the registry lock (`Serial`), that what is buffered is older
than what is being fanned out (`SeqsOK`), what holds in each phase of the bus and
of a consumer (`PhasesOK`), and the wake-ups themselves. `StreamRefinement` proves the whole
formula `ImplementsStream`, which has no fairness.

**`LedgerProofs`**, for any segments with distinct ids and one segment to a turn:
`PrefixIsSound`, `TurnsSurvive`, `RecallIsVerbatim`. `rewrite` appends in a loop,
so the loop is put in closed form first (`EachIs`): appending n new segments to
an empty ledger places them from `next_seq` on. The recursion is over 0..n, and
the first n at which the two would differ does not exist (`NatMin`). `LedgerOK`
says of one ledger, live or saved, that its positions are consecutive up to
`next_seq`, that every seal ends in the position of the last push before it, and
that all turns are live while nothing has been cleared. Two seals taken after
different numbers of pushes then end in different positions, which is why an old
seal never verifies again. `LedgerInv` adds that a stored row carries the digest
of its turn and is whole or late once acknowledged (`RowOK`), and that each turn is
live or acknowledged (`Covered`). A crash forgets the acknowledgements;
`from_snapshot` has `Covered` back because it accepts only a ledger that was
never cleared. That the digest does not collide is part of the model.

**`DurableProofs`**, for any processes and bounds:

- `SchemaCorrect`: `OpenersOK` says an opener is at most one step ahead of the
  recorded version and turns to its component after the core, so `Apply` finds
  either the step that follows or one that is done.
- `UndoCorrect`, `UndoIsDurable`: `JournalInv` says that an id in hand is of no
  row and nobody else's, that a restore is inside the write transaction and of a
  row that is there, that what it renamed is in place and, once synced, the
  oldest that can survive a power loss, and that Ok was answered at most once for
  a row and only for one marked undone. That exactly one live row is the newest needs a greatest element of a
  finite set of naturals (`NatMax`), by well-founded descent in a lemma on sets.
- `TurnsKept`, `RevisionsSound`, `FileMovesForward`, under `CarefulSpec`:
  `SessionInv` relates, for each process, the view it took, the document its save
  has decided on and the file: a process that is alone, or whose expected
  revision is the one on disk, has everything that is on disk; what a save is
  about to publish extends the file and moves its revision; and everything
  acknowledged is in all that may survive a power loss.
  Without careful use `MCSessionStore_legacy` refutes them.

- `SecretsSafe`, for any processes, accounts and passphrases while the keyring stays
  as it is (`~KeyringFlips`): `SecretsInv` says who holds the vault's lock and what
  the holder has loaded, so that two transactions never overlap; that what is on
  disk is synced and whole; and, per account, that what can be read was reported
  or is doubted, on disk and after a power loss. `UpdateSafe`: `UpdateInv` ties an
  installer's content to the manifest it verified, up to the rename.
- `LogSafe`: that the generations together are a suffix of what was appended says
  nothing while they are being renamed; `LogInv` therefore names the cuts, a
  non-increasing sequence of positions such that generation i holds the lines
  between two of them (`Cuts`), and each step of a rotation moves one cut. The
  lines a process lost are at most those in its counter, told of, or travelling
  with a thread; the latter are counted by cardinality.
- `ConversationSafe`: `ReplInv` says in which phase of a line the file, the
  conversation and what is being worked on agree. What was told under a session is
  a subsequence of its turns (`InOrder`), and stays one when a turn is added,
  told or not (`OneMoreTurn`).
- `DigestSafe` (`DigestFollowsTree`), for any files, texts and changes, renames away
  among them (which leave the file in `moved`, where nothing is claimed of it until a scan). Index and graph are
  not right while an event waits or a scan is half installed, so `DigestInv` follows
  each file through the pipeline: the last event queued for a file says whether it is there
  (`EventsTell`), the text in the watcher's hands is the file's unless another event of it waits
  (`WatchSound`), the graph fits the index except for the file being applied (`Follows`), and of a
  file no event touched a scan has read, or has still to read, what the tree holds
  (`Scanned`). That a graph made anew fits (`GraphBuilt`) needs the last of the files
  that share a module path, a greatest element again (`NatMax`).
- `FilesSafe`, `HistorySafe`, `ConversationsSafe`, `DigestFollows` state `FilesKept`, `HistoryKept`,
  `ConversationKept` and `DigestFollowsTree` of the composed `MCDurable`: a step of the composition is a step
  of one machine and leaves the others (`ScenesApart`), so each machine's theorem holds
  of it whichever scenes are checked.

**`PeerProofs`**, for any tools, servers, streams, sessions, plugins and skills:

- `ConsentKept` (`GateKept`): `ToolGateInv` says that what was checked of a call is
  still so (`CallFits`), that the gate's answer is the one its effect, the mode and
  the rules give (`CallGated`), and that only calls answered Ask are in the batch.
- `AnswersWhole` (`CompletionWhole`), for the three transports: `PlacesOK` says which
  places of an answer are taken and that they are consecutive where the code
  counts them, `HeardIsKept` that a block holds the pieces the server sent for it, open or
  complete. OpenAI numbers its calls and its text apart, so keys say which is meant
  (`KeysApart`).
- `AnswersMine` (`AnswersAreMine`), while a debug adapter answers in order
  (`AnswersInOrder`): ids in use were given out, a language server's pipe holds
  only frames of the process that runs (`LspInv`), a server is probed once
  (`McpInv`), and what the debug adapter owes and what lies in its pipe ascend, so
  that a client still waits for what is owed (`DapInv`). The theorem is of the
  composed program and includes the action property `ManifestKept`: a row never changes,
  and a probe adds rows of its own server only, every one of its listing that the table
  admits (or its name is taken).
- `ProcessesSafe` (`ProcessesContained`), without processes that leave their group
  (`~MayLeaveGroup`, see Assumptions), for any sessions starting at once and any
  threads of the host. `SpawnInv` says which pids are whose child, which ends a session
  holds at each point of a start, that what others hold of a session fell into its start
  (`OnlyCrossed`), and that a child inherited only what was opened since its audit;
  `GateInv` who holds each pipe, and that what was read and what is in the pipe add up to
  what was written. For `Shaper` two shapers are
  compared, one fed in pieces and one at once: they agree in everything shown (`SameShown`)
  after every byte. Feeding is a recursive function over 0..n, and the least n at which
  they would differ does not exist (`NoneUpTo`).
- `PluginSafe` and `SkillsFollow` are two parts of `ExtensionsContained`. `PluginInv`
  ties the record to the calls of the instance from its start code on, and what was lost
  with failed starts to the class it ran under. `SkillsInv` says that the last event of a file
  tells whether it is there, that a skill's source holds the skill unless an event
  is pending or one was refused, and that no two names share a file.
- `PeersTyped` (`TypesOK` of `MCPeers`), under the hypotheses of `ProcessesSafe`.

Only model-checked, and why:

- Liveness (`TurnEnds`, `NobodyHangs`): fairness and ENABLED are beyond the prover.
- The functions of `MCCases` (`WireFaithful`, `StructureFaithful`,
  `ChoicesFaithful`, `SessionShown`): they are recursive over strings, trees and
  requests, and what they compute needs an induction over data, which none of the
  installed provers can instantiate. The loops of the ledger, the shaper and the
  skill loader run over numbers and could be put in closed form or compared step
  by step; these could not.
- `SkillsResolve`, the rest of `ExtensionsContained`: that the order of a skill's
  dependencies is complete and topological is a fact about a depth-first search.
- `IndexesFresh` of `MCDurable`, all but the digest's part of it, and `TypesOK` there: the
  ranking of `Vector`, the bytes of its cache and the pool of anchors are folds with
  an operator parameter and sorts, of which nothing can be proved here.
- That the hypotheses of the theorems are met is for the runs to show: each is the
  value of a constant in their configurations.

## Not modelled, and what comes next

- `supra_telemetry`: three counters and a one-word consent file; nothing in the
  program writes the file or sends the counters.
- Vendored and generated code, packaging and scripts.
- Inside modelled components: wording and layout of messages, TOML and JSON
  syntax, HTTP headers and endpoints, tables of languages, servers and adapters,
  colours and banners, cryptography (a digest is what it is over, a ciphertext
  opens under its passphrase), embedding arithmetic beyond signs and dot products,
  the wasm engine, the kernel's enforcement of a sandbox. `PROJECT.json` says for
  each component which of these is left out.

Next: the resident table of `Vector` as a set of slots and codes, so that the part of
`FreshInTurn` that is about revisions can be proved apart from the ranking; a relation between the
depth-first search of `Skills` and reachability, which `SkillsResolve` needs.
